------------------------- MODULE YmodemRecv_proofs --------------------------
(***************************************************************************)
(* What the receiver of YmodemRecv promises for files of any number and    *)
(* length, packets of any size and any number of faults.                   *)
(***************************************************************************)
EXTENDS YmodemRecv, SequenceTheorems, WellFoundedInduction, TLAPS

-----------------------------------------------------------------------------
(* Definitions.                                                            *)

\* The first b bodies of file f.
Bodies(f, b) == FlattenSeq([i \in 1 .. b |-> Body(f, i)])

\* The units of a file.
Size(file) == Len(FlattenSeq([b \in DOMAIN file.blocks |-> [i \in 1 .. file.blocks[b] |-> i]]))

\* The files carry their size, and nobody loses or makes up a head or a code
\* for the receiver: answers may get lost, bodies may be garbled, the sender
\* may be as slow as it likes and the flash may fail.
Dependable ==
    /\ Faults \subseteq {"mute", "garble", "stall", "erase", "write"}
    /\ \A s \in Sessions : \A i \in DOMAIN s.files : s.files[i].announced >= Size(s.files[i])

\* Packet 1 is not taken for packet 0, and a later packet 0 is an SOH packet.
Plain ==
    /\ SEQ_MOD > 1
    /\ \A s \in Sessions : \A i \in DOMAIN s.files : i > 1 => s.files[i].header = 1

Excused == trouble \/ ~Plain

-----------------------------------------------------------------------------
(* The line, with the head that was read already.                          *)

Reading == {"hsbody", "body", "nextbody"}
HeadOf(n) == Char(IF n = LONG THEN "STX" ELSE "SOH")
Seen == IF rp \in Reading THEN <<Char(IF long THEN "STX" ELSE "SOH")>> \o line ELSE line

IsHead(t) == t \in {Char("SOH"), Char("STX")}

\* Packet b of file f, perhaps garbled, stands at position p.
At(l, p, f, b) ==
    /\ p + PacketLen(f, b) <= Len(l)
    /\ l[p] = HeadOf(PacketLen(f, b))
    /\ \A i \in 1 .. PacketLen(f, b) : l[p + i] \in {Unit(f, b, i), Bad}

Whole(l, f, b) == Len(l) = PacketLen(f, b) + 1 /\ At(l, 1, f, b)

\* Up to position e there are only copies of packet 0 of file f.
Copies(l, f, e) ==
    /\ e > 1 => IsHead(l[1])
    /\ \A p \in 1 .. e - 1 : IsHead(l[p]) =>
        /\ At(l, p, f, 0)
        /\ p + PacketLen(f, 0) < e
        /\ p + PacketLen(f, 0) + 1 < e => IsHead(l[p + PacketLen(f, 0) + 1])

\* What is put behind the copies: packet 1, the first EOT, or nothing.
Queue(l, f, e) == e \in 1 .. Len(l) + 1 /\ Copies(l, f, e)
OnlyCopies(l, f) == Queue(l, f, Len(l) + 1)
ThenData(l, f) == \E e \in 1 .. Len(l) : Queue(l, f, e) /\ At(l, e, f, 1) /\ e + PacketLen(f, 1) = Len(l)
ThenEot(l, f) == Len(l) > 0 /\ Queue(l, f, Len(l)) /\ l[Len(l)] = Char("EOT")

Eot == <<Char("EOT")>>
Clean(l) == \A i \in DOMAIN l : l[i] # Bad

\* At most these answers are on the way, and without trouble all of them.
OnlyC(b) == \A i \in DOMAIN b : b[i] = "C"
Atmost(b, chars) ==
    /\ b \in {<<>>, chars} \cup {<<chars[i]>> : i \in DOMAIN chars}
    /\ Excused \/ b = chars
\* Some C of the handshake, then the answer to packet 0.
Answered(b) ==
    /\ \A i \in DOMAIN b : b[i] \in {"C", "ACK"} /\ (b[i] = "ACK" => i = Len(b) \/ (i = Len(b) - 1 /\ b[Len(b)] = "C"))
    /\ Excused \/ (Len(b) >= 2 /\ b[Len(b) - 1] = "ACK" /\ b[Len(b)] = "C")

\* The first b packets of file f are in the partition, and there is room for
\* the others.
Stored(f, b) ==
    /\ cur = Len(Bodies(f, b))
    /\ \A a \in 0 .. cur - 1 : dl[a] = Content(f)[a + 1]
    /\ \A a \in DOMAIN dl : a >= cur /\ a < session.files[f].announced => dl[a] = Char("erased")

-----------------------------------------------------------------------------
(* The stages of a session, and where the two ends are in each.            *)

Handshake ==
    /\ rp \in {"hello", "hs", "hsbody"} /\ stage = "ESTABLISHING"
    /\ cfile = 0 /\ cur = 0 /\ fblk = <<1, 0>>
    /\ sp \in {"idle", "hdr", "gaveup"} /\ (sp = "idle" => Seen = <<>>)
    /\ OnlyCopies(Seen, 1) /\ OnlyC(back)

Beginning ==
    /\ rp = "begin"
    /\ cfile = fblk[1] /\ fblk[2] = 0
    /\ sp \in {"hdr", "gaveup"}
    /\ OnlyCopies(line, cfile) /\ OnlyC(back)

\* Packet 0 was taken; what follows is another packet 0, packet 1 or EOT.
Offered ==
    /\ sp \in {"hdr", "gaveup"} /\ fblk[2] = 0
    /\ OnlyCopies(Seen, cfile) /\ (sp = "hdr" => Answered(back))
Taken ==
    /\ sp = "go" /\ fblk[2] = 0
    /\ OnlyCopies(Seen, cfile) /\ Atmost(back, <<"C">>)
FirstSent ==
    /\ sp = "data" /\ fblk[2] = 1 /\ back = <<>>
    /\ ThenData(Seen, cfile) \/ (Excused /\ Seen = <<>>)
NothingSent ==
    /\ sp = "eot1" /\ fblk[2] = 0 /\ BlocksOf(cfile) = 0 /\ back = <<>>
    /\ ThenEot(Seen, cfile)

Established ==
    /\ rp \in {"code", "body"} /\ stage = "ESTABLISHED"
    /\ cfile = fblk[1] /\ Stored(cfile, 0)
    /\ Offered \/ Taken \/ FirstSent \/ NothingSent

\* A packet is on its way, or its acknowledgement, or the first EOT.
PacketSent ==
    /\ sp = "data" /\ fblk[2] > 0 /\ back = <<>> /\ Stored(cfile, fblk[2] - 1)
    /\ Whole(Seen, cfile, fblk[2])
PacketTaken ==
    /\ sp = "data" /\ fblk[2] > 0 /\ Stored(cfile, fblk[2])
    /\ Seen = <<>> /\ Atmost(back, <<"ACK">>)
FileSent ==
    /\ sp = "eot1" /\ fblk[2] = BlocksOf(cfile) /\ back = <<>> /\ Stored(cfile, fblk[2])
    /\ Seen = Eot

Transmitting ==
    /\ rp \in {"code", "body"} /\ stage = "TRANSMITTING"
    /\ cfile = fblk[1]
    /\ PacketSent \/ PacketTaken \/ FileSent

\* The two EOT with their answers, and the next packet 0.
FirstEot == rp = "eot" /\ sp = "eot1" /\ line = <<>> /\ Atmost(back, <<"NAK">>)
EotAgain == rp = "eot" /\ sp = "eot2" /\ line = Eot /\ back = <<>>
EotTaken == rp = "next" /\ sp = "eot2" /\ line = <<>> /\ Atmost(back, <<"ACK", "C">>)
Asked == rp = "next" /\ sp = "next" /\ line = <<>> /\ Atmost(back, <<"C">>)
LastSent ==
    /\ rp \in {"next", "nextbody"} /\ sp = "last" /\ cfile = Files /\ back = <<>>
    /\ Whole(Seen, 0, 0)
NextSent ==
    /\ rp \in {"next", "nextbody"} /\ sp = "hdr" /\ fblk = <<cfile + 1, 0>> /\ back = <<>>
    /\ Whole(Seen, cfile + 1, 0)

Finishing ==
    /\ cfile # 0 /\ Stored(cfile, BlocksOf(cfile))
    /\ \/ /\ fblk = <<cfile, BlocksOf(cfile)>>
          /\ FirstEot \/ EotAgain \/ EotTaken \/ Asked \/ LastSent
       \/ NextSent

Done ==
    /\ rp = "done" /\ cfile = Files /\ Stored(cfile, BlocksOf(cfile))
    /\ sp \in {"last", "done", "gaveup"}

\* The sender hears at most one more acknowledgement, and none of the end.
Unanswered ==
    /\ sp # "done"
    /\ sp # "gaveup" => \A i, j \in DOMAIN back : back[i] = "ACK" /\ back[j] = "ACK" => i = j
    /\ sp \in {"next", "last"} => \A i \in DOMAIN back : back[i] # "ACK"

Failed == rp = "failed" /\ Excused /\ Unanswered /\ ReceivedPrefix

Sync ==
    /\ Handshake \/ Beginning \/ Established \/ Transmitting \/ Finishing \/ Done \/ Failed
    /\ sp = "gaveup" /\ rp \notin Ended => trouble
    /\ Excused \/ Clean(line)

-----------------------------------------------------------------------------
(* Induction, and what FlattenSeq computes.                                *)

\* Induction on the natural numbers, for a set of them.
LEMMA SetInduction ==
  ASSUME NEW S \in SUBSET Nat, 0 \in S, \A n \in S : n + 1 \in S
  PROVE  \A n \in Nat : n \in S
<1> DEFINE R == {ss \in Nat \X Nat : ss[1] < ss[2]}  T == Nat \ S
<1>1. IsWellFoundedOn(R, Nat)
  BY NatLessThanWellFounded DEF OpToRel
<1>2. SUFFICES ASSUME T # {} PROVE FALSE
  OBVIOUS
<1>3. PICK x \in T : \A y \in T : ~ (<<y, x>> \in R)
  <2>1. T \subseteq Nat
    OBVIOUS
  <2> HIDE DEF R, T
  <2> QED BY <1>1, <1>2, <2>1, WFMin
<1>4. x # 0 /\ x \in Nat /\ x - 1 \in Nat
  BY <1>3
<1>5. x - 1 \notin T
  <2>1. <<x - 1, x>> \in R
    BY <1>4
  <2> QED BY <1>3, <2>1
<1>6. x - 1 \in S
  BY <1>4, <1>5
<1>7. (x - 1) + 1 \in S
  BY <1>6
<1> QED BY <1>3, <1>4, <1>7

IsFlat(g, s, n) == g = [i \in 1 .. n |-> IF i = 1 THEN s[i] ELSE g[i - 1] \o s[i]]

\* An element of the recursive function by which FlattenSeq is defined.
LEMMA FlatAt ==
  ASSUME NEW s, NEW n \in Nat, NEW g, IsFlat(g, s, n), NEW i \in 1 .. n
  PROVE  g[i] = IF i = 1 THEN s[i] ELSE g[i - 1] \o s[i]
<1> DEFINE G(k) == IF k = 1 THEN s[k] ELSE g[k - 1] \o s[k]
<1>1. g = [k \in 1 .. n |-> G(k)]
  BY DEF IsFlat
<1> HIDE DEF G
<1>2. g[i] = G(i)
  BY <1>1
<1> QED BY <1>2 DEF G

\* A function whose elements are those is the recursive function.
LEMMA FlatIs ==
  ASSUME NEW s, NEW n \in Nat, NEW h, h = [i \in 1 .. n |-> h[i]],
         \A i \in 1 .. n : h[i] = IF i = 1 THEN s[i] ELSE h[i - 1] \o s[i]
  PROVE  IsFlat(h, s, n)
<1> DEFINE G(k) == IF k = 1 THEN s[k] ELSE h[k - 1] \o s[k]
<1>1. \A i \in 1 .. n : h[i] = G(i)
  OBVIOUS
<1> HIDE DEF G
<1>2. h = [i \in 1 .. n |-> G(i)]
  BY <1>1
<1> QED BY <1>2 DEF G, IsFlat

\* The recursive function exists for every length, so that the CHOOSE of
\* FlattenSeq finds it.
LEMMA FlatExists ==
  ASSUME NEW s
  PROVE  \A n \in Nat : \E g : IsFlat(g, s, n)
<1> DEFINE S == {m \in Nat : \E g : IsFlat(g, s, m)}
<1>1. 0 \in S
  <2> DEFINE g0 == [i \in {} |-> 0]
  <2>1. g0 = [i \in 1 .. 0 |-> g0[i]]
    OBVIOUS
  <2> HIDE DEF g0
  <2>2. \A i \in 1 .. 0 : g0[i] = IF i = 1 THEN s[i] ELSE g0[i - 1] \o s[i]
    OBVIOUS
  <2>3. 0 \in Nat
    OBVIOUS
  <2>4. IsFlat(g0, s, 0)
    BY <2>1, <2>2, <2>3, FlatIs
  <2> QED BY <2>4
<1>2. ASSUME NEW m \in S PROVE m + 1 \in S
  <2>1. m \in Nat
    OBVIOUS
  <2>2. PICK g : IsFlat(g, s, m)
    OBVIOUS
  <2> DEFINE h == [i \in 1 .. m + 1 |-> IF i \in 1 .. m THEN g[i]
                                        ELSE IF i = 1 THEN s[i] ELSE g[i - 1] \o s[i]]
  <2>3. \A i \in 1 .. m : g[i] = IF i = 1 THEN s[i] ELSE g[i - 1] \o s[i]
    BY <2>1, <2>2, FlatAt
  <2>4. \A i \in 1 .. m + 1 : h[i] = IF i = 1 THEN s[i] ELSE g[i - 1] \o s[i]
    BY <2>3
  <2>5. \A i \in 1 .. m : h[i] = g[i]
    BY <2>1
  <2>6. \A i \in 1 .. m + 1 : i # 1 => i - 1 \in 1 .. m
    BY <2>1
  <2>7. h = [i \in 1 .. m + 1 |-> h[i]]
    OBVIOUS
  <2> HIDE DEF h
  <2>8. \A i \in 1 .. m + 1 : h[i] = IF i = 1 THEN s[i] ELSE h[i - 1] \o s[i]
    BY <2>4, <2>5, <2>6
  <2>9. m + 1 \in Nat
    BY <2>1
  <2>10. IsFlat(h, s, m + 1)
    BY <2>7, <2>8, <2>9, FlatIs
  <2> QED BY <2>9, <2>10
<1>3. \A m \in Nat : m \in S
  <2>1. S \in SUBSET Nat
    OBVIOUS
  <2> HIDE DEF S
  <2> QED BY <1>1, <1>2, <2>1, SetInduction
<1> QED BY <1>3

\* Flatten of the same function.
LEMMA FlatUnique ==
  ASSUME NEW s, NEW m \in Nat, NEW n \in Nat, 1 .. m \subseteq 1 .. n, NEW g, NEW h, NEW t,
         IsFlat(g, s, m), IsFlat(h, t, n), \A i \in 1 .. m : s[i] = t[i]
  PROVE  \A i \in 1 .. m : g[i] = h[i]
<1> DEFINE S == {k \in Nat : k \in 1 .. m => g[k] = h[k]}
<1>1. 0 \in S
  OBVIOUS
<1>2. ASSUME NEW k \in S PROVE k + 1 \in S
  <2>1. k \in Nat /\ k + 1 \in Nat
    OBVIOUS
  <2>2. ASSUME k + 1 \in 1 .. m PROVE g[k + 1] = h[k + 1]
    <3>1. g[k + 1] = IF k + 1 = 1 THEN s[k + 1] ELSE g[(k + 1) - 1] \o s[k + 1]
      BY <2>2, FlatAt
    <3>2. k + 1 \in 1 .. n
      BY <2>1, <2>2
    <3>3. h[k + 1] = IF k + 1 = 1 THEN t[k + 1] ELSE h[(k + 1) - 1] \o t[k + 1]
      BY <3>2, FlatAt
    <3>4. (k + 1) - 1 = k /\ (k + 1 # 1 => k \in 1 .. m)
      BY <2>1, <2>2
    <3>5. k \in 1 .. m => g[k] = h[k]
      OBVIOUS
    <3>6. s[k + 1] = t[k + 1]
      BY <2>2
    <3> QED BY <3>1, <3>3, <3>4, <3>5, <3>6
  <2> QED BY <2>1, <2>2
<1>3. \A k \in Nat : k \in S
  <2>1. S \in SUBSET Nat
    OBVIOUS
  <2> HIDE DEF S
  <2> QED BY <1>1, <1>2, <2>1, SetInduction
<1> QED BY <1>3

\* FlattenSeq is the last element of the recursive function.
LEMMA FlattenIs ==
  ASSUME NEW s, Len(s) \in Nat
  PROVE  /\ Len(s) = 0 => FlattenSeq(s) = s
         /\ Len(s) > 0 => \E g : IsFlat(g, s, Len(s)) /\ FlattenSeq(s) = g[Len(s)]
<1>1. CASE Len(s) = 0
  BY <1>1 DEF FlattenSeq
<1>2. CASE Len(s) > 0
  <2> DEFINE f == CHOOSE g : g = [i \in 1 .. Len(s) |-> IF i = 1 THEN s[i] ELSE g[i - 1] \o s[i]]
  <2>1. \E g : g = [i \in 1 .. Len(s) |-> IF i = 1 THEN s[i] ELSE g[i - 1] \o s[i]]
    BY FlatExists DEF IsFlat
  <2>2. f = [i \in 1 .. Len(s) |-> IF i = 1 THEN s[i] ELSE f[i - 1] \o s[i]]
    BY <2>1
  <2>3. FlattenSeq(s) = f[Len(s)]
    BY <1>2 DEF FlattenSeq
  <2> HIDE DEF f
  <2>4. IsFlat(f, s, Len(s))
    BY <2>2 DEF IsFlat
  <2> QED BY <1>2, <2>3, <2>4
<1> QED BY <1>1, <1>2

Fun(s, n) == s = [i \in 1 .. n |-> s[i]]

\* The length of a sequence given as a function.
LEMMA FunLen ==
  ASSUME NEW n \in Nat, NEW s, Fun(s, n)
  PROVE  Len(s) = n /\ (n = 0 => s = <<>>)
<1> DEFINE G(i) == s[i]
<1>1. s = [i \in 1 .. n |-> G(i)]
  BY DEF Fun
<1> HIDE DEF G
<1>2. Len(s) = n
  BY <1>1
<1>3. n = 0 => s = <<>>
  BY <1>1
<1> QED BY <1>2, <1>3

\* One more sequence at the end of the flattened ones.
LEMMA FlattenLast ==
  ASSUME NEW T, NEW n \in Nat, NEW s, Fun(s, n + 1),
         \A i \in 1 .. n + 1 : s[i] \in Seq(T), NEW t, Fun(t, n), \A i \in 1 .. n : t[i] = s[i]
  PROVE  FlattenSeq(s) = FlattenSeq(t) \o s[n + 1]
<1>1. Len(s) = n + 1 /\ Len(t) = n /\ n + 1 > 0 /\ n + 1 \in Nat
  BY FunLen
<1>2. PICK g : IsFlat(g, s, n + 1) /\ FlattenSeq(s) = g[n + 1]
  BY <1>1, FlattenIs
<1>3. n + 1 \in 1 .. n + 1 /\ (n + 1) - 1 = n
  OBVIOUS
<1>4. g[n + 1] = IF n + 1 = 1 THEN s[n + 1] ELSE g[(n + 1) - 1] \o s[n + 1]
  BY <1>1, <1>2, <1>3, FlatAt
<1>5. CASE n = 0
  <2>1. t = <<>>
    BY <1>5, FunLen
  <2>2. FlattenSeq(t) = <<>>
    BY <1>1, <1>5, <2>1, FlattenIs
  <2>3. <<>> \o s[n + 1] = s[n + 1]
    BY <1>3, ConcatEmptySeq
  <2> QED BY <1>2, <1>4, <1>5, <2>2, <2>3
<1>6. CASE n # 0
  <2>1. PICK h : IsFlat(h, t, n) /\ FlattenSeq(t) = h[n]
    BY <1>1, <1>6, FlattenIs
  <2>2. \A i \in 1 .. n : t[i] = s[i]
    OBVIOUS
  <2>3. 1 .. n \subseteq 1 .. n + 1
    OBVIOUS
  <2>4. \A i \in 1 .. n : h[i] = g[i]
    BY <1>1, <1>2, <2>1, <2>2, <2>3, FlatUnique
  <2>5. h[n] = g[n]
    BY <1>6, <2>4
  <2>6. g[n + 1] = g[n] \o s[n + 1]
    <3>1. n + 1 # 1
      BY <1>6
    <3> QED BY <1>3, <1>4, <3>1
  <2> QED BY <1>2, <2>1, <2>5, <2>6
<1> QED BY <1>5, <1>6

\* What sequences of T flatten to is a sequence of T.
LEMMA FlattenTypes ==
  ASSUME NEW T, NEW n \in Nat, NEW s, Fun(s, n),
         \A i \in 1 .. n : s[i] \in Seq(T)
  PROVE  FlattenSeq(s) \in Seq(T)
<1>1. Len(s) = n
  BY FunLen
<1>2. CASE n = 0
  <2>1. s = <<>>
    BY <1>2, FunLen
  <2>2. FlattenSeq(s) = s
    BY <1>1, <1>2, FlattenIs
  <2>3. <<>> \in Seq(T)
    OBVIOUS
  <2> QED BY <2>1, <2>2, <2>3
<1>3. CASE n # 0
  <2>1. PICK g : IsFlat(g, s, n) /\ FlattenSeq(s) = g[n]
    BY <1>1, <1>3, FlattenIs
  <2> DEFINE S == {k \in Nat : k \in 1 .. n => g[k] \in Seq(T)}
  <2>2. 0 \in S
    OBVIOUS
  <2>3. ASSUME NEW k \in S PROVE k + 1 \in S
    <3>1. k \in Nat /\ k + 1 \in Nat /\ (k + 1) - 1 = k
      OBVIOUS
    <3>2. ASSUME k + 1 \in 1 .. n PROVE g[k + 1] \in Seq(T)
      <4>1. g[k + 1] = IF k + 1 = 1 THEN s[k + 1] ELSE g[(k + 1) - 1] \o s[k + 1]
        BY <2>1, <3>2, FlatAt
      <4>2. s[k + 1] \in Seq(T)
        BY <3>2
      <4>3. k + 1 # 1 => g[k] \in Seq(T)
        BY <3>1, <3>2
      <4>4. k + 1 # 1 => g[k] \o s[k + 1] \in Seq(T)
        BY <4>2, <4>3, ConcatProperties
      <4> QED BY <3>1, <4>1, <4>2, <4>4
    <3> QED BY <3>1, <3>2
  <2>4. \A k \in Nat : k \in S
    <3>1. S \in SUBSET Nat
      OBVIOUS
    <3> HIDE DEF S
    <3> QED BY <2>2, <2>3, <3>1, SetInduction
  <2> QED BY <1>3, <2>1, <2>4
<1> QED BY <1>2, <1>3

\* Sequences of the same lengths flatten to sequences of the same length.
LEMMA FlattenSameLen ==
  ASSUME NEW T, NEW n \in Nat, NEW s, Fun(s, n),
         NEW t, Fun(t, n),
         \A i \in 1 .. n : s[i] \in Seq(T) /\ t[i] \in Seq(Nat) /\ Len(s[i]) = Len(t[i])
  PROVE  Len(FlattenSeq(s)) = Len(FlattenSeq(t))
<1>1. Len(s) = n /\ Len(t) = n
  BY FunLen
<1>2. CASE n = 0
  <2>1. s = <<>> /\ t = <<>>
    BY <1>2, FunLen
  <2> QED BY <2>1
<1>3. CASE n # 0
  <2>1. PICK g : IsFlat(g, s, n) /\ FlattenSeq(s) = g[n]
    BY <1>1, <1>3, FlattenIs
  <2>2. PICK h : IsFlat(h, t, n) /\ FlattenSeq(t) = h[n]
    BY <1>1, <1>3, FlattenIs
  <2>6. /\ \A i \in 1 .. n : g[i] = IF i = 1 THEN s[i] ELSE g[i - 1] \o s[i]
        /\ \A i \in 1 .. n : h[i] = IF i = 1 THEN t[i] ELSE h[i - 1] \o t[i]
    BY ZenonT(40), <2>1, <2>2, FlatAt
  <2> DEFINE S == {k \in Nat : k \in 1 .. n => g[k] \in Seq(T) /\ h[k] \in Seq(Nat) /\ Len(g[k]) = Len(h[k])}
  <2>3. 0 \in S
    OBVIOUS
  <2>4. ASSUME NEW k \in S PROVE k + 1 \in S
    <3>1. k \in Nat /\ k + 1 \in Nat /\ (k + 1) - 1 = k
      OBVIOUS
    <3>2. ASSUME k + 1 \in 1 .. n
          PROVE  g[k + 1] \in Seq(T) /\ h[k + 1] \in Seq(Nat) /\ Len(g[k + 1]) = Len(h[k + 1])
      <4>1. g[k + 1] = IF k + 1 = 1 THEN s[k + 1] ELSE g[(k + 1) - 1] \o s[k + 1]
        BY <2>6, <3>2
      <4>2. h[k + 1] = IF k + 1 = 1 THEN t[k + 1] ELSE h[(k + 1) - 1] \o t[k + 1]
        BY <2>6, <3>2
      <4>3. s[k + 1] \in Seq(T) /\ t[k + 1] \in Seq(Nat) /\ Len(s[k + 1]) = Len(t[k + 1])
        BY <3>2
      <4>4. CASE k = 0
        BY <3>1, <4>1, <4>2, <4>3, <4>4
      <4>5. CASE k # 0
        <5>1. g[k] \in Seq(T) /\ h[k] \in Seq(Nat) /\ Len(g[k]) = Len(h[k])
          BY <3>1, <3>2, <4>5
        <5>2. /\ g[k] \o s[k + 1] \in Seq(T) /\ h[k] \o t[k + 1] \in Seq(Nat)
              /\ Len(g[k] \o s[k + 1]) = Len(g[k]) + Len(s[k + 1])
              /\ Len(h[k] \o t[k + 1]) = Len(h[k]) + Len(t[k + 1])
          BY <4>3, <5>1, ConcatProperties
        <5> QED BY <3>1, <4>1, <4>2, <4>3, <4>5, <5>1, <5>2
      <4> QED BY <4>4, <4>5
    <3> QED BY <3>1, <3>2
  <2>5. \A k \in Nat : k \in S
    <3>1. S \in SUBSET Nat
      OBVIOUS
    <3> HIDE DEF S
    <3> QED BY <2>3, <2>4, <3>1, SetInduction
  <2> QED BY <1>3, <2>1, <2>2, <2>5
<1> QED BY <1>2, <1>3

-----------------------------------------------------------------------------
(* Types: what is on the line and in the variables.                        *)

Answers == {"C", "ACK", "NAK", "CAN"}
Chars == {"SOH", "STX", "EOT"}
Tokens(n) ==
    {Char(c) : c \in Chars} \cup {Noise, Bad, Junk} \cup ({"unit"} \X (0 .. n) \X Nat \X Nat)

Types ==
    /\ TypeOK
    /\ line \in Seq(Tokens(Files)) /\ back \in Seq(Answers)
    /\ fblk \in Nat \X Nat

\* The files a session consists of.
LEMMA SessionFacts ==
  ASSUME session \in Sessions
  PROVE  /\ Files \in Nat /\ Files >= 1 /\ DOMAIN session.files = 1 .. Files
         /\ \A f \in 1 .. Files :
              /\ session.files[f].announced \in Nat
              /\ session.files[f].header \in {1, LONG}
              /\ session.files[f].blocks \in Seq({1, LONG})
              /\ BlocksOf(f) \in Nat
              /\ DOMAIN session.files[f].blocks = 1 .. BlocksOf(f)
              /\ \A b \in 1 .. BlocksOf(f) : session.files[f].blocks[b] \in {1, LONG}
<1>1. session.files \in Seq(File) /\ session.files # <<>>
  BY YmodemAssumption DEF Session
<1>2. Len(session.files) \in Nat /\ Len(session.files) >= 1 /\ DOMAIN session.files = 1 .. Files
  BY <1>1 DEF Files
<1>3. ASSUME NEW f \in 1 .. Files
      PROVE  /\ session.files[f].announced \in Nat
             /\ session.files[f].header \in {1, LONG}
             /\ session.files[f].blocks \in Seq({1, LONG})
  <2>1. session.files[f] \in File
    BY <1>1, <1>2, ElementOfSeq DEF Files
  <2> QED BY <2>1 DEF File
<1>4. ASSUME NEW f \in 1 .. Files
      PROVE  /\ BlocksOf(f) \in Nat
             /\ DOMAIN session.files[f].blocks = 1 .. BlocksOf(f)
             /\ \A b \in 1 .. BlocksOf(f) : session.files[f].blocks[b] \in {1, LONG}
  <2>1. session.files[f].blocks \in Seq({1, LONG})
    BY <1>3
  <2> QED BY <2>1, LenProperties, ElementOfSeq DEF BlocksOf
<1> QED BY <1>2, <1>3, <1>4 DEF Files

\* A packet that exists, 0 being the packet that ends the session.
Exists(f, b) == f \in 0 .. Files /\ b \in Nat /\ b <= (IF f = 0 THEN 0 ELSE BlocksOf(f))

\* A packet is its head and then the units of its body.
LEMMA PacketFacts ==
  ASSUME session \in Sessions, NEW f, NEW b, Exists(f, b)
  PROVE  /\ PacketLen(f, b) \in {1, LONG} /\ PacketLen(f, b) \in Nat /\ PacketLen(f, b) >= 1
         /\ Body(f, b) \in Seq(Tokens(Files)) /\ Len(Body(f, b)) = PacketLen(f, b)
         /\ Packet(f, b) \in Seq(Tokens(Files)) /\ Len(Packet(f, b)) = PacketLen(f, b) + 1
         /\ Packet(f, b)[1] = HeadOf(PacketLen(f, b))
         /\ \A i \in 1 .. PacketLen(f, b) : Packet(f, b)[1 + i] = Unit(f, b, i)
<1>1. PacketLen(f, b) \in {1, LONG}
  <2>1. f # 0 => f \in 1 .. Files
    BY SessionFacts DEF Exists
  <2>2. CASE f = 0
    BY <2>2 DEF PacketLen
  <2>3. CASE f # 0 /\ b = 0
    BY <2>1, <2>3, SessionFacts DEF PacketLen
  <2>4. CASE f # 0 /\ b # 0
    <3>1. b \in 1 .. BlocksOf(f)
      BY <2>1, <2>4, SessionFacts DEF Exists
    <3> QED BY <2>1, <2>4, <3>1, SessionFacts DEF PacketLen
  <2> QED BY <2>2, <2>3, <2>4
<1>2. PacketLen(f, b) \in Nat /\ PacketLen(f, b) >= 1
  BY <1>1, YmodemAssumption
<1>3. Body(f, b) \in Seq(Tokens(Files)) /\ Len(Body(f, b)) = PacketLen(f, b)
  <2> DEFINE n == PacketLen(f, b)
  <2>1. \A i \in 1 .. n : Unit(f, b, i) \in Tokens(Files)
    BY <1>2 DEF Exists, Unit, Tokens
  <2>2. Body(f, b) = [i \in 1 .. n |-> Unit(f, b, i)]
    BY DEF Body
  <2>3. n \in Nat
    BY <1>2
  <2> HIDE DEF n
  <2> QED BY <2>1, <2>2, <2>3 DEF n
<1>4. <<HeadOf(PacketLen(f, b))>> \in Seq(Tokens(Files))
  BY DEF HeadOf, Char, Tokens, Chars
<1>5. Packet(f, b) = <<HeadOf(PacketLen(f, b))>> \o Body(f, b)
  BY DEF Packet, HeadOf
<1>6. /\ Packet(f, b) \in Seq(Tokens(Files)) /\ Len(Packet(f, b)) = PacketLen(f, b) + 1
      /\ Packet(f, b)[1] = HeadOf(PacketLen(f, b))
      /\ \A i \in 1 .. PacketLen(f, b) : Packet(f, b)[1 + i] = Body(f, b)[i]
  <2> DEFINE h == <<HeadOf(PacketLen(f, b))>>  d == Body(f, b)  n == PacketLen(f, b)
  <2>1. Len(h) = 1 /\ h[1] = HeadOf(PacketLen(f, b))
    OBVIOUS
  <2> HIDE DEF h, d, n
  <2>2. h \in Seq(Tokens(Files)) /\ d \in Seq(Tokens(Files)) /\ Len(d) = n /\ n \in Nat /\ n >= 1
    BY <1>2, <1>3, <1>4 DEF h, d, n
  <2>3. /\ h \o d \in Seq(Tokens(Files)) /\ Len(h \o d) = Len(h) + Len(d)
        /\ \A i \in 1 .. Len(h) + Len(d) : (h \o d)[i] = IF i <= Len(h) THEN h[i] ELSE d[i - Len(h)]
    BY <2>2, ConcatProperties
  <2>4. (h \o d)[1] = h[1] /\ \A i \in 1 .. n : (h \o d)[1 + i] = d[i]
    BY <2>1, <2>2, <2>3
  <2> QED BY <1>5, <2>1, <2>2, <2>3, <2>4 DEF h, d, n
<1>7. \A i \in 1 .. PacketLen(f, b) : Body(f, b)[i] = Unit(f, b, i)
  BY DEF Body
<1> QED BY <1>1, <1>2, <1>3, <1>6, <1>7

-----------------------------------------------------------------------------
(* TypeOK, whatever happens on the line.                                   *)

\* What a body read takes from the line and what it leaves.
LEMMA ReadFacts ==
  ASSUME NEW T, line \in Seq(T), Len(line) >= Need
  PROVE  /\ Need \in Nat /\ Need >= 1
         /\ Read \in Seq(T) /\ Len(Read) = Need
         /\ \A i \in 1 .. Need : Read[i] = line[i]
         /\ SubSeq(line, Need + 1, Len(line)) \in Seq(T)
         /\ Len(SubSeq(line, Need + 1, Len(line))) = Len(line) - Need
         /\ \A i \in 1 .. Len(line) - Need : SubSeq(line, Need + 1, Len(line))[i] = line[Need + i]
<1>1. Need \in Nat /\ Need >= 1
  BY YmodemAssumption DEF Need
<1> DEFINE n == Need
<1>2. n \in Nat /\ n >= 1 /\ Len(line) >= n /\ Len(line) \in Nat
  BY <1>1
<1>3. Read = SubSeq(line, 1, n)
  BY DEF Read
<1> HIDE DEF n
<1>4. /\ SubSeq(line, 1, n) \in Seq(T) /\ Len(SubSeq(line, 1, n)) = n
      /\ \A i \in 1 .. n : SubSeq(line, 1, n)[i] = line[i]
  BY <1>2
<1>5. /\ SubSeq(line, n + 1, Len(line)) \in Seq(T) /\ Len(SubSeq(line, n + 1, Len(line))) = Len(line) - n
      /\ \A i \in 1 .. Len(line) - n : SubSeq(line, n + 1, Len(line))[i] = line[n + i]
  BY <1>2
<1> QED BY <1>2, <1>3, <1>4, <1>5 DEF n

\* What a body read leaves has the type of the line, also when it cuts a token
\* in two.
LEMMA LeftTypes ==
  ASSUME line \in Seq(Tokens(Files)), Len(line) >= Need
  PROVE  \A l \in Left : l \in Seq(Tokens(Files))
<1> DEFINE rest == SubSeq(line, Need + 1, Len(line))
<1>1. rest \in Seq(Tokens(Files))
  BY ReadFacts
<1>2. <<Junk>> \in Seq(Tokens(Files))
  BY DEF Tokens, Junk
<1>3. Left \subseteq {rest, <<Junk>> \o rest}
  BY DEF Left
<1> HIDE DEF rest
<1>4. <<Junk>> \o rest \in Seq(Tokens(Files))
  BY <1>1, <1>2, ConcatProperties
<1> QED BY <1>1, <1>3, <1>4

\* What a code read leaves has the type of the line.
LEMMA CodeTypes ==
  ASSUME line \in Seq(Tokens(Files)), line # <<>>
  PROVE  \A r \in Codes : r[2] \in Seq(Tokens(Files))
<1>1. Tail(line) \in Seq(Tokens(Files))
  BY HeadTailProperties
<1>2. <<Junk>> \in Seq(Tokens(Files))
  BY DEF Tokens, Junk
<1>3. <<Junk>> \o Tail(line) \in Seq(Tokens(Files))
  BY <1>1, <1>2, ConcatProperties
<1>4. \A r \in Codes : r[2] \in {line, Tail(line), <<Junk>> \o Tail(line)}
  BY DEF Codes
<1> QED BY <1>1, <1>3, <1>4

\* Answers are put behind answers.
LEMMA SayTypes ==
  ASSUME back \in Seq(Answers), NEW s \in Seq(Answers), Say(s)
  PROVE  back' \in Seq(Answers)
BY ConcatProperties DEF Say

\* A body that passes the CRC belongs to a file of the session, or is the
\* last packet 0.
LEMMA GoodOwner ==
  ASSUME line \in Seq(Tokens(Files)), Len(line) >= Need, Good(Read), session \in Sessions
  PROVE  Owner(Read) \in 0 .. Files
<1>1. Read[1] \in Tokens(Files)
  BY ReadFacts, ElementOfSeq
<1>2. Read[1][1] = "unit"
  BY DEF Good, IsUnit
<1>3. Read[1] \in {"unit"} \X (0 .. Files) \X Nat \X Nat
  BY <1>1, <1>2 DEF Tokens, Char, Noise, Bad, Junk, Chars
<1> QED BY <1>3, SessionFacts DEF Owner

\* The receiver keeps the types: its writes stay in the partition and its
\* tries within their limits.
LEMMA TypesReceiver ==
  ASSUME Types, Receiver
  PROVE  Types'
<1>1. session \in Sessions /\ line \in Seq(Tokens(Files)) /\ back \in Seq(Answers)
  BY DEF Types, TypeOK
<1>2. UNCHANGED <<session, sp, fblk, retries, faults>>
  BY DEF Receiver, Hello, HelloFails, HelloTimeout, HelloCode, HeaderFails, Header, Timeout,
         BeginFails, Begin, Code, Ignore, DataFails, Data, DataRefused, SecondEot, NextCode,
         NextBad, NextFile, Finished, send
<1>3. Files' = Files /\ \A f : BlocksOf(f)' = BlocksOf(f)
  BY <1>2 DEF Files, BlocksOf
<1>4. /\ <<"C">> \in Seq(Answers) /\ <<"ACK", "C">> \in Seq(Answers) /\ <<"ACK">> \in Seq(Answers)
      /\ <<"NAK">> \in Seq(Answers) /\ [i \in 1 .. 7 |-> "CAN"] \in Seq(Answers)
  BY DEF Answers
<1>5. back' \in Seq(Answers)
  BY <1>1, <1>4, SayTypes
  DEF Receiver, Hello, HelloFails, HelloTimeout, HelloCode, HeaderFails, Header, Timeout,
         BeginFails, Begin, Code, Ignore, DataFails, Data, DataRefused, SecondEot, NextCode,
         NextBad, NextFile, NextFails, Finished, Fails
<1>6. line' \in Seq(Tokens(Files))
  BY <1>1, LeftTypes, CodeTypes
  DEF Receiver, Hello, HelloFails, HelloTimeout, HelloCode, HeaderFails, Header, Timeout,
         BeginFails, Begin, Code, Ignore, DataFails, Data, DataRefused, SecondEot, NextCode,
         NextBad, NextFile, NextFails, Finished, Fails
<1>7. cfile' \in 0 .. Files
  BY <1>1, GoodOwner
  DEF Types, TypeOK, Files, recv, Receiver, Hello, HelloFails, HelloTimeout, HelloCode, HeaderFails, Header, Timeout,
         BeginFails, Begin, Code, Ignore, DataFails, Data, DataRefused, SecondEot, NextCode,
         NextBad, NextFile, NextFails, Finished, Fails
<1>8. cur' \in 0 .. PartLen
  <2>1. cur \in 0 .. PartLen /\ PartLen \in Nat
    BY YmodemAssumption DEF Types, TypeOK
  <2>2. CASE Data
    <3>1. Len(Read) = Need /\ Need \in Nat
      BY <1>1, <2>2, ReadFacts DEF Data
    <3> QED BY <2>1, <2>2, <3>1 DEF Data, Advance
  <2> QED BY <2>1, <2>2
      DEF recv, Receiver, Hello, HelloFails, HelloTimeout, HelloCode, HeaderFails, Header, Timeout,
         BeginFails, Begin, BeginCur, Code, Ignore, DataFails, DataRefused, SecondEot, NextCode,
         NextBad, NextFile, NextFails, Finished, Fails
<1>9. DOMAIN dl' = 0 .. PartLen - 1
  <2>1. DOMAIN dl = 0 .. PartLen - 1
    BY DEF Types, TypeOK
  <2>2. /\ \A n : DOMAIN ErasedUpTo(n) = DOMAIN dl
        /\ \A u : DOMAIN Written(u) = DOMAIN dl
    BY DEF ErasedUpTo, Written
  <2> QED BY <2>1, <2>2
      DEF recv, Receiver, Hello, HelloFails, HelloTimeout, HelloCode, HeaderFails, Header, Timeout,
         BeginFails, Begin, BeginCur, Code, Ignore, DataFails, Data, DataRefused, SecondEot, NextCode,
         NextBad, NextFile, NextFails, Finished, Fails
<1>10. tries' \in 0 .. TM_SEC
  <2>1. tries \in 0 .. TM_SEC /\ TM_SEC \in Nat
    BY YmodemAssumption DEF Types, TypeOK
  <2> QED BY <2>1
      DEF recv, Receiver, Hello, MoreTries, HelloFails, HelloTimeout, HelloCode, HeaderFails, Header, Timeout,
         BeginFails, Begin, BeginCur, Code, Ignore, DataFails, Data, DataRefused, SecondEot, NextCode,
         NextBad, NextFile, NextFails, Finished, Fails
<1>11. /\ rp' \in {"hello", "hs", "hsbody", "begin", "code", "body", "eot", "next", "nextbody"} \cup Ended
       /\ stage' \in {"ESTABLISHING", "ESTABLISHED", "TRANSMITTING", "FINISHING", "FINISHED"}
       /\ long' \in BOOLEAN /\ trouble' \in BOOLEAN
  BY DEF Types, TypeOK, Ended, recv, Receiver, Hello, MoreTries, HelloFails, HelloTimeout, HelloCode, HeaderFails,
         Header, Timeout,
         BeginFails, Begin, BeginCur, Code, Ignore, DataFails, Data, DataRefused, SecondEot, NextCode,
         NextBad, NextFile, NextFails, Finished, Fails
<1> QED BY <1>2, <1>3, <1>5, <1>6, <1>7, <1>8, <1>9, <1>10, <1>11 DEF Types, TypeOK, Files, BlocksOf

\* Packets are put behind packets.
LEMMA SendTypes ==
  ASSUME line \in Seq(Tokens(Files)), NEW s \in Seq(Tokens(Files)), Send(s)
  PROVE  line' \in Seq(Tokens(Files))
BY ConcatProperties DEF Send

\* What a sender may be sending.
LEMMA SenderPackets ==
  ASSUME Types
  PROVE  /\ Pending \in Seq(Tokens(Files))
         /\ Packet(0, 0) \in Seq(Tokens(Files)) /\ Packet(1, 0) \in Seq(Tokens(Files))
         /\ <<Char("EOT")>> \in Seq(Tokens(Files)) /\ <<>> \in Seq(Tokens(Files))
         /\ fblk[1] < Files => Packet(fblk[1] + 1, 0) \in Seq(Tokens(Files))
         /\ fblk[2] < BlocksOf(fblk[1]) => Packet(fblk[1], fblk[2] + 1) \in Seq(Tokens(Files))
<1>1. session \in Sessions /\ fblk[1] \in 1 .. Files /\ fblk[2] \in 0 .. BlocksOf(fblk[1])
  BY DEF Types, TypeOK, Files, BlocksOf
<1>2. Files \in Nat /\ Files >= 1 /\ \A f \in 1 .. Files : BlocksOf(f) \in Nat
  BY <1>1, SessionFacts
<1>3. <<Char("EOT")>> \in Seq(Tokens(Files)) /\ <<>> \in Seq(Tokens(Files))
  BY DEF Char, Tokens, Chars
<1>4. \A f, b : Exists(f, b) => Packet(f, b) \in Seq(Tokens(Files))
  BY <1>1, PacketFacts
<1>5. Exists(0, 0) /\ Exists(1, 0) /\ Exists(fblk[1], fblk[2])
  BY <1>1, <1>2 DEF Exists
<1>6. /\ fblk[1] < Files => Exists(fblk[1] + 1, 0)
      /\ fblk[2] < BlocksOf(fblk[1]) => Exists(fblk[1], fblk[2] + 1)
  BY <1>1, <1>2 DEF Exists
<1> QED BY <1>3, <1>4, <1>5, <1>6 DEF Pending

\* The sender keeps the types.
LEMMA TypesSender ==
  ASSUME Types, Sender
  PROVE  Types'
<1>1. /\ session \in Sessions /\ fblk[1] \in 1 .. Files /\ fblk[2] \in 0 .. BlocksOf(fblk[1])
      /\ line \in Seq(Tokens(Files)) /\ back \in Seq(Answers) /\ retries \in 0 .. MaxRetries
      /\ fblk \in Nat \X Nat
  BY DEF Types, TypeOK, Files, BlocksOf
<1>2. UNCHANGED <<recv, session, faults>>
  BY DEF Sender, SenderStarts, SenderHears, SenderTimeout
<1>3. Files' = Files /\ \A f : BlocksOf(f)' = BlocksOf(f)
  BY <1>2 DEF Files, BlocksOf
<1>4. Files \in Nat /\ Files >= 1 /\ \A f \in 1 .. Files : BlocksOf(f) \in Nat
  BY <1>1, SessionFacts
<1>5. back' \in Seq(Answers)
  <2>1. back # <<>> => Tail(back) \in Seq(Answers)
    BY <1>1, HeadTailProperties
  <2>2. <<>> \in Seq(Answers)
    OBVIOUS
  <2> QED BY <1>1, <2>1, <2>2 DEF Sender, SenderStarts, SenderHears, SenderTimeout
<1>6. ASSUME SendAgain PROVE line' \in Seq(Tokens(Files)) /\ retries' \in 0 .. MaxRetries /\ UNCHANGED fblk
  <2>1. CASE retries < MaxRetries
    <3>1. line' \in Seq(Tokens(Files))
      BY <1>1, <1>6, <2>1, SenderPackets, SendTypes DEF SendAgain
    <3>2. retries' \in 0 .. MaxRetries /\ UNCHANGED fblk
      BY <1>1, <1>6, <2>1, YmodemAssumption DEF SendAgain
    <3> QED BY <3>1, <3>2
  <2>2. CASE ~ (retries < MaxRetries)
    BY <1>1, <1>6, <2>2 DEF SendAgain
  <2> QED BY <2>1, <2>2
<1>7. ASSUME NEW p, NEW fb, NEW s \in Seq(Tokens(Files)), GoesTo(p, fb, s)
      PROVE  line' \in Seq(Tokens(Files)) /\ retries' = retries /\ fblk' = fb
  BY <1>1, <1>7, SendTypes DEF GoesTo
<1> DEFINE FblkOK(fb) == fb \in Nat \X Nat /\ fb[1] \in 1 .. Files /\ fb[2] \in 0 .. BlocksOf(fb[1])
<1>8. /\ FblkOK(fblk) /\ FblkOK(<<1, 0>>)
      /\ fblk[1] < Files => FblkOK(<<fblk[1] + 1, 0>>)
      /\ fblk[2] < BlocksOf(fblk[1]) => FblkOK(<<fblk[1], fblk[2] + 1>>)
  BY SMTT(30), <1>1, <1>4
<1> DEFINE Goal == line' \in Seq(Tokens(Files)) /\ retries' \in 0 .. MaxRetries /\ FblkOK(fblk')
<1> HIDE DEF FblkOK
<1>9. Offer => Goal
  BY <1>1, <1>7, <1>8, SenderPackets DEF Offer
<1>10. Proceed => Goal
  <2>1. CASE fblk[2] < BlocksOf(fblk[1])
    BY <1>1, <1>7, <1>8, <2>1, SenderPackets DEF Proceed
  <2>2. CASE ~ (fblk[2] < BlocksOf(fblk[1]))
    BY <1>1, <1>7, <1>8, <2>2, SenderPackets DEF Proceed
  <2> QED BY <2>1, <2>2
<1>11. \A p, s : s \in {<<>>, <<Char("EOT")>>} /\ GoesTo(p, fblk, s) => Goal
  BY <1>1, <1>7, <1>8, SenderPackets
<1>12. SendAgain => Goal
  BY <1>6, <1>8
<1>13. UNCHANGED <<fblk, retries, line>> => Goal
  BY <1>1, <1>8
<1>14. SenderStarts => Goal
  BY <1>1, <1>7, <1>8, SenderPackets DEF SenderStarts
<1>15. SenderHears => Goal
  BY <1>9, <1>10, <1>11, <1>12, <1>13 DEF SenderHears
<1>16. Goal
  BY <1>12, <1>14, <1>15 DEF Sender, SenderTimeout
<1>17. sp' \in {"idle", "hdr", "go", "data", "eot1", "eot2", "next", "last", "done", "gaveup"}
  BY DEF Types, TypeOK, Sender, SenderStarts, SenderHears, SenderTimeout, SendAgain, GoesTo, Offer, Proceed
<1>18. trouble' \in BOOLEAN
  BY DEF Types, TypeOK, Sender, SenderStarts, SenderHears, SenderTimeout, SendAgain
<1> QED BY <1>2, <1>3, <1>5, <1>16, <1>17, <1>18 DEF Types, TypeOK, FblkOK, recv, Files, BlocksOf

\* A sequence without one of its elements.
LEMMA RemoveFacts ==
  ASSUME NEW T, NEW s \in Seq(T), NEW i \in DOMAIN s
  PROVE  /\ RemoveAt(s, i) \in Seq(T) /\ Len(RemoveAt(s, i)) = Len(s) - 1
         /\ \A j \in 1 .. Len(s) - 1 : RemoveAt(s, i)[j] = IF j < i THEN s[j] ELSE s[j + 1]
<1>1. i \in 1 .. Len(s) /\ Len(s) \in Nat
  BY LenProperties
<1> DEFINE u == SubSeq(s, 1, i - 1)  w == SubSeq(s, i + 1, Len(s))
<1>2. u \in Seq(T) /\ Len(u) = i - 1 /\ \A j \in 1 .. i - 1 : u[j] = s[j]
  BY <1>1
<1>3. w \in Seq(T) /\ Len(w) = Len(s) - i /\ \A j \in 1 .. Len(s) - i : w[j] = s[i + j]
  BY <1>1
<1>4. RemoveAt(s, i) = u \o w
  BY DEF RemoveAt
<1> HIDE DEF u, w
<1>5. /\ u \o w \in Seq(T) /\ Len(u \o w) = Len(u) + Len(w)
      /\ \A j \in 1 .. Len(u) + Len(w) : (u \o w)[j] = IF j <= Len(u) THEN u[j] ELSE w[j - Len(u)]
  BY <1>2, <1>3, ConcatProperties
<1>6. ASSUME NEW j \in 1 .. Len(s) - 1
      PROVE  RemoveAt(s, i)[j] = IF j < i THEN s[j] ELSE s[j + 1]
  <2>1. CASE j < i
    BY SMTT(30), <1>1, <1>2, <1>3, <1>4, <1>5, <2>1
  <2>2. CASE j >= i
    <3>1. j - (i - 1) \in 1 .. Len(s) - i /\ j \in 1 .. Len(u) + Len(w) /\ ~ (j <= Len(u))
      BY SMTT(30), <1>1, <1>2, <1>3, <2>2
    <3>3. (u \o w)[j] = w[j - (i - 1)]
      BY <1>2, <1>5, <3>1
    <3>2. w[j - (i - 1)] = s[j + 1]
      <4>1. \A k \in 1 .. Len(s) - i : i + k = j + 1 => w[k] = s[j + 1]
        BY <1>3
      <4>2. i + (j - (i - 1)) = j + 1
        BY <1>1
      <4> QED BY <3>1, <4>1, <4>2
    <3> QED BY <1>1, <1>4, <2>2, <3>2, <3>3
  <2> QED BY <1>1, <2>1, <2>2
<1>7. Len(u) + Len(w) = Len(s) - 1
  BY <1>1, <1>2, <1>3
<1> QED BY <1>4, <1>5, <1>6, <1>7

\* The line and the serial buffer keep the types, whatever the faults.
LEMMA TypesLine ==
  ASSUME Types, LineFault \/ Overrun
  PROVE  Types'
<1>1. /\ line \in Seq(Tokens(Files)) /\ back \in Seq(Answers) /\ faults \in 0 .. MaxFaults
      /\ MaxFaults \in Nat
  BY YmodemAssumption DEF Types, TypeOK
<1>2. UNCHANGED <<recv, send>>
  BY DEF LineFault, Overrun
<1>3. Files' = Files
  BY <1>2 DEF Files, send
<1>4. line' \in Seq(Tokens(Files))
  <2>1. \A i \in DOMAIN line : RemoveAt(line, i) \in Seq(Tokens(Files))
    BY <1>1, RemoveFacts
  <2>2. {Bad, Noise, Junk} \subseteq Tokens(Files)
    BY DEF Tokens
  <2>3. \A i \in DOMAIN line, t \in {Bad, Noise} : [line EXCEPT ![i] = t] \in Seq(Tokens(Files))
    BY <1>1, <2>2, ExceptSeq
  <2>4. <<Junk>> \in Seq(Tokens(Files))
    BY <2>2
  <2> QED BY <1>1, <2>1, <2>3, <2>4 DEF LineFault, Overrun
<1>5. back' \in Seq(Answers)
  <2>1. \A i \in DOMAIN back : RemoveAt(back, i) \in Seq(Answers)
    BY <1>1, RemoveFacts
  <2> QED BY <1>1, <2>1 DEF LineFault, Overrun
<1>6. faults' \in 0 .. MaxFaults /\ trouble' \in BOOLEAN
  <2>1. trouble \in BOOLEAN
    BY DEF Types, TypeOK
  <2>2. CASE LineFault
    BY <1>1, <2>2 DEF LineFault
  <2>3. CASE Overrun
    BY <1>1, <2>1, <2>3 DEF Overrun
  <2> QED BY <2>2, <2>3
<1> QED BY <1>2, <1>3, <1>4, <1>5, <1>6 DEF Types, TypeOK, recv, send

\* The types hold at the start of a session.
LEMMA TypesInit == Init => Types
<1> SUFFICES ASSUME Init PROVE Types
  OBVIOUS
<1>1. session \in Sessions
  BY DEF Init
<1>2. Files >= 1 /\ Files \in Nat /\ BlocksOf(1) \in Nat
  BY <1>1, SessionFacts
<1>3. <<>> \in Seq(Tokens(Files)) /\ <<>> \in Seq(Answers)
  OBVIOUS
<1>4. /\ fblk \in Nat \X Nat /\ fblk[1] \in 1 .. Files /\ fblk[2] \in 0 .. BlocksOf(fblk[1])
      /\ cfile \in 0 .. Files
  BY <1>2 DEF Init
<1>5. tries \in 0 .. TM_SEC /\ cur \in 0 .. PartLen /\ retries \in 0 .. MaxRetries /\ faults \in 0 .. MaxFaults
  BY YmodemAssumption DEF Init
<1>6. DOMAIN dl = 0 .. PartLen - 1
  BY DEF Init
<1>7. line = <<>> /\ back = <<>>
  BY DEF Init
<1>8. TypeOK
  BY <1>1, <1>4, <1>5, <1>6 DEF Init, TypeOK, Files, BlocksOf
<1> QED BY <1>3, <1>4, <1>7, <1>8 DEF Types

\* Every step keeps the types.
LEMMA TypesStep == Types /\ [Next]_vars => Types'
<1> SUFFICES ASSUME Types, [Next]_vars PROVE Types'
  OBVIOUS
<1>1. CASE UNCHANGED vars
  BY <1>1 DEF vars, recv, send, Types, TypeOK, Files
<1> QED BY <1>1, TypesReceiver, TypesSender, TypesLine DEF Next

\* The types always hold, with what the other proofs need besides TypeOK.
LEMMA TypesAlways == Spec => []Types
BY TypesInit, TypesStep, PTL DEF Spec

\* The variables keep their types whatever the line and the sender do: no write
\* leaves the partition, no more C are sent than the handshake may, and no
\* packet 0 of a file that is not offered is taken.
THEOREM YmodemTypes == Spec => []TypeOK
<1>1. Types => TypeOK
  BY DEF Types
<1> QED BY <1>1, TypesAlways, PTL

-----------------------------------------------------------------------------
(* Lines: what is taken from the front, put at the end or garbled.         *)

\* r is l without its first n tokens.
Rest(r, l, n) ==
    /\ Len(l) >= n /\ Len(r) = Len(l) - n
    /\ \A i \in 1 .. Len(r) : r[i] = l[n + i]

\* Some units of l are garbled in m.
Garbled(m, l) ==
    /\ Len(m) = Len(l)
    /\ \A i \in 1 .. Len(l) : m[i] = l[i] \/ (IsUnit(l[i]) /\ m[i] = Bad)

\* The tokens of m are those of l, then those of s.
Joined(m, l, s) ==
    /\ Len(m) = Len(l) + Len(s)
    /\ \A i \in 1 .. Len(l) : m[i] = l[i]
    /\ \A i \in 1 .. Len(s) : m[Len(l) + i] = s[i]

\* Heads, codes, units and garbled units are not mistaken for each other.
LEMMA Heads ==
  /\ \A n : IsHead(HeadOf(n)) /\ ~IsUnit(HeadOf(n)) /\ HeadOf(n) # Bad
  /\ ~IsHead(Bad) /\ ~IsHead(Char("EOT")) /\ ~IsUnit(Char("EOT"))
  /\ \A f, b, i : ~IsHead(Unit(f, b, i)) /\ IsUnit(Unit(f, b, i)) /\ Unit(f, b, i) # Bad
  /\ \A t : IsHead(t) => ~IsUnit(t)
BY DEF HeadOf, IsHead, Char, Bad, Unit, IsUnit

\* Taking the first copy of packet 0 from a queue leaves a queue.
LEMMA RestQueue ==
  ASSUME NEW f, PacketLen(f, 0) \in Nat, PacketLen(f, 0) >= 1,
         NEW l, Len(l) \in Nat, NEW e, Queue(l, f, e), e > 1
  PROVE  /\ At(l, 1, f, 0) /\ e > PacketLen(f, 0) + 1
         /\ \A r : Rest(r, l, PacketLen(f, 0) + 1) /\ Len(r) \in Nat =>
                     Queue(r, f, e - (PacketLen(f, 0) + 1))
<1> DEFINE n == PacketLen(f, 0)
<1>1. n \in Nat /\ n >= 1 /\ e \in 1 .. Len(l) + 1
  BY DEF Queue
<1>2. At(l, 1, f, 0) /\ 1 + n < e /\ (1 + n + 1 < e => IsHead(l[1 + n + 1]))
  BY <1>1 DEF Queue, Copies
<1> HIDE DEF n
<1>3. ASSUME NEW r, Rest(r, l, n + 1), Len(r) \in Nat PROVE Queue(r, f, e - (n + 1))
  <2> DEFINE d == e - (n + 1)
  <2>1. d \in 1 .. Len(r) + 1 /\ e = d + (n + 1)
    BY <1>1, <1>2, <1>3 DEF Rest
  <2>2. d > 1 => IsHead(r[1])
    <3>1. d > 1 => 1 \in 1 .. Len(r) /\ n + 1 + 1 = 1 + n + 1 /\ 1 + n + 1 < e
      BY <1>1, <2>1
    <3> QED BY <1>2, <1>3, <3>1 DEF Rest
  <2>3. ASSUME NEW p \in 1 .. d - 1, IsHead(r[p])
        PROVE  At(r, p, f, 0) /\ p + n < d /\ (p + n + 1 < d => IsHead(r[p + n + 1]))
    <3> DEFINE q == n + 1 + p
    <3>1. r[p] = l[q] /\ q \in 1 .. e - 1
      BY SMTT(30), <1>1, <1>3, <2>1 DEF Rest
    <3>2. At(l, q, f, 0) /\ q + n < e /\ (q + n + 1 < e => IsHead(l[q + n + 1]))
      BY <2>3, <3>1 DEF Queue, Copies, n
    <3>3. p + n < d
      BY <1>1, <2>1, <3>2
    <3>4. p + n + 1 < d => r[p + n + 1] = l[q + n + 1] /\ q + n + 1 < e
      <4>1. ASSUME p + n + 1 < d PROVE r[p + n + 1] = l[n + 1 + (p + n + 1)] /\ n + 1 + (p + n + 1) = q + n + 1 /\ q + n + 1 < e
        BY <1>1, <1>3, <2>1, <4>1 DEF Rest
      <4> QED BY <4>1
    <3>5. \A i \in 1 .. n : r[p + i] = l[q + i]
      <4>1. ASSUME NEW i \in 1 .. n PROVE r[p + i] = l[n + 1 + (p + i)] /\ n + 1 + (p + i) = q + i
        BY <1>1, <1>3, <2>1, <3>3 DEF Rest
      <4> QED BY <4>1
    <3>6. p + n <= Len(r)
      BY <1>1, <2>1, <3>3
    <3> HIDE DEF q
    <3>7. At(r, p, f, 0)
      BY <3>1, <3>2, <3>5, <3>6 DEF At, n
    <3> QED BY <3>2, <3>3, <3>4, <3>7
  <2> HIDE DEF d
  <2>4. Queue(r, f, d)
    BY <2>1, <2>2, <2>3 DEF Queue, Copies, n
  <2> QED BY <2>4 DEF d
<1> QED BY <1>1, <1>2, <1>3 DEF n

\* A line of copies of packet 0 starts with one, and the rest are copies.
LEMMA RestCopies ==
  ASSUME NEW f, PacketLen(f, 0) \in Nat, PacketLen(f, 0) >= 1,
         NEW l, Len(l) \in Nat, Len(l) > 0, OnlyCopies(l, f)
  PROVE  /\ At(l, 1, f, 0)
         /\ \A r : Rest(r, l, PacketLen(f, 0) + 1) /\ Len(r) \in Nat => OnlyCopies(r, f)
<1>1. Queue(l, f, Len(l) + 1) /\ Len(l) + 1 > 1
  BY DEF OnlyCopies
<1>2. At(l, 1, f, 0)
  BY <1>1, RestQueue
<1>3. ASSUME NEW r, Rest(r, l, PacketLen(f, 0) + 1), Len(r) \in Nat PROVE OnlyCopies(r, f)
  <2>1. Queue(r, f, (Len(l) + 1) - (PacketLen(f, 0) + 1))
    BY <1>1, <1>3, RestQueue
  <2>2. (Len(l) + 1) - (PacketLen(f, 0) + 1) = Len(r) + 1
    BY <1>3 DEF Rest
  <2> QED BY <2>1, <2>2 DEF OnlyCopies
<1> QED BY <1>2, <1>3

\* Copies followed by packet 1 start with a copy, or are that packet.
LEMMA RestThenData ==
  ASSUME NEW f, PacketLen(f, 0) \in Nat, PacketLen(f, 0) >= 1,
         PacketLen(f, 1) \in Nat, PacketLen(f, 1) >= 1,
         NEW l, Len(l) \in Nat, ThenData(l, f)
  PROVE  \/ Whole(l, f, 1)
         \/ /\ At(l, 1, f, 0)
            /\ \A r : Rest(r, l, PacketLen(f, 0) + 1) /\ Len(r) \in Nat => ThenData(r, f)
<1>1. PICK e \in 1 .. Len(l) : Queue(l, f, e) /\ At(l, e, f, 1) /\ e + PacketLen(f, 1) = Len(l)
  BY DEF ThenData
<1>2. CASE e = 1
  BY <1>1, <1>2 DEF Whole
<1>3. CASE e # 1
  <2>1. At(l, 1, f, 0) /\ e > PacketLen(f, 0) + 1
    BY <1>1, <1>3, RestQueue
  <2>2. ASSUME NEW r, Rest(r, l, PacketLen(f, 0) + 1), Len(r) \in Nat PROVE ThenData(r, f)
    <3> DEFINE n == PacketLen(f, 0) + 1  d == e - n  m == PacketLen(f, 1)
    <3>1. Queue(r, f, d)
      BY <1>1, <1>3, <2>2, RestQueue
    <3>5. n \in Nat /\ m \in Nat /\ e > n /\ e + m = Len(l) /\ e \in Nat
      BY <1>1, <2>1
    <3>6. Len(r) = Len(l) - n /\ \A i \in 1 .. Len(r) : r[i] = l[n + i]
      BY <2>2 DEF Rest
    <3>7. d = e - n
      OBVIOUS
    <3> HIDE DEF n, d, m
    <3>2. e = d + n /\ d \in 1 .. Len(r) /\ d + m = Len(r)
      BY <3>5, <3>6, <3>7
    <3>3. r[d] = l[e] /\ \A i \in 1 .. m : r[d + i] = l[e + i]
      <4>1. r[d] = l[n + d] /\ n + d = e
        BY <3>2, <3>5, <3>6
      <4>2. ASSUME NEW i \in 1 .. m PROVE r[d + i] = l[e + i]
        <5>1. d + i \in 1 .. Len(r) /\ n + (d + i) = e + i
          BY <3>2, <3>5
        <5> QED BY <3>6, <5>1
      <4> QED BY <4>1, <4>2
    <3>4. At(r, d, f, 1)
      BY <1>1, <3>2, <3>3 DEF At, m
    <3> QED BY <3>1, <3>2, <3>4 DEF ThenData, m, d, n
  <2> QED BY <2>1, <2>2
<1> QED BY <1>2, <1>3

\* Copies followed by the EOT start with a copy, or are that EOT.
LEMMA RestThenEot ==
  ASSUME NEW f, PacketLen(f, 0) \in Nat, PacketLen(f, 0) >= 1,
         NEW l, Len(l) \in Nat, ThenEot(l, f)
  PROVE  \/ Len(l) = 1 /\ l[1] = Char("EOT")
         \/ /\ At(l, 1, f, 0)
            /\ \A r : Rest(r, l, PacketLen(f, 0) + 1) /\ Len(r) \in Nat => ThenEot(r, f)
<1>1. Len(l) > 0 /\ Queue(l, f, Len(l)) /\ l[Len(l)] = Char("EOT")
  BY DEF ThenEot
<1>2. CASE ~ (Len(l) > 1)
  <2>1. Len(l) = 1
    <3> DEFINE k == Len(l)
    <3>1. k \in Nat /\ k > 0 /\ ~ (k > 1)
      BY <1>1, <1>2
    <3> HIDE DEF k
    <3>2. k = 1
      BY <3>1
    <3> QED BY <3>2 DEF k
  <2> QED BY <1>1, <2>1
<1>3. CASE Len(l) > 1
  <2>1. At(l, 1, f, 0) /\ Len(l) > PacketLen(f, 0) + 1
    BY <1>1, <1>3, RestQueue
  <2>2. ASSUME NEW r, Rest(r, l, PacketLen(f, 0) + 1), Len(r) \in Nat PROVE ThenEot(r, f)
    <3> DEFINE n == PacketLen(f, 0) + 1
    <3>1. Queue(r, f, Len(l) - n)
      BY <1>1, <1>3, <2>2, RestQueue
    <3>2. n \in Nat /\ Len(l) - n = Len(r) /\ Len(r) > 0
      BY <2>1, <2>2 DEF Rest
    <3>3. r[Len(r)] = l[n + Len(r)] /\ n + Len(r) = Len(l)
      BY <2>2, <3>2 DEF Rest
    <3> QED BY <1>1, <3>1, <3>2, <3>3 DEF ThenEot
  <2> QED BY <2>1, <2>2
<1> QED BY <1>2, <1>3

\* The queue is not disturbed by what comes after it.
LEMMA JoinQueue ==
  ASSUME NEW f, PacketLen(f, 0) \in Nat, PacketLen(f, 0) >= 1,
         NEW l, Len(l) \in Nat, OnlyCopies(l, f),
         NEW s, Len(s) \in Nat, NEW m, Joined(m, l, s)
  PROVE  Queue(m, f, Len(l) + 1)
<1> DEFINE n == PacketLen(f, 0)  e == Len(l) + 1
<1>1. n \in Nat /\ n >= 1 /\ Copies(l, f, e)
  BY DEF OnlyCopies, Queue
<1>2. Len(m) = Len(l) + Len(s) /\ \A i \in 1 .. Len(l) : m[i] = l[i]
  BY DEF Joined
<1>3. e \in 1 .. Len(m) + 1 /\ (e > 1 => IsHead(m[1]))
  BY <1>1, <1>2 DEF Copies
<1>4. ASSUME NEW p \in 1 .. e - 1, IsHead(m[p])
      PROVE  At(m, p, f, 0) /\ p + n < e /\ (p + n + 1 < e => IsHead(m[p + n + 1]))
  <2>1. m[p] = l[p]
    BY <1>2
  <2>2. At(l, p, f, 0) /\ p + n < e /\ (p + n + 1 < e => IsHead(l[p + n + 1]))
    BY <1>1, <1>4, <2>1 DEF Copies
  <2>3. p + n + 1 < e => m[p + n + 1] = l[p + n + 1]
    BY <1>1, <1>2
  <2>4. \A i \in 1 .. n : m[p + i] = l[p + i]
    <3>1. ASSUME NEW i \in 1 .. n PROVE p + i \in 1 .. Len(l)
      BY <1>1, <2>2
    <3> QED BY <1>2, <3>1
  <2>5. p + n <= Len(m)
    BY <1>1, <1>2, <2>2
  <2>6. At(m, p, f, 0)
    BY <2>1, <2>2, <2>4, <2>5 DEF At
  <2> QED BY <2>2, <2>3, <2>6
<1> QED BY <1>3, <1>4 DEF Queue, Copies

\* A packet put behind the line stands there.
LEMMA JoinAt ==
  ASSUME NEW f, NEW b, PacketLen(f, b) \in Nat, PacketLen(f, b) >= 1,
         NEW l, Len(l) \in Nat, NEW s, NEW m, Joined(m, l, s),
         Len(s) = PacketLen(f, b) + 1, s[1] = HeadOf(PacketLen(f, b)),
         \A i \in 1 .. PacketLen(f, b) : s[1 + i] = Unit(f, b, i)
  PROVE  At(m, Len(l) + 1, f, b) /\ Len(m) = Len(l) + 1 + PacketLen(f, b)
<1> DEFINE n == PacketLen(f, b)
<1>1. n \in Nat /\ n >= 1 /\ Len(m) = Len(l) + Len(s) /\ Len(s) = n + 1
  BY DEF Joined
<1>2. m[Len(l) + 1] = s[1]
  BY <1>1 DEF Joined
<1>3. ASSUME NEW i \in 1 .. n PROVE m[Len(l) + 1 + i] = Unit(f, b, i)
  <2>1. 1 + i \in 1 .. Len(s) /\ Len(l) + (1 + i) = Len(l) + 1 + i
    BY <1>1
  <2>2. m[Len(l) + (1 + i)] = s[1 + i]
    BY <2>1 DEF Joined
  <2> QED BY <2>1, <2>2
<1>4. Len(m) = Len(l) + 1 + n /\ Len(l) + 1 + n <= Len(m)
  BY <1>1
<1> QED BY <1>2, <1>3, <1>4 DEF At

\* Another copy of packet 0 is put behind the copies.
LEMMA JoinCopies ==
  ASSUME NEW f, PacketLen(f, 0) \in Nat, PacketLen(f, 0) >= 1,
         NEW l, Len(l) \in Nat, OnlyCopies(l, f), NEW s, NEW m, Joined(m, l, s),
         Len(s) = PacketLen(f, 0) + 1, s[1] = HeadOf(PacketLen(f, 0)),
         \A i \in 1 .. PacketLen(f, 0) : s[1 + i] = Unit(f, 0, i)
  PROVE  OnlyCopies(m, f)
<1> DEFINE n == PacketLen(f, 0)  e == Len(l) + 1  d == Len(m) + 1
<1>1. n \in Nat /\ n >= 1 /\ Len(s) = n + 1 /\ Len(s) \in Nat
  OBVIOUS
<1>2. Queue(m, f, e)
  BY <1>1, JoinQueue
<1>3. At(m, e, f, 0) /\ Len(m) = Len(l) + 1 + n
  BY JoinAt
<1>4. d = e + n + 1 /\ d \in 1 .. Len(m) + 1
  BY <1>1, <1>3
<1>5. IsHead(m[e])
  BY <1>3, Heads DEF At
<1>6. IsHead(m[1])
  <2>1. CASE e = 1
    BY <1>5, <2>1
  <2>2. CASE e # 1
    BY <1>2, <2>2 DEF Queue, Copies
  <2> QED BY <2>1, <2>2
<1>7. ASSUME NEW p \in 1 .. d - 1, IsHead(m[p])
      PROVE  At(m, p, f, 0) /\ p + n < d /\ (p + n + 1 < d => IsHead(m[p + n + 1]))
  <2>1. CASE p < e
    <3>1. At(m, p, f, 0) /\ p + n < e /\ (p + n + 1 < e => IsHead(m[p + n + 1]))
      BY <1>2, <1>7, <2>1 DEF Queue, Copies
    <3>2. p + n + 1 < e \/ p + n + 1 = e
      BY <1>1, <3>1
    <3> QED BY <1>1, <1>4, <1>5, <3>1, <3>2
  <2>2. CASE p = e
    BY <1>1, <1>3, <1>4, <2>2
  <2>3. CASE p > e
    <3>1. p - e \in 1 .. n /\ e + (p - e) = p
      BY <1>1, <1>4, <2>3
    <3>2. m[e + (p - e)] \in {Unit(f, 0, p - e), Bad}
      BY <1>3, <3>1 DEF At
    <3> QED BY <1>7, <3>1, <3>2, Heads
  <2> QED BY <1>4, <2>1, <2>2, <2>3
<1> HIDE DEF d
<1>8. Queue(m, f, d)
  BY <1>4, <1>6, <1>7 DEF Queue, Copies
<1> QED BY <1>8 DEF OnlyCopies, d

\* Packet 1 is put behind the copies of packet 0.
LEMMA JoinData ==
  ASSUME NEW f, PacketLen(f, 0) \in Nat, PacketLen(f, 0) >= 1,
         PacketLen(f, 1) \in Nat, PacketLen(f, 1) >= 1,
         NEW l, Len(l) \in Nat, OnlyCopies(l, f), NEW s, NEW m, Joined(m, l, s),
         Len(s) = PacketLen(f, 1) + 1, s[1] = HeadOf(PacketLen(f, 1)),
         \A i \in 1 .. PacketLen(f, 1) : s[1 + i] = Unit(f, 1, i)
  PROVE  ThenData(m, f)
<1>1. Queue(m, f, Len(l) + 1)
  BY JoinQueue
<1>2. At(m, Len(l) + 1, f, 1) /\ Len(m) = Len(l) + 1 + PacketLen(f, 1)
  BY JoinAt
<1>3. Len(l) + 1 \in 1 .. Len(m)
  BY <1>2
<1> QED BY <1>1, <1>2, <1>3 DEF ThenData

\* The EOT is put behind the copies of packet 0.
LEMMA JoinEot ==
  ASSUME NEW f, PacketLen(f, 0) \in Nat, PacketLen(f, 0) >= 1,
         NEW l, Len(l) \in Nat, OnlyCopies(l, f), NEW m, Joined(m, l, Eot)
  PROVE  ThenEot(m, f)
<1>1. Len(Eot) = 1 /\ Eot[1] = Char("EOT") /\ Len(Eot) \in Nat
  BY DEF Eot
<1>2. Queue(m, f, Len(l) + 1)
  BY <1>1, JoinQueue
<1>3. Len(m) = Len(l) + 1 /\ m[Len(l) + 1] = Char("EOT")
  BY <1>1 DEF Joined
<1> QED BY <1>2, <1>3 DEF ThenEot

\* A packet that is garbled stays where it stood: its head has no unit in
\* it.
LEMMA GarbledAt ==
  ASSUME NEW l, NEW m, Len(l) \in Nat, Garbled(m, l), NEW p \in Nat, p >= 1,
         NEW f, NEW b, PacketLen(f, b) \in Nat, At(l, p, f, b)
  PROVE  At(m, p, f, b)
<1> DEFINE n == PacketLen(f, b)  k == Len(l)
<1>1. k \in Nat /\ n \in Nat /\ p + n <= k /\ Len(m) = k /\ \A i \in 1 .. k : m[i] = l[i] \/ (IsUnit(l[i]) /\ m[i] = Bad)
  BY DEF At, Garbled
<1> HIDE DEF n, k
<1>2. p \in 1 .. k /\ \A i \in 1 .. n : p + i \in 1 .. k
  BY <1>1
<1>3. m[p] = l[p]
  <2>1. ~IsUnit(l[p])
    BY Heads DEF At
  <2> QED BY <1>1, <1>2, <2>1
<1>4. \A i \in 1 .. n : m[p + i] \in {Unit(f, b, i), Bad}
  BY <1>1, <1>2 DEF At, n
<1> QED BY <1>1, <1>3, <1>4 DEF At, n

\* Garbling the bodies of a queue leaves a queue.
LEMMA GarbledQueue ==
  ASSUME NEW l, NEW m, Len(l) \in Nat, Garbled(m, l),
         NEW f, PacketLen(f, 0) \in Nat, PacketLen(f, 0) >= 1, NEW e, Queue(l, f, e)
  PROVE  Queue(m, f, e)
<1> DEFINE n == PacketLen(f, 0)  k == Len(l)
<1>1. k \in Nat /\ Len(m) = k /\ e \in 1 .. k + 1 /\ n \in Nat
  BY DEF Garbled, Queue
<1>2. \A i \in 1 .. k : (IsHead(m[i]) <=> IsHead(l[i]))
  BY Heads DEF Garbled
<1> HIDE DEF n, k
<1>3. e > 1 => IsHead(m[1])
  BY <1>1, <1>2 DEF Queue, Copies
<1>4. ASSUME NEW p \in 1 .. e - 1, IsHead(m[p])
      PROVE  At(m, p, f, 0) /\ p + n < e /\ (p + n + 1 < e => IsHead(m[p + n + 1]))
  <2>1. p \in 1 .. k /\ p \in Nat /\ p >= 1
    BY <1>1
  <2>2. At(l, p, f, 0) /\ p + n < e /\ (p + n + 1 < e => IsHead(l[p + n + 1]))
    BY <1>2, <1>4, <2>1 DEF Queue, Copies, n
  <2>3. At(m, p, f, 0)
    BY <2>1, <2>2, GarbledAt
  <2>4. p + n + 1 < e => p + n + 1 \in 1 .. k
    BY <1>1, <2>1
  <2> QED BY <1>2, <2>2, <2>3, <2>4
<1> QED BY <1>1, <1>3, <1>4 DEF Queue, Copies, n, k

\* Every shape of the line survives the garbling of bodies.
LEMMA GarbledLine ==
  ASSUME NEW l, NEW m, Len(l) \in Nat, Garbled(m, l),
         NEW f, PacketLen(f, 0) \in Nat, PacketLen(f, 0) >= 1
  PROVE  /\ OnlyCopies(l, f) => OnlyCopies(m, f)
         /\ PacketLen(f, 1) \in Nat /\ ThenData(l, f) => ThenData(m, f)
         /\ ThenEot(l, f) => ThenEot(m, f)
         /\ \A b : PacketLen(f, b) \in Nat /\ Whole(l, f, b) => Whole(m, f, b)
<1>1. Len(m) = Len(l)
  BY DEF Garbled
<1>2. OnlyCopies(l, f) => OnlyCopies(m, f)
  BY <1>1, GarbledQueue DEF OnlyCopies
<1>3. ASSUME PacketLen(f, 1) \in Nat, ThenData(l, f) PROVE ThenData(m, f)
  <2>1. PICK e \in 1 .. Len(l) : Queue(l, f, e) /\ At(l, e, f, 1) /\ e + PacketLen(f, 1) = Len(l)
    BY <1>3 DEF ThenData
  <2>2. Queue(m, f, e) /\ At(m, e, f, 1)
    BY <1>3, <2>1, GarbledQueue, GarbledAt
  <2> QED BY <1>1, <2>1, <2>2 DEF ThenData
<1>4. ASSUME ThenEot(l, f) PROVE ThenEot(m, f)
  <2>1. Len(l) > 0 /\ Queue(l, f, Len(l)) /\ l[Len(l)] = Char("EOT")
    BY <1>4 DEF ThenEot
  <2>2. Queue(m, f, Len(l))
    BY <2>1, GarbledQueue
  <2>3. Len(l) \in 1 .. Len(l)
    BY <2>1
  <2>4. m[Len(l)] = Char("EOT")
    BY <2>1, <2>3, Heads DEF Garbled
  <2> QED BY <1>1, <2>1, <2>2, <2>4 DEF ThenEot
<1>5. ASSUME NEW b, PacketLen(f, b) \in Nat, Whole(l, f, b) PROVE Whole(m, f, b)
  BY <1>1, <1>5, GarbledAt DEF Whole
<1> QED BY <1>2, <1>3, <1>4, <1>5

-----------------------------------------------------------------------------
(* Contents: the bodies one after the other.                               *)

\* The bodies of a file grow packet by packet to its content.
LEMMA BodiesFacts ==
  ASSUME session \in Sessions, NEW f \in 1 .. Files
  PROVE  /\ Bodies(f, 0) = <<>> /\ Content(f) = Bodies(f, BlocksOf(f))
         /\ \A b \in 0 .. BlocksOf(f) : Bodies(f, b) \in Seq(Tokens(Files))
         /\ \A b \in Nat : b < BlocksOf(f) => Bodies(f, b + 1) = Bodies(f, b) \o Body(f, b + 1)
<1>1. BlocksOf(f) \in Nat /\ DOMAIN session.files[f].blocks = 1 .. BlocksOf(f) /\ Files \in Nat
  BY SessionFacts
<1>2. \A b \in 1 .. BlocksOf(f) : Body(f, b) \in Seq(Tokens(Files))
  <2>1. \A b \in 1 .. BlocksOf(f) : Exists(f, b)
    BY <1>1 DEF Exists
  <2> QED BY <2>1, PacketFacts
<1> DEFINE bs(b) == [i \in 1 .. b |-> Body(f, i)]
<1>3. \A b \in Nat : Fun(bs(b), b) /\ \A i \in 1 .. b : bs(b)[i] = Body(f, i)
  BY DEF Fun
<1>4. \A b : Bodies(f, b) = FlattenSeq(bs(b))
  BY DEF Bodies
<1> HIDE DEF bs
<1>5. Bodies(f, 0) = <<>>
  <2>1. bs(0) = <<>> /\ Len(bs(0)) = 0
    BY <1>3, FunLen
  <2> QED BY <1>4, <2>1, FlattenIs
<1>6. Content(f) = Bodies(f, BlocksOf(f))
  BY <1>1 DEF Content, Bodies
<1>7. ASSUME NEW b \in 0 .. BlocksOf(f) PROVE Bodies(f, b) \in Seq(Tokens(Files))
  <2>1. b \in Nat /\ \A i \in 1 .. b : i \in 1 .. BlocksOf(f)
    BY <1>1
  <2> QED BY <1>2, <1>3, <1>4, <2>1, FlattenTypes
<1>8. ASSUME NEW b \in Nat, b < BlocksOf(f) PROVE Bodies(f, b + 1) = Bodies(f, b) \o Body(f, b + 1)
  <2> DEFINE c == b + 1
  <2>1. c \in Nat /\ c \in 1 .. c /\ (\A i \in 1 .. c : i \in 1 .. BlocksOf(f)) /\ (\A i \in 1 .. b : i \in 1 .. c)
    BY <1>1, <1>8
  <2>2. Fun(bs(c), b + 1) /\ Fun(bs(b), b) /\ \A i \in 1 .. b : bs(b)[i] = bs(c)[i]
    BY <1>3, <2>1
  <2>3. \A i \in 1 .. b + 1 : bs(c)[i] \in Seq(Tokens(Files))
    BY <1>2, <1>3, <2>1
  <2>4. FlattenSeq(bs(c)) = FlattenSeq(bs(b)) \o bs(c)[b + 1]
    BY <2>2, <2>3, FlattenLast
  <2> QED BY <1>3, <1>4, <2>1, <2>4
<1> QED BY <1>5, <1>6, <1>7, <1>8

\* The first bodies of a file are the beginning of its content.
LEMMA BodiesPrefix ==
  ASSUME session \in Sessions, NEW f \in 1 .. Files, NEW b \in 0 .. BlocksOf(f)
  PROVE  /\ Len(Bodies(f, b)) \in Nat /\ Len(Content(f)) \in Nat
         /\ Len(Bodies(f, b)) <= Len(Content(f))
         /\ \A i \in 1 .. Len(Bodies(f, b)) : Content(f)[i] = Bodies(f, b)[i]
<1> DEFINE P(k) == b + k <= BlocksOf(f) =>
              /\ Len(Bodies(f, b)) <= Len(Bodies(f, b + k))
              /\ \A i \in 1 .. Len(Bodies(f, b)) : Bodies(f, b + k)[i] = Bodies(f, b)[i]
           S == {k \in Nat : P(k)}
<1>1. BlocksOf(f) \in Nat /\ b \in Nat /\ b <= BlocksOf(f)
  BY SessionFacts
<1>2. \A c \in 0 .. BlocksOf(f) : Bodies(f, c) \in Seq(Tokens(Files)) /\ Len(Bodies(f, c)) \in Nat
  BY BodiesFacts, LenProperties
<1>3. 0 \in S
  <2>1. b + 0 = b /\ Len(Bodies(f, b)) \in Nat
    BY <1>1, <1>2
  <2> QED BY <2>1
<1>4. ASSUME NEW k \in S PROVE k + 1 \in S
  <2>1. k \in Nat /\ k + 1 \in Nat /\ P(k)
    OBVIOUS
  <2>2. ASSUME b + (k + 1) <= BlocksOf(f)
        PROVE  /\ Len(Bodies(f, b)) <= Len(Bodies(f, b + (k + 1)))
               /\ \A i \in 1 .. Len(Bodies(f, b)) : Bodies(f, b + (k + 1))[i] = Bodies(f, b)[i]
    <3> DEFINE c == b + k
    <3>1. c \in Nat /\ c < BlocksOf(f) /\ c + 1 = b + (k + 1) /\ c \in 0 .. BlocksOf(f) /\ c + 1 \in 1 .. BlocksOf(f)
      BY <1>1, <2>1, <2>2
    <3>2. Bodies(f, c + 1) = Bodies(f, c) \o Body(f, c + 1)
      BY <3>1, BodiesFacts
    <3>3. Bodies(f, c) \in Seq(Tokens(Files)) /\ Body(f, c + 1) \in Seq(Tokens(Files))
      <4>1. Exists(f, c + 1)
        BY <3>1, SessionFacts DEF Exists
      <4> QED BY <1>2, <3>1, <4>1, PacketFacts
    <3>4. /\ Len(Bodies(f, b)) <= Len(Bodies(f, c))
          /\ \A i \in 1 .. Len(Bodies(f, b)) : Bodies(f, c)[i] = Bodies(f, b)[i]
      BY <2>1, <3>1
    <3> HIDE DEF c
    <3>5. /\ Len(Bodies(f, c + 1)) = Len(Bodies(f, c)) + Len(Body(f, c + 1))
          /\ \A i \in 1 .. Len(Bodies(f, c)) + Len(Body(f, c + 1)) :
                Bodies(f, c + 1)[i] = IF i <= Len(Bodies(f, c)) THEN Bodies(f, c)[i]
                                      ELSE Body(f, c + 1)[i - Len(Bodies(f, c))]
      BY <3>2, <3>3, ConcatProperties
    <3>6. Len(Bodies(f, b)) \in Nat /\ Len(Bodies(f, c)) \in Nat /\ Len(Body(f, c + 1)) \in Nat
      BY <1>1, <1>2, <3>3, LenProperties
    <3>7. Len(Bodies(f, b)) <= Len(Bodies(f, c + 1))
      BY <3>4, <3>5, <3>6
    <3>8. ASSUME NEW i \in 1 .. Len(Bodies(f, b)) PROVE Bodies(f, c + 1)[i] = Bodies(f, b)[i]
      <4>1. i \in 1 .. Len(Bodies(f, c)) + Len(Body(f, c + 1)) /\ i <= Len(Bodies(f, c))
        BY <3>4, <3>6
      <4> QED BY <3>4, <3>5, <4>1
    <3> QED BY <3>1, <3>7, <3>8
  <2> QED BY <2>1, <2>2
<1>5. \A k \in Nat : k \in S
  <2>1. S \in SUBSET Nat
    OBVIOUS
  <2> HIDE DEF S
  <2> QED BY <1>3, <1>4, <2>1, SetInduction
<1>6. P(BlocksOf(f) - b) /\ b + (BlocksOf(f) - b) = BlocksOf(f)
  <2>1. BlocksOf(f) - b \in Nat /\ b + (BlocksOf(f) - b) = BlocksOf(f)
    BY <1>1
  <2> HIDE DEF P
  <2> QED BY <1>5, <2>1
<1>7. Content(f) = Bodies(f, BlocksOf(f)) /\ BlocksOf(f) \in 0 .. BlocksOf(f)
  BY <1>1, BodiesFacts
<1> QED BY <1>1, <1>2, <1>6, <1>7

\* The content of a file is as long as its blocks say.
LEMMA ContentSize ==
  ASSUME session \in Sessions, NEW f \in 1 .. Files
  PROVE  Len(Content(f)) = Size(session.files[f])
<1> DEFINE n == BlocksOf(f)
           s == [b \in 1 .. n |-> Body(f, b)]
           t == [b \in 1 .. n |-> [i \in 1 .. session.files[f].blocks[b] |-> i]]
<1>1. n \in Nat /\ DOMAIN session.files[f].blocks = 1 .. n /\ Files \in Nat
  BY SessionFacts
<1>2. Content(f) = FlattenSeq(s) /\ Size(session.files[f]) = Len(FlattenSeq(t))
  BY <1>1 DEF Content, Size
<1>3. Fun(s, n) /\ Fun(t, n)
  BY DEF Fun
<1>4. ASSUME NEW b \in 1 .. n
      PROVE  s[b] \in Seq(Tokens(Files)) /\ t[b] \in Seq(Nat) /\ Len(s[b]) = Len(t[b])
  <2>1. Exists(f, b) /\ f # 0 /\ b # 0
    BY <1>1 DEF Exists
  <2>2. Body(f, b) \in Seq(Tokens(Files)) /\ Len(Body(f, b)) = session.files[f].blocks[b]
    BY <2>1, PacketFacts DEF PacketLen
  <2> DEFINE k == session.files[f].blocks[b]
  <2>3. k \in Nat
    <3>1. k \in {1, LONG}
      BY SessionFacts
    <3> HIDE DEF k
    <3> QED BY <3>1, YmodemAssumption
  <2>4. s[b] = Body(f, b) /\ t[b] = [i \in 1 .. k |-> i]
    OBVIOUS
  <2> HIDE DEF k, s, t
  <2>5. [i \in 1 .. k |-> i] \in Seq(Nat) /\ Len([i \in 1 .. k |-> i]) = k
    BY <2>3
  <2> QED BY <2>2, <2>4, <2>5 DEF k
<1> HIDE DEF n, s, t
<1>5. Len(FlattenSeq(s)) = Len(FlattenSeq(t))
  <2>1. n \in Nat
    BY <1>1
  <2> QED BY <1>3, <1>4, <2>1, FlattenSameLen
<1> QED BY <1>2, <1>5

-----------------------------------------------------------------------------
(* What the receiver makes of a line that is in step.                      *)

\* The line with the head that was read already.
LEMMA SeenReading ==
  ASSUME NEW T, line \in Seq(T), rp \in Reading
  PROVE  /\ Len(Seen) = Len(line) + 1 /\ Len(Seen) \in Nat
         /\ Seen[1] = Char(IF long THEN "STX" ELSE "SOH")
         /\ \A i \in 1 .. Len(line) : Seen[1 + i] = line[i]
<1> DEFINE h == <<Char(IF long THEN "STX" ELSE "SOH")>>  U == T \cup {h[1]}
<1>1. Seen = h \o line
  BY DEF Seen
<1>2. Len(h) = 1 /\ h[1] = Char(IF long THEN "STX" ELSE "SOH")
  OBVIOUS
<1>3. h \in Seq(U)
  OBVIOUS
<1>4. line \in Seq(U)
  <2>1. T \subseteq U
    OBVIOUS
  <2> HIDE DEF U
  <2> QED BY <2>1, SeqMonotonic
<1> HIDE DEF h, U
<1>5. /\ h \o line \in Seq(U) /\ Len(h \o line) = Len(h) + Len(line)
      /\ \A i \in 1 .. Len(h) + Len(line) : (h \o line)[i] = IF i <= Len(h) THEN h[i] ELSE line[i - Len(h)]
  BY <1>3, <1>4, ConcatProperties
<1>6. Len(line) \in Nat
  BY LenProperties
<1>7. ASSUME NEW i \in 1 .. Len(line) PROVE (h \o line)[1 + i] = line[i]
  <2>1. 1 + i \in 1 .. Len(h) + Len(line) /\ ~ (1 + i <= Len(h)) /\ (1 + i) - Len(h) = i
    BY <1>2, <1>6
  <2> QED BY <1>5, <2>1
<1>8. (h \o line)[1] = h[1]
  BY <1>2, <1>5, <1>6
<1>9. Len(h \o line) = Len(line) + 1 /\ Len(line) + 1 \in Nat
  BY <1>2, <1>5, <1>6
<1> QED BY <1>1, <1>2, <1>7, <1>8, <1>9

\* A code that arrived is read as it was sent.
LEMMA CodeIs ==
  ASSUME NEW T, line \in Seq(T), line # <<>>, NEW c \in Chars, line[1] = Char(c)
  PROVE  Codes = {<<c, Tail(line)>>}
<1>1. Head(line) = Char(c)
  OBVIOUS
<1>2. Char(c) # Noise /\ Char(c) # Junk /\ Char(c) # Bad /\ ~IsUnit(Char(c)) /\ Char(c)[1] = c
  BY DEF Chars, Char, Noise, Junk, Bad, IsUnit
<1> QED BY <1>1, <1>2 DEF Codes

\* Reading the head of a packet does not change what stands on the line.
LEMMA TakeHead ==
  ASSUME NEW T, line \in Seq(T), line # <<>>, NEW c \in {"SOH", "STX"}, line[1] = Char(c),
         line' = Tail(line), long' = (c = "STX"), rp' \in Reading
  PROVE  Seen' = line
<1>1. Seen' = <<Char(c)>> \o Tail(line)
  <2>1. (IF long' THEN "STX" ELSE "SOH") = c
    OBVIOUS
  <2> QED BY <2>1 DEF Seen
<1>2. Head(line) = Char(c)
  OBVIOUS
<1>3. <<Head(line)>> \o Tail(line) = line
  BY HeadTailProperties
<1> QED BY <1>1, <1>2, <1>3

\* The body read after the head of a packet is that packet's body, perhaps
\* garbled.
LEMMA BodyRead ==
  ASSUME session \in Sessions, line \in Seq(Tokens(Files)), long \in BOOLEAN, rp \in Reading,
         NEW f, NEW b, Exists(f, b), At(Seen, 1, f, b)
  PROVE  LET rest == SubSeq(line, Need + 1, Len(line)) IN
         /\ Need = (IF rp = "nextbody" THEN 1 ELSE PacketLen(f, b)) /\ Need <= Len(line) /\ Need \in Nat
         /\ Len(Read) = Need
         /\ \A i \in 1 .. Need : Read[i] \in {Unit(f, b, i), Bad}
         /\ Left = {rest}
         /\ Good(Read) => /\ Read = Body(f, b) /\ Need = PacketLen(f, b)
                          /\ Read[1] = Unit(f, b, 1)
                          /\ Seqs(Read) = {b % SEQ_MOD}
                          /\ Owner(Read) = IF b = 0 THEN f ELSE 0
         /\ Clean(line) /\ Need = PacketLen(f, b) => Good(Read)
         /\ Need = PacketLen(f, b) => Rest(rest, Seen, PacketLen(f, b) + 1)
         /\ rest \in Seq(Tokens(Files)) /\ Len(rest) \in Nat
<1> DEFINE n == PacketLen(f, b)  rest == SubSeq(line, Need + 1, Len(line))
<1>1. n \in {1, LONG} /\ n \in Nat /\ n >= 1 /\ Len(Body(f, b)) = n /\ LONG \in Nat /\ LONG # 1
  BY PacketFacts, YmodemAssumption
<1>2. /\ Len(Seen) = Len(line) + 1 /\ Len(Seen) \in Nat /\ Len(line) \in Nat
      /\ Seen[1] = Char(IF long THEN "STX" ELSE "SOH")
      /\ \A i \in 1 .. Len(line) : Seen[1 + i] = line[i]
  BY SeenReading, LenProperties
<1>3. /\ 1 + n <= Len(Seen) /\ Seen[1] = HeadOf(n)
      /\ \A i \in 1 .. n : Seen[1 + i] \in {Unit(f, b, i), Bad}
  BY DEF At
<1>4. long <=> n = LONG
  BY <1>1, <1>2, <1>3 DEF HeadOf, Char
<1>5. n <= Len(line) /\ \A i \in 1 .. n : line[i] \in {Unit(f, b, i), Bad}
  BY <1>1, <1>2, <1>3
<1>6. line # <<>> /\ Head(line) # Junk
  <2>1. 1 \in 1 .. n /\ Len(line) >= 1
    BY <1>1, <1>2, <1>5
  <2>2. line[1] # Junk
    BY <1>5, <2>1 DEF Unit, Bad, Junk
  <2>3. line # <<>>
    BY <2>1
  <2>4. Head(line) = line[1]
    BY <2>3
  <2> QED BY <2>2, <2>3, <2>4
<1>7. Need = (IF rp = "nextbody" THEN 1 ELSE n)
  BY <1>1, <1>4, <1>6 DEF Need
<1>8. Need \in Nat /\ Need >= 1 /\ Need <= n /\ Need <= Len(line)
  BY <1>1, <1>2, <1>5, <1>7
<1> HIDE DEF n
<1>9. /\ Len(Read) = Need /\ \A i \in 1 .. Need : Read[i] = line[i]
      /\ rest \in Seq(Tokens(Files)) /\ Len(rest) = Len(line) - Need
      /\ \A i \in 1 .. Len(line) - Need : rest[i] = line[Need + i]
      /\ Read \in Seq(Tokens(Files))
  BY <1>8, ReadFacts
<1>10. \A i \in 1 .. Need : Read[i] \in {Unit(f, b, i), Bad}
  BY <1>1, <1>5, <1>8, <1>9
<1>11. Left = {rest}
  <2>1. \A i \in 1 .. Need : IsUnit(Read[i]) \/ Read[i] = Bad
    BY <1>10, Heads
  <2> HIDE DEF rest
  <2> QED BY <2>1 DEF Left, rest
<1>12. ASSUME Good(Read)
       PROVE  /\ Read = Body(f, b) /\ Need = n /\ Read[1] = Unit(f, b, 1)
              /\ Seqs(Read) = {b % SEQ_MOD} /\ Owner(Read) = IF b = 0 THEN f ELSE 0
  <2>1. 1 \in 1 .. Need /\ IsUnit(Read[1])
    BY <1>8, <1>12 DEF Good
  <2>2. Read[1] = Unit(f, b, 1)
    BY <1>10, <2>1 DEF IsUnit, Bad
  <2>3. Read[1][2] = f /\ Read[1][3] = b /\ Read[1][4] = 1
    BY <2>2 DEF Unit
  <2>4. Read = Body(f, b)
    BY <1>12, <2>3 DEF Good
  <2> QED BY <1>1, <1>9, <2>1, <2>2, <2>3, <2>4 DEF Seqs, Owner
<1>13. ASSUME Clean(line), Need = n PROVE Good(Read)
  <2>1. \A i \in 1 .. n : Read[i] = Unit(f, b, i)
    <3>1. \A i \in 1 .. n : i \in DOMAIN line
      <4>1. DOMAIN line = 1 .. Len(line)
        BY LenProperties
      <4> QED BY <1>1, <1>2, <1>5, <4>1
    <3>2. \A i \in 1 .. n : Read[i] # Bad
      BY <1>9, <1>13, <3>1 DEF Clean
    <3> QED BY <1>10, <1>13, <3>2
  <2>2. Read[1][2] = f /\ Read[1][3] = b /\ IsUnit(Read[1])
    <3>1. Read[1] = Unit(f, b, 1)
      BY <1>1, <2>1
    <3> QED BY <3>1 DEF Unit, IsUnit
  <2>3. Read = Body(f, b)
    <3>1. Body(f, b) \in Seq(Tokens(Files))
      BY PacketFacts
    <3>2. \A i \in 1 .. n : Body(f, b)[i] = Unit(f, b, i)
      BY DEF Body, n
    <3> QED BY <1>1, <1>9, <1>13, <2>1, <3>1, <3>2, SeqEqual
  <2> QED BY <2>2, <2>3 DEF Good
<1>14. ASSUME Need = n PROVE Rest(rest, Seen, n + 1)
  <2> DEFINE k == Len(line)
  <2>1. k \in Nat /\ Len(Seen) = k + 1 /\ Len(rest) = k - n /\ n \in Nat /\ n <= k
    BY <1>1, <1>2, <1>5, <1>9, <1>14
  <2>2. ASSUME NEW i \in 1 .. k - n PROVE rest[i] = Seen[n + 1 + i]
    <3>1. rest[i] = line[n + i]
      BY <1>9, <1>14
    <3>2. n + i \in 1 .. k /\ 1 + (n + i) = n + 1 + i
      BY <2>1
    <3> QED BY <1>2, <3>1, <3>2
  <2> HIDE DEF k, rest
  <2> QED BY <2>1, <2>2 DEF Rest
<1>15. Len(rest) \in Nat
  BY <1>8, <1>9, <1>2
<1> QED BY <1>7, <1>8, <1>9, <1>10, <1>11, <1>12, <1>13, <1>14, <1>15 DEF n

-----------------------------------------------------------------------------
(* The partition.                                                          *)

\* What is said of lines and files only changes with the session.
LEMMA Frame ==
  ASSUME session' = session
  PROVE  /\ Files' = Files
         /\ \A f : BlocksOf(f)' = BlocksOf(f) /\ Content(f)' = Content(f)
         /\ \A f, b : PacketLen(f, b)' = PacketLen(f, b) /\ Bodies(f, b)' = Bodies(f, b)
         /\ \A l, f, b : Whole(l, f, b)' <=> Whole(l, f, b)
         /\ \A l, f : /\ OnlyCopies(l, f)' <=> OnlyCopies(l, f)
                      /\ ThenData(l, f)' <=> ThenData(l, f)
                      /\ ThenEot(l, f)' <=> ThenEot(l, f)
<1>1. \A f, b : PacketLen(f, b)' = PacketLen(f, b)
  BY DEF PacketLen
<1>2. \A l, p, f, b : At(l, p, f, b)' <=> At(l, p, f, b)
  BY <1>1 DEF At
<1>3. \A l, f, e : Queue(l, f, e)' <=> Queue(l, f, e)
  BY <1>1, <1>2 DEF Queue, Copies
<1>4. \A f, b : Body(f, b)' = Body(f, b)
  BY <1>1 DEF Body
<1>5. \A f, b : Bodies(f, b)' = Bodies(f, b)
  BY <1>4 DEF Bodies
<1>6. \A f : Content(f)' = Content(f)
  BY <1>4 DEF Content
<1>7. \A l, f, b : Whole(l, f, b)' <=> Whole(l, f, b)
  BY <1>1, <1>2 DEF Whole
<1>8. \A l, f : ThenData(l, f)' <=> ThenData(l, f)
  BY <1>1, <1>2, <1>3 DEF ThenData
<1>9. \A l, f : /\ OnlyCopies(l, f)' <=> OnlyCopies(l, f)
                /\ ThenEot(l, f)' <=> ThenEot(l, f)
  BY <1>3 DEF OnlyCopies, ThenEot
<1> QED BY <1>1, <1>5, <1>6, <1>7, <1>8, <1>9 DEF Files, BlocksOf

\* Whole sectors are as much as was announced, or more.
LEMMA SectorsEnough ==
  ASSUME NEW n \in Nat
  PROVE  SectorsOf(n) \in Nat /\ SectorsOf(n) >= n
<1>1. SectorLen \in Nat /\ SectorLen > 0
  BY YmodemAssumption
<1> DEFINE m == (n + SectorLen - 1) \div SectorLen
<1>2. m \in Nat /\ n + SectorLen - 1 >= m * SectorLen /\ n + SectorLen - 1 < m * SectorLen + SectorLen
  BY <1>1
<1>3. SectorsOf(n) = m * SectorLen
  BY Zenon DEF SectorsOf
<1> HIDE DEF m
<1>4. m * SectorLen \in Nat /\ m * SectorLen >= n
  BY <1>1, <1>2
<1> QED BY <1>3, <1>4

\* The erase of on_begin makes room for the announced size, and nothing is
\* stored yet.
LEMMA BeginStored ==
  ASSUME Types, NEW f \in 1 .. Files, session' = session, cur' = 0,
         dl' = ErasedUpTo(SectorsOf(session.files[f].announced))
  PROVE  Stored(f, 0)'
<1>1. session \in Sessions
  BY DEF Types, TypeOK
<1>2. session.files[f].announced \in Nat /\ Bodies(f, 0) = <<>>
  BY <1>1, SessionFacts, BodiesFacts
<1>3. DOMAIN dl' = DOMAIN dl /\ DOMAIN dl = 0 .. PartLen - 1 /\ PartLen \in Nat
  BY YmodemAssumption DEF ErasedUpTo, Types, TypeOK
<1>4. \A a \in DOMAIN dl : a < session.files[f].announced => dl'[a] = Char("erased")
  <2> DEFINE n == SectorsOf(session.files[f].announced)
  <2>1. n \in Nat /\ n >= session.files[f].announced
    BY <1>2, SectorsEnough
  <2> HIDE DEF n
  <2>2. dl' = [a \in DOMAIN dl |-> IF a < n THEN Char("erased") ELSE dl[a]]
    BY DEF ErasedUpTo, n
  <2>3. \A a \in DOMAIN dl : a < session.files[f].announced => a < n
    BY <1>2, <1>3, <2>1
  <2> QED BY <2>2, <2>3
<1>5. Len(Bodies(f, 0)) = 0
  BY <1>2
<1>6. Bodies(f, 0)' = Bodies(f, 0)
  BY Frame
<1> QED BY <1>3, <1>4, <1>5, <1>6 DEF Stored

\* on_data appends the body of the next packet to the partition.
LEMMA DataStored ==
  ASSUME Types, Dependable, NEW f \in 1 .. Files, NEW b \in Nat, b < BlocksOf(f), Stored(f, b),
         session' = session, Read = Body(f, b + 1), cur + Len(Read) <= PartLen,
         dl' = Written(Read), cur' = cur + Len(Read)
  PROVE  Stored(f, b + 1)'
<1>1. session \in Sessions /\ DOMAIN dl = 0 .. PartLen - 1 /\ PartLen \in Nat
  BY YmodemAssumption DEF Types, TypeOK
<1>2. BlocksOf(f) \in Nat /\ b \in 0 .. BlocksOf(f) /\ b + 1 \in 0 .. BlocksOf(f) /\ Exists(f, b + 1)
      /\ session.files[f].announced \in Nat /\ DOMAIN session.files = 1 .. Files
  BY <1>1, SessionFacts DEF Exists
<1> DEFINE B == Bodies(f, b)  D == Body(f, b + 1)  C == Content(f)  ann == session.files[f].announced
<1>3. /\ B \in Seq(Tokens(Files)) /\ D \in Seq(Tokens(Files)) /\ Bodies(f, b + 1) = B \o D
      /\ Len(B) \in Nat /\ Len(D) \in Nat
  BY <1>1, <1>2, BodiesFacts, PacketFacts, LenProperties
<1>4. /\ Len(C) \in Nat /\ Len(Bodies(f, b + 1)) <= Len(C)
      /\ \A i \in 1 .. Len(Bodies(f, b + 1)) : C[i] = Bodies(f, b + 1)[i]
  BY <1>1, <1>2, BodiesPrefix
<1>5. Len(C) <= ann
  <2>1. session.files[f].announced >= Size(session.files[f])
    BY <1>1, <1>2 DEF Dependable
  <2>2. Len(C) = Size(session.files[f])
    BY <1>1, ContentSize
  <2> QED BY <1>2, <1>4, <2>1, <2>2
<1>6. /\ cur = Len(B) /\ \A a \in 0 .. cur - 1 : dl[a] = C[a + 1]
      /\ \A a \in DOMAIN dl : a >= cur /\ a < ann => dl[a] = Char("erased")
  BY DEF Stored
<1> HIDE DEF B, D, C, ann
<1>7. /\ Len(B \o D) = Len(B) + Len(D)
      /\ \A i \in 1 .. Len(B) + Len(D) : (B \o D)[i] = IF i <= Len(B) THEN B[i] ELSE D[i - Len(B)]
  BY <1>3, ConcatProperties
<1>8. Read = D /\ cur' = Len(B) + Len(D) /\ cur' = Len(Bodies(f, b + 1)) /\ Len(B) + Len(D) <= PartLen
      /\ Len(B) + Len(D) <= ann /\ ann \in Nat
  BY <1>2, <1>3, <1>4, <1>5, <1>6, <1>7 DEF D, ann
<1>9. /\ DOMAIN dl' = DOMAIN dl
      /\ \A a \in DOMAIN dl : dl'[a] = IF a \notin cur .. cur + Len(D) - 1 THEN dl[a]
                                ELSE IF dl[a] = Char("erased") THEN D[a - cur + 1] ELSE Char("torn")
  BY <1>8 DEF Written
<1>10. ASSUME NEW a \in 0 .. cur' - 1 PROVE dl'[a] = C[a + 1]
  <2>1. a \in DOMAIN dl /\ a \in Nat
    BY <1>1, <1>3, <1>8
  <2>2. CASE a < Len(B)
    BY <1>3, <1>6, <1>9, <2>1, <2>2
  <2>3. CASE a >= Len(B)
    <3>1. a \in cur .. cur + Len(D) - 1 /\ dl[a] = Char("erased")
      BY <1>3, <1>6, <1>8, <2>1, <2>3
    <3>2. dl'[a] = D[a - cur + 1]
      BY <1>9, <2>1, <3>1
    <3>3. a + 1 \in 1 .. Len(B) + Len(D) /\ ~ (a + 1 <= Len(B)) /\ (a + 1) - Len(B) = a - cur + 1
      BY <1>3, <1>6, <1>8, <2>1, <2>3
    <3>4. (B \o D)[a + 1] = D[(a + 1) - Len(B)]
      BY <1>7, <3>3
    <3>5. C[a + 1] = (B \o D)[a + 1]
      BY <1>3, <1>4, <1>7, <3>3
    <3> QED BY <3>2, <3>3, <3>4, <3>5
  <2> QED BY <1>3, <2>1, <2>2, <2>3
<1>11. \A a \in DOMAIN dl' : a >= cur' /\ a < ann => dl'[a] = Char("erased")
  <2>1. ASSUME NEW a \in DOMAIN dl, a >= cur', a < ann PROVE dl'[a] = Char("erased")
    <3>1. a \in Nat /\ a >= cur /\ a \notin cur .. cur + Len(D) - 1
      BY <1>1, <1>3, <1>6, <1>8, <2>1
    <3> QED BY <1>6, <1>9, <2>1, <3>1
  <2> QED BY <1>9, <2>1
<1>12. Bodies(f, b + 1)' = Bodies(f, b + 1) /\ Content(f)' = C
  BY Frame DEF C
<1> QED BY <1>8, <1>10, <1>11, <1>12 DEF Stored, ann

\* What is stored depends on the partition and the write position alone.
LEMMA StoredSame ==
  ASSUME UNCHANGED <<cur, dl, session>>
  PROVE  \A f, b : Stored(f, b) <=> Stored(f, b)'
<1>1. \A f, b : Bodies(f, b)' = Bodies(f, b) /\ Content(f)' = Content(f)
  BY Frame
<1> QED BY <1>1 DEF Stored

\* What is stored is a beginning of the file.
LEMMA StoredPrefix ==
  ASSUME Types, NEW f \in 1 .. Files, NEW b \in 0 .. BlocksOf(f), Stored(f, b)
  PROVE  \A a \in 0 .. cur - 1 : a < Len(Content(f)) /\ dl[a] = Content(f)[a + 1]
<1>1. session \in Sessions
  BY DEF Types, TypeOK
<1>2. Len(Bodies(f, b)) \in Nat /\ Len(Content(f)) \in Nat /\ Len(Bodies(f, b)) <= Len(Content(f))
  BY <1>1, BodiesPrefix
<1> QED BY <1>2 DEF Stored

-----------------------------------------------------------------------------
(* Facts about a session that is in step.                                  *)

\* Which stage it is, from where the receiver is.
LEMMA Where ==
  ASSUME Sync
  PROVE  /\ rp \in {"hello", "hs", "hsbody"} => Handshake
         /\ rp = "begin" => Beginning
         /\ rp \in {"code", "body"} => Established \/ Transmitting
         /\ rp \in {"eot", "next", "nextbody"} => Finishing
         /\ rp = "done" => Done
         /\ rp = "failed" => Failed
BY DEF Sync, Handshake, Beginning, Established, Transmitting, Finishing, FirstEot, EotAgain, EotTaken,
       Asked, LastSent, NextSent, Done, Failed

\* The facts of Types as the proofs below use them.
LEMMA TypeFacts ==
  ASSUME Types
  PROVE  /\ session \in Sessions /\ Files \in Nat /\ Files >= 1
         /\ line \in Seq(Tokens(Files)) /\ back \in Seq(Answers)
         /\ Len(line) \in Nat /\ DOMAIN line = 1 .. Len(line)
         /\ Len(back) \in Nat /\ DOMAIN back = 1 .. Len(back)
         /\ fblk \in Nat \X Nat /\ fblk[1] \in 1 .. Files /\ fblk[2] \in 0 .. BlocksOf(fblk[1])
         /\ cfile \in 0 .. Files /\ long \in BOOLEAN
         /\ \A f \in 1 .. Files : BlocksOf(f) \in Nat
<1>1. session \in Sessions /\ line \in Seq(Tokens(Files)) /\ back \in Seq(Answers)
  BY DEF Types, TypeOK
<1> QED BY <1>1, SessionFacts, LenProperties DEF Types, TypeOK, Files, BlocksOf

\* In every stage the partition holds a beginning of the file.
LEMMA PrefixHolds ==
  ASSUME Types, Sync
  PROVE  ReceivedPrefix
<1>1. ASSUME NEW b, Stored(cfile, b), cfile \in 1 .. Files, b \in 0 .. BlocksOf(cfile) PROVE ReceivedPrefix
  BY <1>1, StoredPrefix DEF ReceivedPrefix
<1>2. CASE Handshake
  BY <1>2 DEF Handshake, ReceivedPrefix
<1>3. CASE Beginning
  BY <1>3 DEF Beginning, ReceivedPrefix
<1>4. CASE Established
  <2>1. cfile \in 1 .. Files /\ 0 \in 0 .. BlocksOf(cfile) /\ Stored(cfile, 0)
    BY <1>4, TypeFacts DEF Established
  <2> QED BY <1>1, <2>1
<1>5. CASE Transmitting
  <2>1. cfile \in 1 .. Files /\ fblk[2] \in 0 .. BlocksOf(cfile)
    BY <1>5, TypeFacts DEF Transmitting
  <2>2. fblk[2] > 0 => fblk[2] - 1 \in 0 .. BlocksOf(cfile)
    BY <2>1, TypeFacts
  <2> QED BY <1>1, <1>5, <2>1, <2>2 DEF Transmitting, PacketSent, PacketTaken, FileSent
<1>6. CASE Finishing
  <2>1. cfile \in 1 .. Files /\ BlocksOf(cfile) \in 0 .. BlocksOf(cfile)
    BY <1>6, TypeFacts DEF Finishing
  <2> QED BY <1>1, <1>6, <2>1 DEF Finishing
<1>7. CASE Done
  <2>1. cfile \in 1 .. Files /\ BlocksOf(cfile) \in 0 .. BlocksOf(cfile)
    BY <1>7, TypeFacts DEF Done
  <2> QED BY <1>1, <1>7, <2>1 DEF Done
<1>8. CASE Failed
  BY <1>8 DEF Failed
<1> QED BY <1>2, <1>3, <1>4, <1>5, <1>6, <1>7, <1>8 DEF Sync

\* Until the receiver is done no acknowledgement of the end is on the way.
LEMMA SyncUnanswered ==
  ASSUME Types, Sync, rp # "done"
  PROVE  Unanswered
<1>1. Len(back) \in Nat /\ DOMAIN back = 1 .. Len(back)
  BY TypeFacts
<1>2. OnlyC(back) => \A i \in DOMAIN back : back[i] # "ACK"
  BY DEF OnlyC
<1>3. Answered(back) => \A i, j \in DOMAIN back : back[i] = "ACK" /\ back[j] = "ACK" => i = j
  BY <1>1 DEF Answered
<1>4. back = <<>> => \A i \in DOMAIN back : back[i] # "ACK"
  BY <1>1
<1>5. \A c : c # "ACK" /\ Atmost(back, <<c>>) => \A i \in DOMAIN back : back[i] # "ACK"
  BY DEF Atmost
<1>6. Atmost(back, <<"ACK">>) => \A i, j \in DOMAIN back : back[i] = "ACK" /\ back[j] = "ACK" => i = j
  BY DEF Atmost
<1>7. Atmost(back, <<"ACK", "C">>) => \A i, j \in DOMAIN back : back[i] = "ACK" /\ back[j] = "ACK" => i = j
  BY DEF Atmost
<1>8. CASE Handshake \/ Beginning
  BY <1>2, <1>8 DEF Handshake, Beginning, Unanswered
<1>9. CASE Established
  BY <1>3, <1>4, <1>5, <1>9 DEF Established, Offered, Taken, FirstSent, NothingSent, Unanswered
<1>10. CASE Transmitting
  BY <1>4, <1>6, <1>10 DEF Transmitting, PacketSent, PacketTaken, FileSent, Unanswered
<1>11. CASE Finishing
  BY <1>4, <1>5, <1>7, <1>11
  DEF Finishing, FirstEot, EotAgain, EotTaken, Asked, LastSent, NextSent, Unanswered
<1>12. CASE Failed
  BY <1>12 DEF Failed
<1> QED BY <1>8, <1>9, <1>10, <1>11, <1>12 DEF Sync, Done

\* A step that ends the session without a word.
LEMMA FailsStep ==
  ASSUME Types, Sync, rp # "done", rp # "begin", rp' = "failed", UNCHANGED <<cur, dl, cfile, send, back>>, Excused'
  PROVE  Sync'
<1>1. Unanswered /\ ReceivedPrefix
  BY SyncUnanswered, PrefixHolds
<1>2. Unanswered'
  BY <1>1 DEF Unanswered, send
<1>3. Content(cfile)' = Content(cfile)
  BY Frame DEF send
<1>4. ReceivedPrefix'
  BY <1>1, <1>3 DEF ReceivedPrefix
<1> QED BY <1>2, <1>4 DEF Sync, Failed, Ended

\* In every stage, what the receiver is about to read is a whole packet.
LEMMA ReadingWhole ==
  ASSUME Types, Sync, rp \in Reading
  PROVE  \E f, b : /\ Exists(f, b) /\ At(Seen, 1, f, b)
                   /\ rp = "hsbody" => f = 1 /\ b = 0
                   /\ rp = "nextbody" => b = 0 /\ (f = 0 \/ f > 1)
                   /\ rp = "body" => f = cfile /\ f # 0
<1>1. /\ Len(Seen) \in Nat /\ Len(Seen) > 0 /\ Len(Seen) = Len(line) + 1
  BY TypeFacts, SeenReading
<1>2. \A f, b : Exists(f, b) => PacketLen(f, b) \in Nat /\ PacketLen(f, b) >= 1
  BY TypeFacts, PacketFacts
<1>3. Seen # <<>> /\ Seen # Eot /\ Seen[1] # Char("EOT")
  <2>1. Seen[1] \in {Char("STX"), Char("SOH")}
    BY TypeFacts, SeenReading
  <2>2. Eot[1] = Char("EOT")
    BY DEF Eot
  <2> QED BY <1>1, <2>1, <2>2 DEF Char
<1>4. CASE rp = "hsbody"
  <2>1. OnlyCopies(Seen, 1) /\ Exists(1, 0)
    BY <1>4, Where, TypeFacts DEF Handshake, Exists
  <2>2. At(Seen, 1, 1, 0)
    BY <1>1, <1>2, <2>1, RestCopies
  <2> QED BY <1>4, <2>1, <2>2
<1>5. CASE rp = "nextbody"
  <2>1. (cfile \in 1 .. Files /\ NextSent /\ fblk[1] = cfile + 1) \/ LastSent
    <3>1. Finishing /\ cfile \in 1 .. Files
      BY <1>5, Where, TypeFacts DEF Finishing
    <3> QED BY <1>5, <3>1 DEF Finishing, FirstEot, EotAgain, EotTaken, Asked, NextSent
  <2>2. Exists(0, 0)
    BY TypeFacts DEF Exists
  <2>3. NextSent => Exists(fblk[1], 0)
    BY TypeFacts DEF Exists
  <2> QED BY <1>5, <2>1, <2>2, <2>3 DEF NextSent, LastSent, Whole
<1>6. CASE rp = "body"
  <2>1. cfile = fblk[1] /\ cfile \in 1 .. Files /\ cfile # 0
    BY <1>6, Where, TypeFacts DEF Established, Transmitting
  <2>2. Exists(cfile, 0) /\ \A b \in 0 .. BlocksOf(cfile) : Exists(cfile, b)
    BY <2>1, TypeFacts DEF Exists
  <2>3. CASE Established
    <3>1. OnlyCopies(Seen, cfile) => At(Seen, 1, cfile, 0)
      BY <1>1, <1>2, <2>2, RestCopies
    <3>2. ASSUME FirstSent PROVE Exists(cfile, 1) /\ (At(Seen, 1, cfile, 0) \/ At(Seen, 1, cfile, 1))
      <4>1. Exists(cfile, 1) /\ ThenData(Seen, cfile)
        BY <1>3, <2>1, <2>2, <3>2, TypeFacts DEF FirstSent
      <4>2. Whole(Seen, cfile, 1) \/ At(Seen, 1, cfile, 0)
        BY <1>1, <1>2, <2>2, <4>1, RestThenData
      <4> QED BY <4>1, <4>2 DEF Whole
    <3>3. NothingSent => At(Seen, 1, cfile, 0)
      BY <1>1, <1>2, <1>3, <2>2, RestThenEot DEF NothingSent
    <3> QED BY <1>6, <2>1, <2>2, <2>3, <3>1, <3>2, <3>3 DEF Established, Offered, Taken
  <2>4. CASE Transmitting
    <3>1. PacketSent
      BY <1>3, <2>4 DEF Transmitting, PacketTaken, FileSent
    <3> QED BY <1>6, <2>1, <2>2, <3>1, TypeFacts DEF PacketSent, Whole
  <2> QED BY <1>6, <2>3, <2>4, Where
<1> QED BY <1>4, <1>5, <1>6 DEF Reading


-----------------------------------------------------------------------------
(* Sync is inductive: the steps of the receiver.                           *)

\* Trouble is never forgotten, and Plain is about the constants.
LEMMA ExcusedStays ==
  /\ (trouble => trouble') /\ Excused => Excused'
  /\ trouble' => Excused'
  /\ trouble' = trouble => (Excused' <=> Excused)
BY DEF Excused, Plain

\* What is taken from a clean line is clean, and so is what is sent.
LEMMA CleanFacts ==
  ASSUME NEW T, NEW l \in Seq(T), Clean(l)
  PROVE  /\ l # <<>> => Clean(Tail(l))
         /\ \A n \in Nat : \A r : Rest(r, l, n) /\ DOMAIN r = 1 .. Len(r) /\ Len(r) \in Nat => Clean(r)
         /\ \A s \in Seq(T) : Clean(s) => Clean(l \o s)
<1>1. Len(l) \in Nat /\ DOMAIN l = 1 .. Len(l)
  BY LenProperties
<1>2. ASSUME l # <<>> PROVE Clean(Tail(l))
  <2>1. Len(Tail(l)) = Len(l) - 1 /\ (\A i \in 1 .. Len(l) - 1 : Tail(l)[i] = l[i + 1])
        /\ DOMAIN Tail(l) = 1 .. Len(Tail(l))
    BY <1>2, HeadTailProperties, LenProperties
  <2>2. \A i \in 1 .. Len(l) - 1 : i + 1 \in 1 .. Len(l)
    BY <1>1
  <2> QED BY <1>1, <2>1, <2>2 DEF Clean
<1>3. ASSUME NEW n \in Nat, NEW r, Rest(r, l, n), DOMAIN r = 1 .. Len(r), Len(r) \in Nat PROVE Clean(r)
  <2>1. \A i \in 1 .. Len(r) : n + i \in 1 .. Len(l) /\ r[i] = l[n + i]
    BY <1>1, <1>3 DEF Rest
  <2> QED BY <1>1, <1>3, <2>1 DEF Clean
<1>4. ASSUME NEW s \in Seq(T), Clean(s) PROVE Clean(l \o s)
  <2>1. Len(s) \in Nat /\ DOMAIN s = 1 .. Len(s)
    BY LenProperties
  <2>2. /\ Len(l \o s) = Len(l) + Len(s) /\ l \o s \in Seq(T)
        /\ \A i \in 1 .. Len(l) + Len(s) : (l \o s)[i] = IF i <= Len(l) THEN l[i] ELSE s[i - Len(l)]
    BY ConcatProperties
  <2>3. DOMAIN (l \o s) = 1 .. Len(l) + Len(s)
    BY <2>2, LenProperties
  <2>4. ASSUME NEW i \in 1 .. Len(l) + Len(s) PROVE (l \o s)[i] # Bad
    <3>1. CASE i <= Len(l)
      <4>1. i \in 1 .. Len(l)
        BY <1>1, <2>1, <3>1
      <4> QED BY <1>1, <2>2, <3>1, <4>1 DEF Clean
    <3>2. CASE ~ (i <= Len(l))
      <4>1. i - Len(l) \in 1 .. Len(s)
        BY <1>1, <2>1, <3>2
      <4> QED BY <1>4, <2>1, <2>2, <3>2, <4>1 DEF Clean
    <3> QED BY <3>1, <3>2
  <2> QED BY <2>3, <2>4 DEF Clean
<1> QED BY <1>2, <1>3, <1>4

\* An empty line holds no packet, and is otherwise as it should be.
LEMMA EmptyLine ==
  /\ Len(<<>>) = 0
  /\ \A f : OnlyCopies(<<>>, f) /\ ~ThenData(<<>>, f) /\ ~ThenEot(<<>>, f)
  /\ Clean(<<>>)
<1>1. \A f : OnlyCopies(<<>>, f)
  BY DEF OnlyCopies, Queue, Copies
<1>2. \A f : ~ThenData(<<>>, f) /\ ~ThenEot(<<>>, f)
  BY DEF ThenData, ThenEot
<1> QED BY <1>1, <1>2 DEF Clean

\* At the start both ends are at the handshake.
LEMMA SyncInit == Init => Sync
<1> SUFFICES ASSUME Init PROVE Sync
  OBVIOUS
<1>1. Seen = <<>> /\ line = <<>> /\ back = <<>>
  BY DEF Init, Seen, Reading
<1>2. OnlyCopies(Seen, 1) /\ OnlyC(back) /\ Clean(line)
  BY <1>1, EmptyLine DEF OnlyC
<1>3. Handshake
  BY <1>1, <1>2 DEF Init, Handshake
<1> QED BY <1>2, <1>3 DEF Sync, Init

\* A stuttering step changes nothing of it.
LEMMA SyncSame == Sync /\ UNCHANGED vars => Sync'
<1> SUFFICES ASSUME Sync, UNCHANGED vars PROVE Sync'
  OBVIOUS
<1>1. UNCHANGED <<rp, stage, tries, long, cur, dl, cfile, line, back, session, sp, fblk, retries, faults, trouble>>
  BY DEF vars, recv, send
<1>2. Seen' = Seen /\ (Excused' <=> Excused) /\ (ReceivedPrefix' <=> ReceivedPrefix)
  <2>1. Content(cfile)' = Content(cfile)
    BY <1>1, Frame
  <2> QED BY <1>1, <2>1, ExcusedStays DEF Seen, ReceivedPrefix
<1>3. \A f, b : Stored(f, b)' <=> Stored(f, b)
  BY <1>1, StoredSame
<1>4. /\ (OnlyC(back)' <=> OnlyC(back)) /\ (Answered(back)' <=> Answered(back))
      /\ \A s : Atmost(back, s)' <=> Atmost(back, s)
  BY <1>1, <1>2 DEF OnlyC, Answered, Atmost
<1> USE Frame
<1>5. Handshake => Handshake'
  BY <1>1, <1>2, <1>4 DEF Handshake
<1>6. Beginning => Beginning'
  BY <1>1, <1>4 DEF Beginning
<1>7. Established => Established'
  BY <1>1, <1>2, <1>3, <1>4 DEF Established, Offered, Taken, FirstSent, NothingSent
<1>8. Transmitting => Transmitting'
  BY <1>1, <1>2, <1>3, <1>4 DEF Transmitting, PacketSent, PacketTaken, FileSent
<1>9. Finishing => Finishing'
  BY <1>1, <1>2, <1>3, <1>4 DEF Finishing, FirstEot, EotAgain, EotTaken, Asked, LastSent, NextSent
<1>10. Done => Done'
  BY <1>1, <1>3 DEF Done
<1>11. Failed => Failed'
  BY <1>1, <1>2 DEF Failed, Unanswered
<1>12. Clean(line)' <=> Clean(line)
  BY <1>1
<1> QED BY <1>1, <1>2, <1>5, <1>6, <1>7, <1>8, <1>9, <1>10, <1>11, <1>12 DEF Sync

\* Outside of a packet Seen is the line, and an empty line stays outside.
LEMMA SeenLine ==
  /\ rp \notin Reading => Seen = line
  /\ rp' \notin Reading => Seen' = line'
BY DEF Seen

\* Where a packet starts, its head is the code that is read.
LEMMA HeadTaken ==
  ASSUME Types, NEW f, NEW b, Exists(f, b), At(line, 1, f, b), NEW r \in Codes
  PROVE  /\ r[1] \in {"SOH", "STX"} /\ r[2] = Tail(line) /\ line # <<>>
         /\ line' = r[2] /\ long' = (r[1] = "STX") /\ rp' \in Reading => Seen' = line
<1>1. line \in Seq(Tokens(Files)) /\ Len(line) \in Nat
  BY TypeFacts
<1>2. PacketLen(f, b) \in Nat /\ PacketLen(f, b) >= 1
  BY TypeFacts, PacketFacts
<1>3. 1 + PacketLen(f, b) <= Len(line) /\ line[1] = HeadOf(PacketLen(f, b))
  BY DEF At
<1>4. line # <<>>
  <2>1. Len(line) > 0
    BY <1>1, <1>2, <1>3
  <2> QED BY <2>1
<1>5. PICK c \in {"SOH", "STX"} : line[1] = Char(c)
  BY <1>3 DEF HeadOf
<1>6. Codes = {<<c, Tail(line)>>}
  BY <1>1, <1>4, <1>5, CodeIs DEF Chars
<1>7. r = <<c, Tail(line)>>
  BY <1>6
<1>8. ASSUME line' = r[2], long' = (r[1] = "STX"), rp' \in Reading PROVE Seen' = line
  <2>1. line' = Tail(line) /\ long' = (c = "STX")
    BY <1>7, <1>8
  <2> QED BY <1>1, <1>4, <1>5, <1>8, <2>1, TakeHead
<1> QED BY <1>4, <1>7, <1>8

\* An EOT alone on the line is read as EOT.
LEMMA EotRead ==
  ASSUME Types, Len(line) = 1, line[1] = Char("EOT"), NEW r \in Codes
  PROVE  r[1] = "EOT" /\ r[2] = <<>>
<1>1. line \in Seq(Tokens(Files)) /\ line # <<>>
  <2>1. line \in Seq(Tokens(Files))
    BY TypeFacts
  <2> QED BY <2>1
<1>2. Codes = {<<"EOT", Tail(line)>>}
  BY <1>1, CodeIs DEF Chars
<1>3. Tail(line) = <<>>
  <2>1. Len(Tail(line)) = 0 /\ Tail(line) \in Seq(Tokens(Files))
    BY <1>1, HeadTailProperties
  <2> QED BY <2>1, EmptySeq
<1> QED BY <1>2, <1>3

\* What the receiver finds where it waits for a code.
LEMMA CodeWhole ==
  ASSUME Types, Sync, rp \in {"hs", "code", "eot", "next"}, line # <<>>
  PROVE  \/ /\ rp # "eot"
            /\ \E f, b : Exists(f, b) /\ At(line, 1, f, b)
         \/ /\ rp = "code" /\ (Established => NothingSent) /\ (Transmitting => FileSent)
            /\ Len(line) = 1 /\ line[1] = Char("EOT")
         \/ rp = "eot" /\ EotAgain
<1>1. Seen = line /\ Len(line) \in Nat /\ Len(line) > 0
  <2>1. line \in Seq(Tokens(Files)) /\ Len(line) \in Nat
    BY TypeFacts
  <2>2. Len(line) > 0
    BY <2>1
  <2> QED BY <2>1, <2>2, SeenLine DEF Reading
<1>2. \A f, b : Exists(f, b) => PacketLen(f, b) \in Nat /\ PacketLen(f, b) >= 1
  BY TypeFacts, PacketFacts
<1>3. CASE rp = "hs"
  <2>1. OnlyCopies(line, 1) /\ Exists(1, 0)
    BY <1>1, <1>3, Where, TypeFacts DEF Handshake, Exists
  <2>2. At(line, 1, 1, 0)
    BY <1>1, <1>2, <2>1, RestCopies
  <2> QED BY <1>3, <2>1, <2>2
<1>4. CASE rp = "eot"
  BY <1>4, Where DEF Finishing, FirstEot, EotAgain, EotTaken, Asked, LastSent, NextSent
<1>5. CASE rp = "next"
  <2>1. (cfile \in 1 .. Files /\ NextSent /\ fblk[1] = cfile + 1) \/ LastSent
    <3>1. Finishing /\ cfile \in 1 .. Files
      BY <1>5, Where, TypeFacts DEF Finishing
    <3> QED BY <1>5, <3>1 DEF Finishing, FirstEot, EotAgain, EotTaken, Asked, NextSent
  <2>2. Exists(0, 0) /\ (NextSent => Exists(fblk[1], 0))
    BY TypeFacts DEF Exists
  <2> QED BY <1>1, <1>5, <2>1, <2>2 DEF NextSent, LastSent, Whole
<1>6. CASE rp = "code"
  <2>1. cfile = fblk[1] /\ cfile \in 1 .. Files /\ cfile # 0
    BY <1>6, Where, TypeFacts DEF Established, Transmitting
  <2>2. Exists(cfile, 0) /\ \A b \in 0 .. BlocksOf(cfile) : Exists(cfile, b)
    BY <2>1, TypeFacts DEF Exists
  <2>3. CASE Established
    <3>1. OnlyCopies(line, cfile) => At(line, 1, cfile, 0)
      BY <1>1, <1>2, <2>2, RestCopies
    <3>2. ASSUME FirstSent PROVE Exists(cfile, 1) /\ (At(line, 1, cfile, 0) \/ At(line, 1, cfile, 1))
      <4>1. Exists(cfile, 1) /\ ThenData(line, cfile)
        BY <1>1, <2>1, <2>2, <3>2, TypeFacts DEF FirstSent
      <4>2. Whole(line, cfile, 1) \/ At(line, 1, cfile, 0)
        BY <1>1, <1>2, <2>2, <4>1, RestThenData
      <4> QED BY <4>1, <4>2 DEF Whole
    <3>3. NothingSent => At(line, 1, cfile, 0) \/ (Len(line) = 1 /\ line[1] = Char("EOT"))
      BY <1>1, <1>2, <2>2, RestThenEot DEF NothingSent
    <3>4. ~Transmitting
      BY <2>3 DEF Established, Transmitting
    <3> QED BY <1>1, <1>6, <2>2, <2>3, <3>1, <3>2, <3>3, <3>4 DEF Established, Offered, Taken
  <2>4. CASE Transmitting
    <3>1. PacketSent \/ FileSent
      BY <1>1, <2>4 DEF Transmitting, PacketTaken
    <3>2. PacketSent => Exists(cfile, fblk[2]) /\ At(line, 1, cfile, fblk[2])
      BY <1>1, <2>1, <2>2, TypeFacts DEF PacketSent, Whole
    <3>3. FileSent => Len(line) = 1 /\ line[1] = Char("EOT")
      BY <1>1 DEF FileSent, Eot
    <3>4. ~Established
      BY <2>4 DEF Established, Transmitting
    <3> QED BY <1>6, <3>1, <3>2, <3>3, <3>4
  <2> QED BY <1>6, <2>3, <2>4, Where
<1> QED BY <1>3, <1>4, <1>5, <1>6

\* The answers on the way after the receiver said some.
LEMMA SayFacts ==
  ASSUME Types, NEW s \in Seq(Answers), Say(s)
  PROVE  /\ Len(back') = Len(back) + Len(s) /\ DOMAIN back' = 1 .. Len(back) + Len(s)
         /\ \A i \in 1 .. Len(back) : back'[i] = back[i]
         /\ \A i \in 1 .. Len(s) : back'[Len(back) + i] = s[i]
         /\ back = <<>> => back' = s
<1>1. back \in Seq(Answers) /\ Len(back) \in Nat /\ Len(s) \in Nat
  BY TypeFacts, LenProperties
<1>2. /\ back \o s \in Seq(Answers) /\ Len(back \o s) = Len(back) + Len(s)
      /\ \A i \in 1 .. Len(back) + Len(s) : (back \o s)[i] = IF i <= Len(back) THEN back[i] ELSE s[i - Len(back)]
  BY <1>1, ConcatProperties
<1>3. DOMAIN (back \o s) = 1 .. Len(back) + Len(s)
  BY <1>2, LenProperties
<1>4. \A i \in 1 .. Len(back) : (back \o s)[i] = back[i]
  BY <1>1, <1>2
<1>5. ASSUME NEW i \in 1 .. Len(s) PROVE (back \o s)[Len(back) + i] = s[i]
  <2>1. Len(back) + i \in 1 .. Len(back) + Len(s) /\ ~ (Len(back) + i <= Len(back)) /\ (Len(back) + i) - Len(back) = i
    BY <1>1
  <2> QED BY <1>2, <2>1
<1>6. back = <<>> => back \o s = s
  BY ConcatEmptySeq
<1> QED BY <1>2, <1>3, <1>4, <1>5, <1>6 DEF Say

\* The C of the handshake, its failing and its timeout.
LEMMA SyncHello ==
  ASSUME Types, Sync, Hello \/ HelloFails \/ HelloTimeout
  PROVE  Sync'
<1>1. Handshake /\ Seen = line
  BY Where, SeenLine DEF Hello, HelloFails, HelloTimeout, Reading
<1>2. CASE Hello
  <2>1. OnlyC(back')
    <3> DEFINE s == <<"C">>
    <3>1. Say(s) /\ s \in Seq(Answers)
      BY <1>2 DEF Hello, Answers
    <3>2. Len(s) = 1 /\ s[1] = "C"
      OBVIOUS
    <3> HIDE DEF s
    <3>3. /\ DOMAIN back' = 1 .. Len(back) + Len(s) /\ \A i \in 1 .. Len(back) : back'[i] = back[i]
          /\ \A i \in 1 .. Len(s) : back'[Len(back) + i] = s[i]
      BY <3>1, SayFacts
    <3>4. \A i \in 1 .. Len(back) : back[i] = "C"
      BY <1>1, TypeFacts DEF Handshake, OnlyC
    <3>5. Len(back) \in Nat
      BY TypeFacts
    <3>6. \A i \in 1 .. Len(back) + 1 : back'[i] = "C"
      BY <3>2, <3>3, <3>4, <3>5
    <3> QED BY <3>2, <3>3, <3>6 DEF OnlyC
  <2>2. Seen' = line
    BY <1>2 DEF Hello, Seen, Reading
  <2>3. Handshake'
    <3>1. OnlyCopies(line, 1)'
      BY <1>1, <1>2, Frame DEF Handshake, Hello, send
    <3> QED BY <1>1, <1>2, <2>1, <2>2, <3>1 DEF Handshake, Hello, send
  <2> QED BY <1>2, <2>3, ExcusedStays DEF Sync, Hello, send, Clean, Ended, Handshake
<1>3. CASE HelloFails
  BY <1>3, FailsStep, ExcusedStays DEF HelloFails, Fails
<1>4. CASE HelloTimeout
  <2>1. Seen' = line
    BY <1>4 DEF HelloTimeout, Seen, Reading
  <2>2. Handshake'
    <3>1. OnlyCopies(line, 1)'
      BY <1>1, <1>4, Frame DEF Handshake, HelloTimeout, send
    <3>2. OnlyC(back)'
      BY <1>1, <1>4 DEF Handshake, HelloTimeout, OnlyC
    <3> QED BY <1>1, <1>4, <2>1, <3>1, <3>2 DEF Handshake, HelloTimeout, send
  <2> QED BY <1>4, <2>2, ExcusedStays DEF Sync, HelloTimeout, send, Clean, Ended, Handshake
<1> QED BY <1>2, <1>3, <1>4

\* The head of packet 0 is read in the handshake.
LEMMA SyncHelloCode ==
  ASSUME Types, Sync, HelloCode
  PROVE  Sync'
<1>1. Handshake /\ Seen = line
  BY Where, SeenLine DEF HelloCode, Reading
<1>2. PICK r \in Codes : line' = r[2] /\ rp' = (IF r[1] \in {"SOH", "STX"} THEN "hsbody" ELSE "hello")
                         /\ long' = (IF r[1] \in {"SOH", "STX"} THEN r[1] = "STX" ELSE long)
  BY DEF HelloCode
<1>3. PICK f, b : Exists(f, b) /\ At(line, 1, f, b)
  BY CodeWhole DEF HelloCode
<1>4. r[1] \in {"SOH", "STX"} /\ r[2] = Tail(line) /\ line # <<>>
  BY <1>3, HeadTaken
<1>5. rp' = "hsbody" /\ long' = (r[1] = "STX") /\ line' = Tail(line)
  BY <1>2, <1>4
<1>6. Seen' = Seen
  BY <1>1, <1>2, <1>3, <1>5, HeadTaken DEF Reading
<1>7. Handshake'
  <2>1. OnlyCopies(Seen, 1)' /\ OnlyC(back)'
    BY <1>1, <1>6, Frame DEF HelloCode, send, Handshake, OnlyC
  <2> QED BY <1>1, <1>5, <1>6, <2>1 DEF Handshake, HelloCode, send
<1>8. Excused' \/ Clean(line)'
  BY <1>4, <1>5, CleanFacts, ExcusedStays, TypeFacts DEF Sync, HelloCode, Clean
<1> QED BY <1>5, <1>7, <1>8 DEF Sync, HelloCode, send, Ended

\* A body is refused when it was garbled, and only then.
LEMMA SyncBodyFails ==
  ASSUME Types, Sync, HeaderFails \/ DataFails \/ NextBad
  PROVE  Sync'
<1>1. rp \in Reading
  BY DEF HeaderFails, DataFails, NextBad, Reading
<1>2. PICK f, b : /\ Exists(f, b) /\ At(Seen, 1, f, b)
                  /\ rp = "hsbody" => f = 1 /\ b = 0
                  /\ rp = "nextbody" => b = 0 /\ (f = 0 \/ f > 1)
  BY <1>1, ReadingWhole
<1>3. /\ Need = (IF rp = "nextbody" THEN 1 ELSE PacketLen(f, b))
      /\ Clean(line) /\ Need = PacketLen(f, b) => Good(Read)
      /\ Good(Read) => Seqs(Read) = {b % SEQ_MOD}
  BY <1>1, <1>2, TypeFacts, BodyRead
<1>4. Excused
  <2> SUFFICES ASSUME ~Excused PROVE FALSE
    OBVIOUS
  <2>1. Clean(line) /\ Plain
    BY DEF Sync, Excused
  <2>2. rp = "nextbody" => PacketLen(f, b) = 1
    <3>1. ASSUME f > 1, f \in 1 .. Files PROVE session.files[f].header = 1
      BY <2>1, <3>1, TypeFacts, SessionFacts DEF Plain
    <3> QED BY <1>2, <3>1, TypeFacts DEF PacketLen, Exists
  <2>3. Good(Read) /\ Seqs(Read) = {b % SEQ_MOD}
    BY <1>3, <2>1, <2>2
  <2>4. b % SEQ_MOD # -1 /\ 0 % SEQ_MOD = 0
    BY <1>2, YmodemAssumption DEF Exists
  <2> QED BY <1>2, <2>3, <2>4 DEF HeaderFails, DataFails, NextBad
<1>5. Excused'
  BY <1>4, ExcusedStays DEF HeaderFails, DataFails, NextBad
<1> QED BY <1>5, FailsStep DEF HeaderFails, DataFails, NextBad, Fails, NextFails

\* A wait only ends when an answer was lost or somebody is slow.
LEMMA SyncTimeout ==
  ASSUME Types, Sync, Timeout
  PROVE  Sync'
<1>1. rp \notin Reading /\ line = <<>> /\ rp \in {"code", "eot", "next"}
  <2> SUFFICES ASSUME rp \in Reading PROVE FALSE
    BY DEF Timeout, TimeoutAt, Reading
  <2>1. PICK f, b : Exists(f, b) /\ At(Seen, 1, f, b)
    BY ReadingWhole
  <2>2. Need <= Len(line) /\ Need \in Nat
    BY <2>1, TypeFacts, BodyRead
  <2>3. Len(line) < Need /\ Len(line) \in Nat
    BY TypeFacts DEF Timeout, Reading
  <2> QED BY <2>2, <2>3
<1>2. Excused \/ (back # <<>> /\ sp # "gaveup")
  <2> SUFFICES ASSUME ~Excused PROVE back # <<>> /\ sp # "gaveup"
    OBVIOUS
  <2>1. Seen = <<>> /\ Len(Seen) = 0 /\ Seen # Eot /\ line # Eot
    <3>1. Seen = <<>>
      BY <1>1, SeenLine
    <3> QED BY <1>1, <3>1 DEF Eot
  <2>2. ~ThenData(Seen, cfile) /\ ~ThenEot(Seen, cfile)
    BY <2>1, EmptyLine
  <2>3. \A f, b : Exists(f, b) => ~Whole(Seen, f, b)
    <3>1. \A f, b : Exists(f, b) => PacketLen(f, b) \in Nat
      BY TypeFacts, PacketFacts
    <3> QED BY <2>1, <3>1 DEF Whole
  <2>4. sp # "gaveup"
    BY <1>1 DEF Sync, Ended, Excused
  <2>5. /\ Answered(back) => back # <<>>
        /\ \A c : Atmost(back, <<c>>) => back # <<>>
        /\ Atmost(back, <<"ACK", "C">>) => back # <<>>
    <3>1. Answered(back) => Len(back) >= 2
      BY DEF Answered
    <3>2. Len(<<>>) = 0
      OBVIOUS
    <3> QED BY <3>1, <3>2 DEF Atmost
  <2>6. CASE Established
    BY <2>2, <2>4, <2>5, <2>6 DEF Established, Offered, Taken, FirstSent, NothingSent
  <2>7. CASE Transmitting
    <3>1. Exists(cfile, fblk[2])
      BY <2>7, TypeFacts DEF Transmitting, Exists
    <3> QED BY <2>1, <2>3, <2>4, <2>5, <2>7, <3>1 DEF Transmitting, PacketSent, PacketTaken, FileSent
  <2>8. CASE Finishing
    <3>1. Exists(0, 0) /\ (NextSent => Exists(cfile + 1, 0))
      BY TypeFacts DEF Exists, NextSent
    <3> QED BY <2>1, <2>3, <2>4, <2>5, <2>8, <3>1
        DEF Finishing, FirstEot, EotAgain, EotTaken, Asked, LastSent, NextSent
  <2> QED BY <1>1, <2>6, <2>7, <2>8, Where
<1>3. Excused'
  BY <1>2, ExcusedStays DEF Timeout
<1> QED BY <1>1, <1>3, FailsStep DEF Timeout, Fails

\* What a packet leaves on the line.
LEMMA BodyTaken ==
  ASSUME Types, Sync, rp \in Reading, NEW f, NEW b, Exists(f, b), At(Seen, 1, f, b),
         Need = PacketLen(f, b), line' \in Left, rp' \notin Reading
  PROVE  /\ Seen' = line' /\ Rest(line', Seen, PacketLen(f, b) + 1)
         /\ line' \in Seq(Tokens(Files)) /\ Len(line') \in Nat
         /\ Clean(line) => Clean(line')
         /\ Whole(Seen, f, b) => line' = <<>>
<1> DEFINE rest == SubSeq(line, Need + 1, Len(line))
<1>1. /\ Left = {rest} /\ rest \in Seq(Tokens(Files)) /\ Len(rest) \in Nat
      /\ Rest(rest, Seen, PacketLen(f, b) + 1)
      /\ Need <= Len(line) /\ Need \in Nat
  BY TypeFacts, BodyRead
<1>2. Clean(line) => Clean(rest)
  <2>1. Rest(rest, line, Need)
    BY <1>1, ReadFacts, TypeFacts DEF Rest
  <2>2. DOMAIN rest = 1 .. Len(rest)
    BY <1>1, LenProperties
  <2> HIDE DEF rest
  <2> QED BY <1>1, <2>1, <2>2, CleanFacts, TypeFacts
<1>3. Whole(Seen, f, b) => rest = <<>>
  <2>1. Whole(Seen, f, b) => Len(rest) = 0
    BY <1>1, TypeFacts, PacketFacts DEF Whole, Rest
  <2> HIDE DEF rest
  <2> QED BY <1>1, <2>1, EmptySeq
<1> HIDE DEF rest
<1> QED BY <1>1, <1>2, <1>3, SeenLine

\* Packet 0 of the first file is taken.
LEMMA SyncHeader ==
  ASSUME Types, Sync, Header
  PROVE  Sync'
<1>1. rp = "hsbody" /\ rp \in Reading /\ Handshake /\ rp' = "begin" /\ rp' \notin Reading
  BY Where DEF Header, Reading
<1>2. Exists(1, 0) /\ PacketLen(1, 0) \in Nat /\ PacketLen(1, 0) >= 1
  <2>1. Exists(1, 0)
    BY TypeFacts DEF Exists
  <2> QED BY <2>1, TypeFacts, PacketFacts
<1>3. Len(Seen) \in Nat /\ Len(Seen) > 0 /\ OnlyCopies(Seen, 1)
  BY <1>1, TypeFacts, SeenReading DEF Handshake
<1>4. At(Seen, 1, 1, 0) /\ \A r : Rest(r, Seen, PacketLen(1, 0) + 1) /\ Len(r) \in Nat => OnlyCopies(r, 1)
  BY <1>2, <1>3, RestCopies
<1>5. Need = PacketLen(1, 0) /\ Owner(Read) = 1
  BY <1>1, <1>2, <1>4, TypeFacts, BodyRead DEF Header
<1>6. OnlyCopies(line', 1) /\ (Clean(line) => Clean(line'))
  BY <1>1, <1>2, <1>4, <1>5, BodyTaken DEF Header
<1>7. Beginning'
  <2>1. OnlyCopies(line, 1)' /\ OnlyC(back)'
    BY <1>1, <1>6, Frame DEF Header, send, Handshake, OnlyC
  <2>2. cfile' = 1 /\ fblk' = <<1, 0>> /\ sp' \in {"hdr", "gaveup"}
    <3>1. Seen # <<>>
      BY <1>3
    <3> QED BY <1>1, <1>5, <3>1 DEF Header, Handshake, send
  <2> QED BY <1>1, <2>1, <2>2 DEF Beginning
<1>8. Excused' \/ Clean(line)'
  BY <1>6, ExcusedStays DEF Sync, Header, Clean
<1> QED BY <1>1, <1>7, <1>8 DEF Sync, Header, send, Ended

\* on_begin refuses the file.
LEMMA SyncBeginFails ==
  ASSUME Types, Sync, BeginFails
  PROVE  Sync'
<1>1. Unanswered'
  BY SyncUnanswered DEF BeginFails, send, Unanswered
<1>2. ReceivedPrefix' /\ rp' = "failed" /\ Excused'
  BY ExcusedStays DEF BeginFails, ReceivedPrefix
<1> QED BY <1>1, <1>2 DEF Sync, Failed, Ended

\* on_begin erases the partition and the packet is acknowledged.
LEMMA SyncBegin ==
  ASSUME Types, Sync, Begin
  PROVE  Sync'
<1>1. Beginning /\ rp = "begin" /\ rp' = "code" /\ stage' = "ESTABLISHED" /\ cur' = 0
      /\ UNCHANGED <<cfile, line, session, sp, fblk, trouble>>
  BY Where DEF Begin, BeginCur, send
<1>2. cfile \in 1 .. Files /\ cfile = fblk[1] /\ cfile # 0
  BY <1>1, TypeFacts DEF Beginning
<1>3. Stored(cfile, 0)'
  <2>1. PICK f \in 1 .. Files : f = cfile
    BY <1>2
  <2>2. Announced = {session.files[f].announced}
    BY <1>2, <2>1 DEF Announced
  <2>3. dl' = ErasedUpTo(SectorsOf(session.files[f].announced))
    BY <2>2 DEF Begin
  <2>4. Stored(f, 0)'
    BY <1>1, <2>3, BeginStored
  <2> QED BY <1>1, <2>1, <2>4
<1>4. Answered(back')
  <2> DEFINE s == <<"ACK", "C">>  n == Len(back)
  <2>1. Say(s) /\ s \in Seq(Answers)
    BY DEF Begin, Answers
  <2>2. Len(s) = 2 /\ s[1] = "ACK" /\ s[2] = "C"
    OBVIOUS
  <2> HIDE DEF s
  <2>3. /\ Len(back') = n + Len(s) /\ DOMAIN back' = 1 .. n + Len(s) /\ \A i \in 1 .. n : back'[i] = back[i]
        /\ \A i \in 1 .. Len(s) : back'[n + i] = s[i]
    BY <2>1, SayFacts
  <2>4. n \in Nat /\ \A i \in 1 .. n : back[i] = "C"
    BY <1>1, TypeFacts DEF Beginning, OnlyC
  <2> HIDE DEF n
  <2>5. Len(back') = n + 2 /\ back'[n + 1] = "ACK" /\ back'[n + 2] = "C" /\ DOMAIN back' = 1 .. n + 2
    BY <2>2, <2>3
  <2>6. \A i \in 1 .. n : back'[i] = "C"
    BY <2>3, <2>4
  <2>7. \A i \in DOMAIN back' : back'[i] \in {"C", "ACK"} /\ (back'[i] = "ACK" => i = n + 1)
    BY <2>4, <2>5, <2>6
  <2>8. (n + 2) - 1 = n + 1 /\ n + 2 >= 2
    BY <2>4
  <2> QED BY <2>5, <2>7, <2>8 DEF Answered
<1>5. Offered'
  <2>1. Seen' = line
    BY <1>1, SeenLine DEF Reading
  <2>2. OnlyCopies(line, cfile)'
    BY <1>1, Frame DEF Beginning
  <2>3. OnlyCopies(Seen, cfile)'
    BY <1>1, <2>1, <2>2
  <2>4. Answered(back)'
    BY <1>1, <1>4, ExcusedStays DEF Answered
  <2> QED BY <1>1, <2>3, <2>4 DEF Offered, Beginning
<1>6. Established'
  BY <1>1, <1>2, <1>3, <1>5 DEF Established
<1>7. Excused' \/ Clean(line)'
  BY <1>1, ExcusedStays DEF Sync, Clean
<1> QED BY <1>1, <1>6, <1>7 DEF Sync, Ended

\* Reading the head of a packet changes nothing else.
LEMMA SameStage ==
  ASSUME UNCHANGED <<stage, cur, dl, cfile, back, send, trouble>>, Seen' = Seen
  PROVE  /\ rp' \in {"code", "body"} => (Established => Established') /\ (Transmitting => Transmitting')
         /\ rp' \in {"next", "nextbody"} => (Finishing /\ (LastSent \/ NextSent) => Finishing')
<1> USE Frame
<1>1. UNCHANGED <<session, sp, fblk>> /\ (Excused' <=> Excused)
  BY ExcusedStays DEF send
<1>2. \A f, b : Stored(f, b)' <=> Stored(f, b)
  BY StoredSame DEF send
<1>3. (Answered(back)' <=> Answered(back)) /\ \A s : Atmost(back, s)' <=> Atmost(back, s)
  BY <1>1 DEF Answered, Atmost
<1>4. rp' \in {"code", "body"} => (Established => Established')
  BY <1>1, <1>2, <1>3 DEF Established, Offered, Taken, FirstSent, NothingSent
<1>5. rp' \in {"code", "body"} => (Transmitting => Transmitting')
  BY <1>1, <1>2, <1>3 DEF Transmitting, PacketSent, PacketTaken, FileSent
<1>6. rp' \in {"next", "nextbody"} => (Finishing /\ (LastSent \/ NextSent) => Finishing')
  BY <1>1, <1>2 DEF Finishing, LastSent, NextSent, FirstEot, EotAgain, EotTaken, Asked
<1> QED BY <1>4, <1>5, <1>6

\* A code is read: the head of a packet or the first EOT, answered with NAK.
LEMMA SyncCode ==
  ASSUME Types, Sync, Code
  PROVE  Sync'
<1>1. rp = "code" /\ line # <<>> /\ Seen = line /\ (Established \/ Transmitting)
      /\ UNCHANGED <<cur, dl, cfile, send, faults, trouble>>
  BY Where, SeenLine DEF Code, Reading
<1>2. PICK r \in Codes :
        /\ line' = r[2]
        /\ CASE r[1] \in {"SOH", "STX"} ->
                  rp' = "body" /\ long' = (r[1] = "STX") /\ UNCHANGED <<stage, tries, back>>
             [] r[1] = "EOT" ->
                  rp' = "eot" /\ stage' = "FINISHING" /\ Say(<<"NAK">>) /\ UNCHANGED <<tries, long>>
             [] OTHER -> Fails
  BY DEF Code
<1>3. line \in Seq(Tokens(Files)) /\ (Excused \/ Clean(line)) /\ (Excused' <=> Excused)
      /\ (sp = "gaveup" => trouble)
  BY <1>1, TypeFacts, ExcusedStays DEF Sync, Ended
<1>4. ASSUME NEW f, NEW b, Exists(f, b), At(line, 1, f, b)
      PROVE  Sync'
  <2>1. r[1] \in {"SOH", "STX"} /\ line' = Tail(line)
    BY <1>2, <1>4, HeadTaken
  <2>2. rp' = "body" /\ long' = (r[1] = "STX") /\ UNCHANGED <<stage, tries, back>>
    BY <1>2, <2>1
  <2>3. Seen' = Seen
    BY <1>1, <1>2, <1>4, <2>2, HeadTaken DEF Reading
  <2>4. Established' \/ Transmitting'
    BY <1>1, <2>2, <2>3, SameStage
  <2>5. Excused' \/ Clean(line')
    BY <1>1, <1>3, <2>1, CleanFacts
  <2> QED BY <1>1, <1>3, <2>2, <2>4, <2>5 DEF Sync, Clean, Ended, send
<1>5. ASSUME Len(line) = 1, line[1] = Char("EOT"),
             Established => NothingSent, Transmitting => FileSent
      PROVE  Sync'
  <2>1. r[1] = "EOT" /\ line' = <<>>
    BY <1>2, <1>5, EotRead
  <2>2. rp' = "eot" /\ Say(<<"NAK">>)
    BY <1>2, <2>1
  <2>3. /\ cfile = fblk[1] /\ cfile # 0 /\ fblk[2] = BlocksOf(cfile) /\ sp = "eot1"
        /\ back = <<>> /\ Stored(cfile, BlocksOf(cfile))
    BY <1>1, <1>5, TypeFacts DEF Established, Transmitting, NothingSent, FileSent
  <2>4. fblk = <<cfile, BlocksOf(cfile)>>
    BY <2>3, TypeFacts
  <2>5. back' = <<"NAK">>
    BY <2>2, <2>3 DEF Say
  <2>6. Atmost(back, <<"NAK">>)'
    BY <2>5 DEF Atmost
  <2>7. Stored(cfile, BlocksOf(cfile))' /\ BlocksOf(cfile)' = BlocksOf(cfile)
    BY <1>1, <2>3, Frame, StoredSame DEF send
  <2>8. Finishing'
    BY <1>1, <2>1, <2>2, <2>3, <2>4, <2>6, <2>7 DEF Finishing, FirstEot, send
  <2> QED BY <1>1, <1>3, <2>1, <2>2, <2>8, EmptyLine DEF Sync, Clean, Ended, send
<1> QED BY <1>1, <1>4, <1>5, CodeWhole

\* The second EOT is acknowledged and the next file asked for.
LEMMA SyncSecondEot ==
  ASSUME Types, Sync, SecondEot
  PROVE  Sync'
<1>1. rp = "eot" /\ line # <<>> /\ EotAgain /\ Finishing
  BY Where DEF SecondEot, Finishing, FirstEot, EotAgain, EotTaken, Asked, LastSent, NextSent
<1>2. Len(line) = 1 /\ line[1] = Char("EOT")
  BY <1>1 DEF EotAgain, Eot
<1>3. PICK r \in Codes : /\ line' = r[2]
                         /\ r[1] = "EOT" => rp' = "next" /\ Say(<<"ACK", "C">>)
  BY DEF SecondEot
<1>4. r[1] = "EOT" /\ line' = <<>>
  BY <1>2, <1>3, EotRead
<1>5. back' = <<"ACK", "C">> /\ rp' = "next"
  BY <1>1, <1>3, <1>4 DEF EotAgain, Say
<1>6. Atmost(back, <<"ACK", "C">>)'
  BY <1>5 DEF Atmost
<1>7. /\ UNCHANGED <<cfile, fblk, sp, trouble>> /\ cfile # 0
      /\ Stored(cfile, BlocksOf(cfile))' /\ fblk = <<cfile, BlocksOf(cfile)>> /\ BlocksOf(cfile)' = BlocksOf(cfile)
  BY <1>1, Frame, StoredSame DEF SecondEot, send, Finishing, EotAgain, NextSent
<1>8. Finishing'
  BY <1>1, <1>4, <1>5, <1>6, <1>7 DEF Finishing, EotAgain, EotTaken
<1>9. Clean(line)'
  BY <1>4, EmptyLine DEF Clean
<1> QED BY <1>1, <1>5, <1>7, <1>8, <1>9 DEF Sync, Ended, EotAgain

\* The head of the next packet 0 is read.
LEMMA SyncNextCode ==
  ASSUME Types, Sync, NextCode
  PROVE  Sync'
<1>1. rp = "next" /\ line # <<>> /\ Finishing /\ (LastSent \/ NextSent) /\ Seen = line
  BY Where, SeenLine DEF NextCode, Reading, Finishing, FirstEot, EotAgain, EotTaken, Asked, LastSent, NextSent
<1>2. PICK f, b : Exists(f, b) /\ At(line, 1, f, b)
  BY <1>1, CodeWhole
<1>3. PICK r \in Codes : /\ line' = r[2]
                         /\ r[1] \in {"SOH", "STX"} =>
                                rp' = "nextbody" /\ long' = (r[1] = "STX") /\ UNCHANGED <<stage, tries, back>>
  BY DEF NextCode
<1>4. r[1] \in {"SOH", "STX"} /\ line' = Tail(line)
  BY <1>2, <1>3, HeadTaken
<1>5. Seen' = Seen /\ rp' = "nextbody" /\ UNCHANGED <<stage, back>>
  <2>1. rp' = "nextbody" /\ long' = (r[1] = "STX") /\ UNCHANGED <<stage, back>>
    BY <1>3, <1>4
  <2> QED BY <1>1, <1>2, <1>3, <2>1, HeadTaken DEF Reading
<1>6. Finishing'
  BY <1>1, <1>5, SameStage DEF NextCode
<1>7. Excused' \/ Clean(line')
  BY <1>1, <1>4, CleanFacts, ExcusedStays, TypeFacts DEF Sync, NextCode
<1> QED BY <1>1, <1>5, <1>6, <1>7 DEF Sync, NextCode, send, Clean, Ended

\* Another packet 0 is skipped; so is packet 1 when the numbers have no second
\* value, and after a garbled number.
LEMMA SyncIgnore ==
  ASSUME Types, Sync, Ignore
  PROVE  Sync'
<1>1. /\ rp = "body" /\ rp \in Reading /\ rp' = "code" /\ rp' \notin Reading /\ line' \in Left
      /\ UNCHANGED <<stage, tries, long, cur, dl, cfile, back, send, faults, trouble>>
      /\ UNCHANGED <<session, sp, fblk>>
  BY DEF Ignore, Reading, send
<1>2. stage = "ESTABLISHED" /\ Established /\ 0 \in Seqs(Read)
  BY <1>1, Where DEF Ignore, Repeated, Transmitting
<1>3. cfile = fblk[1] /\ cfile \in 1 .. Files /\ Exists(cfile, 0) /\ Len(Seen) \in Nat /\ Len(Seen) > 0
  <2>1. cfile = fblk[1] /\ cfile \in 1 .. Files /\ Len(Seen) \in Nat /\ Len(Seen) > 0
    BY <1>1, <1>2, TypeFacts, SeenReading DEF Established
  <2> QED BY <2>1, TypeFacts DEF Exists
<1>4. \A b : Exists(cfile, b) => PacketLen(cfile, b) \in Nat /\ PacketLen(cfile, b) >= 1
  BY TypeFacts, PacketFacts
<1>5. \A b : Exists(cfile, b) /\ At(Seen, 1, cfile, b) => Need = PacketLen(cfile, b)
  BY <1>1, TypeFacts, BodyRead
<1>6. (Excused' <=> Excused) /\ (Excused \/ Clean(line))
  BY <1>1, ExcusedStays DEF Sync
<1>7. ASSUME Offered \/ Taken \/ FirstSent \/ NothingSent, Offered' \/ Taken' \/ FirstSent' \/ NothingSent',
             Clean(line) => Clean(line')
      PROVE  Sync'
  <2>1. Stored(cfile, 0)'
    BY <1>1, <1>2, StoredSame DEF Established
  <2>2. Established'
    BY <1>1, <1>2, <1>3, <1>7, <2>1 DEF Established
  <2> QED BY <1>1, <1>6, <1>7, <2>2 DEF Sync, Clean, Ended
<1>8. (Answered(back)' <=> Answered(back)) /\ \A s : Atmost(back, s)' <=> Atmost(back, s)
  BY <1>1, <1>6 DEF Answered, Atmost
<1>9. ASSUME At(Seen, 1, cfile, 0)
      PROVE  /\ Seen' = line' /\ Rest(line', Seen, PacketLen(cfile, 0) + 1) /\ Len(line') \in Nat
             /\ Clean(line) => Clean(line')
  BY <1>1, <1>3, <1>5, <1>9, BodyTaken
<1>10. ASSUME OnlyCopies(Seen, cfile)
       PROVE  /\ OnlyCopies(Seen, cfile)'
              /\ Clean(line) => Clean(line')
  <2>1. /\ At(Seen, 1, cfile, 0)
        /\ \A r : Rest(r, Seen, PacketLen(cfile, 0) + 1) /\ Len(r) \in Nat => OnlyCopies(r, cfile)
    BY <1>3, <1>4, <1>10, RestCopies
  <2>2. OnlyCopies(line', cfile) /\ Seen' = line' /\ cfile' = cfile
    BY <1>1, <1>9, <2>1
  <2> QED BY <1>1, <1>9, <2>1, <2>2, Frame
<1>11. CASE Offered
  <2>1. Offered'
    BY <1>1, <1>8, <1>10, <1>11 DEF Offered
  <2> QED BY <1>7, <1>10, <1>11, <2>1 DEF Offered
<1>12. CASE Taken
  <2>1. Taken'
    BY <1>1, <1>8, <1>10, <1>12 DEF Taken
  <2> QED BY <1>7, <1>10, <1>12, <2>1 DEF Taken
<1>13. CASE NothingSent
  <2>1. ThenEot(Seen, cfile) /\ ~ (Len(Seen) = 1 /\ Seen[1] = Char("EOT"))
    <3>1. Seen[1] \in {Char("SOH"), Char("STX")}
      BY <1>1, TypeFacts, SeenReading
    <3> QED BY <1>13, <3>1 DEF NothingSent, Char
  <2>2. /\ At(Seen, 1, cfile, 0)
        /\ \A r : Rest(r, Seen, PacketLen(cfile, 0) + 1) /\ Len(r) \in Nat => ThenEot(r, cfile)
    BY <1>3, <1>4, <2>1, RestThenEot
  <2>3. ThenEot(line', cfile) /\ Seen' = line' /\ cfile' = cfile
    BY <1>1, <1>9, <2>2
  <2>4. ThenEot(Seen, cfile)'
    BY <1>1, <2>3, Frame
  <2>5. NothingSent'
    BY <1>1, <1>13, <2>4, Frame DEF NothingSent
  <2> QED BY <1>7, <1>9, <1>13, <2>2, <2>5
<1>14. CASE FirstSent
  <2>1. ThenData(Seen, cfile) /\ Exists(cfile, 1)
    <3>1. Seen # <<>>
      BY <1>3
    <3> QED BY <1>3, <1>14, <3>1, TypeFacts DEF FirstSent, Exists
  <2>2. CASE Whole(Seen, cfile, 1)
    <3>1. At(Seen, 1, cfile, 1)
      BY <2>2 DEF Whole
    <3>2. Need = PacketLen(cfile, 1)
      BY <1>5, <2>1, <3>1
    <3>3. Seen' = line' /\ line' = <<>> /\ (Clean(line) => Clean(line'))
      BY <1>1, <2>1, <2>2, <3>1, <3>2, BodyTaken
    <3>4. Excused
      <4> SUFFICES ASSUME ~Excused PROVE FALSE
        OBVIOUS
      <4>1. Clean(line) /\ SEQ_MOD > 1 /\ SEQ_MOD \in Nat
        BY <1>6, YmodemAssumption DEF Excused, Plain
      <4>2. Good(Read) /\ Seqs(Read) = {1 % SEQ_MOD}
        BY <1>1, <2>1, <3>1, <3>2, <4>1, TypeFacts, BodyRead
      <4>3. 1 % SEQ_MOD = 1
        BY <4>1
      <4> QED BY <1>2, <4>2, <4>3
    <3>5. FirstSent'
      BY <1>1, <1>6, <1>14, <3>3, <3>4 DEF FirstSent
    <3> QED BY <1>7, <1>14, <3>3, <3>5
  <2>3. CASE ~Whole(Seen, cfile, 1)
    <3>1. /\ At(Seen, 1, cfile, 0)
          /\ \A r : Rest(r, Seen, PacketLen(cfile, 0) + 1) /\ Len(r) \in Nat => ThenData(r, cfile)
      BY <1>3, <1>4, <2>1, <2>3, RestThenData
    <3>2. ThenData(line', cfile) /\ Seen' = line' /\ cfile' = cfile
      BY <1>1, <1>9, <3>1
    <3>3. ThenData(Seen, cfile)'
      BY <1>1, <3>2, Frame
    <3>4. FirstSent'
      BY <1>1, <1>14, <3>3 DEF FirstSent
    <3> QED BY <1>7, <1>9, <1>14, <3>1, <3>4
  <2> QED BY <2>2, <2>3
<1> QED BY <1>2, <1>11, <1>12, <1>13, <1>14 DEF Established

\* A data packet is written and acknowledged.
LEMMA SyncData ==
  ASSUME Types, Dependable, Sync, Data
  PROVE  Sync'
<1>1. /\ rp = "body" /\ rp \in Reading /\ rp' = "code" /\ rp' \notin Reading /\ line' \in Left
      /\ stage' = "TRANSMITTING" /\ Say(<<"ACK">>) /\ Good(Read) /\ cur + Need <= PartLen
      /\ dl' = Written(Read) /\ cur' = cur + Len(Read)
      /\ UNCHANGED <<cfile, session, sp, fblk, trouble>>
  BY DEF Data, Reading, send, Advance
<1>2. Established \/ Transmitting
  BY <1>1, Where
<1>3. cfile = fblk[1] /\ cfile \in 1 .. Files /\ Len(Seen) \in Nat /\ Len(Seen) > 0 /\ BlocksOf(cfile) \in Nat
  BY <1>1, <1>2, TypeFacts, SeenReading DEF Established, Transmitting
<1>4. \A b \in 0 .. BlocksOf(cfile) : Exists(cfile, b) /\ PacketLen(cfile, b) \in Nat /\ PacketLen(cfile, b) >= 1
  <2>1. \A b \in 0 .. BlocksOf(cfile) : Exists(cfile, b)
    BY <1>3, TypeFacts DEF Exists
  <2> QED BY <2>1, TypeFacts, PacketFacts
<1>5. ASSUME NEW b \in 0 .. BlocksOf(cfile), At(Seen, 1, cfile, b)
      PROVE  /\ Need = PacketLen(cfile, b) /\ Len(Read) = Need /\ Read = Body(cfile, b)
             /\ stage = "ESTABLISHED" => b # 0
  <2>1. /\ Need = PacketLen(cfile, b) /\ Len(Read) = Need /\ Read = Body(cfile, b)
        /\ Seqs(Read) = {b % SEQ_MOD}
    BY <1>1, <1>4, <1>5, TypeFacts, BodyRead
  <2>2. 0 % SEQ_MOD = 0
    BY YmodemAssumption
  <2> QED BY <2>1, <2>2 DEF Data, Repeated
<1>6. ~ (stage = "ESTABLISHED" /\ At(Seen, 1, cfile, 0))
  BY <1>3, <1>5
<1>7. \E b \in 1 .. BlocksOf(cfile) : Whole(Seen, cfile, b) /\ sp = "data" /\ fblk[2] = b /\ back = <<>> /\ Stored(cfile, b - 1)
  <2>1. CASE Established
    <3>1. 0 \in 0 .. BlocksOf(cfile)
      BY <1>3
    <3>2. ~OnlyCopies(Seen, cfile)
      BY <1>3, <1>4, <1>6, <2>1, <3>1, RestCopies DEF Established
    <3>3. ~NothingSent
      <4> SUFFICES ASSUME NothingSent PROVE FALSE
        OBVIOUS
      <4>1. Seen[1] \in {Char("SOH"), Char("STX")}
        BY <1>1, TypeFacts, SeenReading
      <4>2. Seen[1] = Char("EOT")
        BY <1>3, <1>4, <1>6, <2>1, <3>1, RestThenEot DEF Established, NothingSent
      <4> QED BY <4>1, <4>2 DEF Char
    <3>4. FirstSent /\ Stored(cfile, 0)
      BY <2>1, <3>2, <3>3 DEF Established, Offered, Taken
    <3>5. 1 \in 1 .. BlocksOf(cfile) /\ 1 \in 0 .. BlocksOf(cfile) /\ fblk[2] = 1 /\ 1 - 1 = 0
      BY <1>3, <3>4, TypeFacts DEF FirstSent
    <3>6. ThenData(Seen, cfile)
      <4>1. Seen # <<>>
        BY <1>3
      <4> QED BY <3>4, <4>1 DEF FirstSent
    <3>7. Whole(Seen, cfile, 1)
      BY <1>3, <1>4, <1>6, <2>1, <3>1, <3>5, <3>6, RestThenData DEF Established
    <3> QED BY <3>4, <3>5, <3>7 DEF FirstSent
  <2>2. CASE Transmitting
    <3>1. PacketSent
      <4>1. Seen[1] \in {Char("SOH"), Char("STX")}
        BY <1>1, TypeFacts, SeenReading
      <4>2. Seen # <<>> /\ Seen # Eot
        BY <1>3, <4>1 DEF Eot, Char
      <4> QED BY <2>2, <4>2 DEF Transmitting, PacketTaken, FileSent
    <3>2. fblk[2] \in 1 .. BlocksOf(cfile)
      BY <1>3, <3>1, TypeFacts DEF PacketSent
    <3> QED BY <3>1, <3>2 DEF PacketSent
  <2> QED BY <1>2, <2>1, <2>2
<1>8. PICK b \in 1 .. BlocksOf(cfile) :
        Whole(Seen, cfile, b) /\ sp = "data" /\ fblk[2] = b /\ back = <<>> /\ Stored(cfile, b - 1)
  BY <1>7
<1>9. b \in 0 .. BlocksOf(cfile) /\ At(Seen, 1, cfile, b) /\ b - 1 \in Nat /\ b - 1 < BlocksOf(cfile) /\ (b - 1) + 1 = b
  BY <1>3, <1>8 DEF Whole
<1>10. Read = Body(cfile, b) /\ Len(Read) = Need /\ Need = PacketLen(cfile, b)
  BY <1>5, <1>9
<1>11. Stored(cfile, b)'
  <2>1. PICK f \in 1 .. Files : f = cfile
    BY <1>3
  <2>2. PICK d \in Nat : d = b - 1
    BY <1>9
  <2>3. d < BlocksOf(f) /\ d + 1 = b /\ Stored(f, d) /\ Read = Body(f, d + 1)
    BY <1>8, <1>9, <1>10, <2>1, <2>2
  <2>4. Stored(f, d + 1)'
    BY <1>1, <1>10, <2>3, DataStored
  <2> QED BY <1>1, <2>1, <2>3, <2>4
<1>12. Seen' = <<>> /\ line' = <<>> /\ Clean(line')
  <2>1. Seen' = line' /\ line' = <<>>
    BY <1>1, <1>4, <1>8, <1>9, <1>10, BodyTaken
  <2> QED BY <2>1, EmptyLine
<1>13. Atmost(back, <<"ACK">>)'
  <2>1. back' = <<"ACK">>
    BY <1>1, <1>8 DEF Say
  <2> QED BY <2>1 DEF Atmost
<1>14. Transmitting'
  <2>1. PacketTaken'
    BY <1>1, <1>8, <1>11, <1>12, <1>13 DEF PacketTaken
  <2> QED BY <1>1, <1>3, <2>1 DEF Transmitting
<1> QED BY <1>1, <1>8, <1>12, <1>14 DEF Sync, Clean, Ended

\* A refused write spoils nothing of what was received, and seven CAN are no
\* acknowledgement.
LEMMA SyncDataRefused ==
  ASSUME Types, Sync, DataRefused
  PROVE  Sync'
<1>1. /\ rp' = "failed" /\ rp = "body" /\ trouble' = TRUE
      /\ UNCHANGED <<cur, cfile, session, sp, fblk>>
      /\ Say([i \in 1 .. 7 |-> "CAN"]) /\ dl' \in {dl, Written(Read)}
  BY DEF DataRefused, send
<1>2. Unanswered /\ ReceivedPrefix
  BY <1>1, SyncUnanswered, PrefixHolds
<1>3. ReceivedPrefix'
  <2>1. Content(cfile)' = Content(cfile)
    BY <1>1, Frame
  <2>2. \A a \in 0 .. cur - 1 : dl'[a] = dl[a]
    <3>1. cur \in Nat /\ 0 .. cur - 1 \subseteq DOMAIN dl /\ PartLen \in Nat
      BY YmodemAssumption DEF Types, TypeOK
    <3>2. \A a \in 0 .. cur - 1 : a \notin cur .. cur + Len(Read) - 1
      BY <3>1
    <3>3. \A a \in 0 .. cur - 1 : Written(Read)[a] = dl[a]
      BY <3>1, <3>2 DEF Written
    <3> QED BY <1>1, <3>3
  <2> QED BY <1>1, <1>2, <2>1, <2>2 DEF ReceivedPrefix
<1>4. Unanswered'
  <2> DEFINE s == [i \in 1 .. 7 |-> "CAN"]  n == Len(back)
  <2>1. Say(s) /\ s \in Seq(Answers) /\ Len(s) = 7 /\ \A i \in 1 .. 7 : s[i] = "CAN"
    BY <1>1 DEF Answers
  <2> HIDE DEF s
  <2>2. /\ DOMAIN back' = 1 .. n + Len(s) /\ \A i \in 1 .. n : back'[i] = back[i]
        /\ \A i \in 1 .. Len(s) : back'[n + i] = s[i]
    BY <2>1, SayFacts
  <2>3. n \in Nat /\ DOMAIN back = 1 .. n
    BY TypeFacts
  <2> HIDE DEF n
  <2>4. ASSUME NEW i \in DOMAIN back', back'[i] = "ACK" PROVE i \in DOMAIN back /\ back[i] = "ACK"
    <3>1. i \in 1 .. n \/ (i - n \in 1 .. 7 /\ n + (i - n) = i)
      BY SMTT(30), <2>1, <2>2, <2>3
    <3>2. ~ (i - n \in 1 .. 7 /\ n + (i - n) = i)
      BY <2>1, <2>2, <2>4
    <3> QED BY <2>2, <2>3, <2>4, <3>1, <3>2
  <2> QED BY <1>1, <1>2, <2>4 DEF Unanswered
<1> QED BY <1>1, <1>3, <1>4, ExcusedStays DEF Sync, Failed, Ended

\* What stands where packet 0 of the next file or the last packet is read.
LEMMA NextBody ==
  ASSUME Types, Sync, rp = "nextbody", Len(line) >= Need, Good(Read), line' \in Left, rp' \notin Reading
  PROVE  /\ line' = <<>> /\ Seen' = <<>> /\ Clean(line')
         /\ \/ LastSent /\ Read[1][2] = 0 /\ Read[1][3] = 0
            \/ NextSent /\ Read[1][2] # 0 /\ Read[1][3] = 0 /\ Owner(Read) = cfile + 1
<1>1. Finishing /\ rp \in Reading /\ cfile \in 1 .. Files
  BY Where, TypeFacts DEF Reading, Finishing
<1>2. PICK f : f \in {0, cfile + 1} /\ Exists(f, 0) /\ Whole(Seen, f, 0)
               /\ ((f = 0 /\ LastSent) \/ (f # 0 /\ NextSent))
  <2>1. Exists(0, 0) /\ (NextSent => Exists(cfile + 1, 0))
    BY TypeFacts DEF Exists, NextSent
  <2>2. LastSent \/ NextSent
    BY <1>1 DEF Finishing, FirstEot, EotAgain, EotTaken, Asked
  <2>3. cfile + 1 # 0
    BY <1>1
  <2>4. LastSent => Whole(Seen, 0, 0)
    BY DEF LastSent
  <2>5. NextSent => Whole(Seen, cfile + 1, 0)
    BY DEF NextSent
  <2> QED BY <2>1, <2>2, <2>3, <2>4, <2>5
<1>3. At(Seen, 1, f, 0)
  BY <1>2 DEF Whole
<1>4. Need = PacketLen(f, 0) /\ Read[1] = Unit(f, 0, 1) /\ Owner(Read) = f
  BY <1>1, <1>2, <1>3, TypeFacts, BodyRead
<1>5. Seen' = line' /\ line' = <<>>
  BY <1>1, <1>2, <1>3, <1>4, BodyTaken
<1>6. Read[1][2] = f /\ Read[1][3] = 0
  BY <1>4 DEF Unit
<1> QED BY <1>2, <1>4, <1>5, <1>6, EmptyLine

\* The next packet 0 starts a file, or ends the session.
LEMMA SyncNextFile ==
  ASSUME Types, Sync, NextFile \/ Finished
  PROVE  Sync'
<1>1. rp = "nextbody" /\ Len(line) >= Need /\ Good(Read) /\ line' \in Left /\ rp' \notin Reading /\ Finishing
      /\ UNCHANGED <<cur, dl, session, sp, fblk, trouble>>
  BY Where DEF NextFile, Finished, Reading, send
<1>2. /\ line' = <<>> /\ Seen' = <<>> /\ Clean(line')
      /\ \/ LastSent /\ Read[1][2] = 0 /\ Read[1][3] = 0
         \/ NextSent /\ Read[1][2] # 0 /\ Read[1][3] = 0 /\ Owner(Read) = cfile + 1
  BY <1>1, NextBody
<1>3. CASE NextFile
  <2>1. NextSent /\ cfile' = cfile + 1 /\ rp' = "begin" /\ back' = back
    BY <1>2, <1>3 DEF NextFile
  <2>2. OnlyCopies(line, cfile)' /\ OnlyC(back)'
    <3>1. OnlyCopies(line', cfile')
      BY <1>2, EmptyLine
    <3> QED BY <1>1, <2>1, <3>1, Frame DEF OnlyC, NextSent
  <2>3. fblk = <<cfile + 1, 0>> /\ sp = "hdr"
    BY <2>1 DEF NextSent
  <2>4. Beginning'
    BY <1>1, <2>1, <2>2, <2>3 DEF Beginning
  <2> QED BY <1>1, <1>2, <2>1, <2>3, <2>4 DEF Sync, Clean, Ended
<1>4. CASE Finished
  <2>1. LastSent /\ cfile' = cfile /\ rp' = "done"
    BY <1>2, <1>4 DEF Finished
  <2>2. sp = "last" /\ cfile = Files /\ Stored(cfile, BlocksOf(cfile))
    BY <1>1, <2>1 DEF LastSent, Finishing
  <2>3. Stored(cfile, BlocksOf(cfile))'
    BY <1>1, <2>1, <2>2, Frame, StoredSame
  <2>4. Done'
    BY <1>1, <2>1, <2>2, <2>3, Frame DEF Done
  <2> QED BY <1>1, <1>2, <2>1, <2>4 DEF Sync, Clean, Ended
<1> QED BY <1>3, <1>4

\* The receiver's steps.
LEMMA SyncReceiver ==
  ASSUME Types, Dependable, Sync, Receiver
  PROVE  Sync'
BY SyncHello, SyncHelloCode, SyncBodyFails, SyncTimeout, SyncHeader, SyncBeginFails, SyncBegin, SyncCode,
   SyncIgnore, SyncData, SyncDataRefused, SyncSecondEot, SyncNextCode, SyncNextFile
DEF Receiver

-----------------------------------------------------------------------------
(* Sync is inductive: the steps of the sender.                             *)

\* Concatenation puts one sequence behind another.
LEMMA JoinIs ==
  ASSUME NEW T, NEW u \in Seq(T), NEW s \in Seq(T)
  PROVE  Joined(u \o s, u, s)
<1> DEFINE m == Len(u)  n == Len(s)  v == u \o s
<1>1. m \in Nat /\ n \in Nat
  BY LenProperties
<1>2. Len(v) = m + n /\ \A i \in 1 .. m + n : v[i] = IF i <= m THEN u[i] ELSE s[i - m]
  BY ConcatProperties
<1> HIDE DEF m, n, v
<1>3. \A i \in 1 .. m : i \in 1 .. m + n /\ i <= m
  BY <1>1
<1>4. \A i \in 1 .. n : m + i \in 1 .. m + n /\ ~ (m + i <= m) /\ (m + i) - m = i
  BY <1>1
<1>5. \A i \in 1 .. m : v[i] = u[i]
  BY <1>2, <1>3
<1>6. \A i \in 1 .. n : v[m + i] = s[i]
  BY <1>2, <1>4
<1> QED BY <1>2, <1>5, <1>6 DEF Joined, m, n, v

\* What is sent is put at the end of the line.
LEMMA SendFacts ==
  ASSUME Types, NEW s \in Seq(Tokens(Files)), Send(s), rp \notin Ended, UNCHANGED recv
  PROVE  /\ Joined(Seen', Seen, s) /\ Len(Seen) \in Nat /\ line' = line \o s
         /\ Clean(line) /\ Clean(s) => Clean(line')
         /\ Seen = <<>> => Seen' = s
         /\ s = <<>> => Seen' = Seen
<1>1. line \in Seq(Tokens(Files)) /\ line' = line \o s /\ rp' = rp /\ long' = long
  BY TypeFacts DEF Send, recv
<1>2. Clean(line) /\ Clean(s) => Clean(line')
  BY <1>1, CleanFacts
<1> DEFINE h == <<Char(IF long THEN "STX" ELSE "SOH")>>
<1>3. h \in Seq(Tokens(Files))
  BY DEF Tokens, Chars
<1>4. Seen \in Seq(Tokens(Files)) /\ Seen' = Seen \o s
  <2>1. CASE rp \notin Reading
    BY <1>1, <2>1 DEF Seen
  <2>2. CASE rp \in Reading
    <3>1. Seen = h \o line /\ Seen' = h \o (line \o s)
      BY <1>1, <2>2 DEF Seen
    <3> HIDE DEF h
    <3>2. h \o (line \o s) = (h \o line) \o s /\ h \o line \in Seq(Tokens(Files))
      BY <1>1, <1>3, ConcatAssociative, ConcatProperties
    <3> QED BY <3>1, <3>2
  <2> QED BY <2>1, <2>2
<1> HIDE DEF h
<1>5. Len(Seen) \in Nat
  BY <1>4, LenProperties
<1>6. Joined(Seen', Seen, s)
  BY <1>4, JoinIs
<1>7. Seen = <<>> => Seen' = s
  BY <1>4, ConcatEmptySeq
<1>8. s = <<>> => Seen' = Seen
  BY <1>4, ConcatEmptySeq
<1> QED BY <1>1, <1>2, <1>5, <1>6, <1>7, <1>8

\* A packet that exists is clean.
LEMMA PacketClean ==
  ASSUME Types, NEW f, NEW b, Exists(f, b)
  PROVE  /\ Packet(f, b) \in Seq(Tokens(Files)) /\ Clean(Packet(f, b))
         /\ Whole(Packet(f, b), f, b)
<1> DEFINE P == Packet(f, b)  n == PacketLen(f, b)
<1>1. /\ n \in Nat /\ n >= 1 /\ P \in Seq(Tokens(Files)) /\ Len(P) = n + 1
      /\ P[1] = HeadOf(n) /\ \A i \in 1 .. n : P[1 + i] = Unit(f, b, i)
  BY TypeFacts, PacketFacts
<1>2. DOMAIN P = 1 .. n + 1
  BY <1>1, LenProperties
<1> HIDE DEF P
<1>3. Clean(P)
  <2> HIDE DEF n
  <2>1. ASSUME NEW i \in 1 .. n + 1 PROVE P[i] # Bad
    <3>1. i = 1 \/ (i - 1 \in 1 .. n /\ 1 + (i - 1) = i)
      BY <1>1
    <3>2. CASE i = 1
      BY <1>1, <3>2, Heads
    <3>3. CASE i - 1 \in 1 .. n /\ 1 + (i - 1) = i
      <4>1. P[1 + (i - 1)] = Unit(f, b, i - 1)
        BY <1>1, <3>3
      <4> QED BY <3>3, <4>1, Heads
    <3> QED BY <3>1, <3>2, <3>3
  <2> QED BY <1>2, <2>1 DEF Clean
<1>4. Whole(P, f, b)
  <2>1. 1 + n <= Len(P) /\ Len(P) = n + 1
    BY <1>1
  <2> QED BY <1>1, <2>1 DEF Whole, At
<1> QED BY <1>1, <1>3, <1>4 DEF P

\* The end of a file on its way.
LEMMA EotFacts ==
  /\ Clean(Eot) /\ \A n : Eot \in Seq(Tokens(n))
  /\ <<Char("EOT")>> = Eot
BY DEF Eot, Clean, Char, Bad, Tokens, Chars

\* A session that has ended goes on for the sender alone.
LEMMA SyncEndedSender ==
  ASSUME Types, Sync, rp \in Ended, Sender
  PROVE  Sync'
<1>1. UNCHANGED recv /\ UNCHANGED <<rp, cur, dl, cfile, session>> /\ line' = line
  BY DEF Sender, SenderStarts, SenderHears, SenderTimeout, SendAgain, GoesTo, Send, Proceed, Offer, recv
<1>2. (trouble => trouble') /\ (Excused => Excused')
  <2>1. trouble' = trouble \/ trouble' = TRUE
    BY DEF Sender, SenderStarts, SenderHears, SenderTimeout, SendAgain
  <2> QED BY <2>1, ExcusedStays
<1>3. CASE Done
  <2>1. sp \in {"last", "done", "gaveup"}
    BY <1>3 DEF Done
  <2>2. sp' \in {"last", "done", "gaveup"}
    <3>1. ~SenderStarts
      BY <2>1 DEF SenderStarts
    <3>2. SenderTimeout => sp' \in {"last", "done", "gaveup"}
      BY <2>1 DEF SenderTimeout, SendAgain
    <3>3. SenderHears => sp' \in {"last", "done", "gaveup"}
      BY <2>1 DEF SenderHears, SendAgain, GoesTo
    <3> QED BY <3>1, <3>2, <3>3 DEF Sender
  <2>3. Done'
    <3>1. Stored(cfile, BlocksOf(cfile))'
      BY <1>1, <1>3, Frame, StoredSame DEF Done
    <3> QED BY <1>1, <1>3, <2>2, <3>1, Frame DEF Done
  <2> QED BY <1>1, <1>2, <2>3 DEF Sync, Clean, Ended
<1>4. CASE Failed
  <2>1. ReceivedPrefix'
    <3>1. Content(cfile)' = Content(cfile)
      BY <1>1, Frame
    <3> QED BY <1>1, <1>4, <3>1 DEF Failed, ReceivedPrefix
  <2>2. Unanswered /\ back \in Seq(Answers) /\ Len(back) \in Nat /\ DOMAIN back = 1 .. Len(back)
    BY <1>4, TypeFacts DEF Failed
  <2>3. /\ back # <<>> => /\ Len(Tail(back)) = Len(back) - 1 /\ DOMAIN Tail(back) = 1 .. Len(back) - 1
                          /\ \A i \in 1 .. Len(back) - 1 : Tail(back)[i] = back[i + 1]
                          /\ Len(back) >= 1 /\ Head(back) = back[1]
        /\ DOMAIN <<>> = {}
    BY <2>2, HeadTailProperties, LenProperties
  <2>4. ASSUME back # <<>>, sp # "gaveup"
        PROVE  /\ \A i, j \in DOMAIN Tail(back) : Tail(back)[i] = "ACK" /\ Tail(back)[j] = "ACK" => i = j
               /\ Head(back) = "ACK" \/ sp \in {"next", "last"} => \A i \in DOMAIN Tail(back) : Tail(back)[i] # "ACK"
               /\ sp \in {"next", "last"} => Head(back) # "ACK"
    <3> DEFINE n == Len(back)
    <3>1. /\ n \in Nat /\ n >= 1 /\ DOMAIN back = 1 .. n /\ DOMAIN Tail(back) = 1 .. n - 1
          /\ \A i \in 1 .. n - 1 : Tail(back)[i] = back[i + 1]
          /\ \A i, j \in 1 .. n : back[i] = "ACK" /\ back[j] = "ACK" => i = j
          /\ sp \in {"next", "last"} => \A i \in 1 .. n : back[i] # "ACK"
          /\ Head(back) = back[1]
      BY <2>2, <2>3, <2>4 DEF Unanswered
    <3> HIDE DEF n
    <3>2. 1 \in 1 .. n /\ \A i \in 1 .. n - 1 : i + 1 \in 1 .. n /\ i + 1 # 1
      BY <3>1
    <3>3. ASSUME NEW i \in 1 .. n - 1, NEW j \in 1 .. n - 1, Tail(back)[i] = "ACK", Tail(back)[j] = "ACK"
          PROVE  i = j
      <4>1. i + 1 = j + 1
        BY <3>1, <3>2, <3>3
      <4> QED BY <4>1
    <3>4. Head(back) = "ACK" \/ sp \in {"next", "last"} => \A i \in 1 .. n - 1 : Tail(back)[i] # "ACK"
      BY <3>1, <3>2
    <3> QED BY <3>1, <3>2, <3>3, <3>4
  <2>5. Unanswered'
    <3>1. CASE SenderStarts
      BY <2>2, <2>3, <2>4, <3>1 DEF SenderStarts, GoesTo, Unanswered
    <3>2. CASE SenderTimeout
      BY <2>2, <2>3, <3>2 DEF SenderTimeout, SendAgain, Unanswered
    <3>3. CASE SenderHears
      <4>1. back # <<>> /\ back' = Tail(back) /\ sp \notin {"idle", "done", "gaveup"}
        BY <3>3 DEF SenderHears
      <4>2. /\ sp' # "done"
            /\ sp' \in {"next", "last"} => Head(back) = "ACK" \/ sp \in {"next", "last"}
        BY <2>4, <3>3, <4>1 DEF SenderHears, SendAgain, GoesTo, Proceed, Offer
      <4> QED BY <2>4, <4>1, <4>2 DEF Unanswered
    <3> QED BY <3>1, <3>2, <3>3 DEF Sender
  <2> QED BY <1>1, <1>2, <1>4, <2>1, <2>5 DEF Sync, Failed, Ended
<1> QED BY <1>3, <1>4, Where DEF Ended

\* Packet 0 that is sent again is put behind its other copies.
LEMMA SendCopy ==
  ASSUME Types, rp \notin Ended, UNCHANGED recv, NEW f \in 1 .. Files, OnlyCopies(Seen, f), Send(Packet(f, 0))
  PROVE  OnlyCopies(Seen', f) /\ (Clean(line) => Clean(line'))
<1>1. Exists(f, 0)
  BY TypeFacts DEF Exists
<1>2. /\ PacketLen(f, 0) \in Nat /\ PacketLen(f, 0) >= 1
      /\ Packet(f, 0) \in Seq(Tokens(Files)) /\ Len(Packet(f, 0)) = PacketLen(f, 0) + 1
      /\ Packet(f, 0)[1] = HeadOf(PacketLen(f, 0))
      /\ \A i \in 1 .. PacketLen(f, 0) : Packet(f, 0)[1 + i] = Unit(f, 0, i)
  BY <1>1, TypeFacts, PacketFacts
<1>3. Joined(Seen', Seen, Packet(f, 0)) /\ Len(Seen) \in Nat /\ (Clean(line) => Clean(line'))
  BY <1>1, <1>2, SendFacts, PacketClean
<1> QED BY <1>2, <1>3, JoinCopies

\* The sender repeats packet 0 while the line holds copies of it.
LEMMA OfferAgain ==
  ASSUME Types, rp \notin Ended, UNCHANGED <<recv, session>>, sp = "hdr", fblk[2] = 0, OnlyCopies(Seen, fblk[1]),
         SendAgain
  PROVE  /\ OnlyCopies(Seen', fblk[1]) /\ fblk' = fblk
         /\ Clean(line) => Clean(line')
         /\ (sp' = sp /\ trouble' = trouble) \/ (sp' = "gaveup" /\ trouble' = TRUE)
<1>1. Pending = Packet(fblk[1], 0)
  BY DEF Pending
<1>2. CASE retries < MaxRetries
  <2>1. Send(Packet(fblk[1], 0)) /\ UNCHANGED <<sp, fblk, trouble>>
    BY <1>1, <1>2 DEF SendAgain
  <2>2. PICK f \in 1 .. Files : f = fblk[1]
    BY TypeFacts
  <2>3. Send(Packet(f, 0)) /\ OnlyCopies(Seen, f) /\ UNCHANGED recv
    BY <2>1, <2>2
  <2>4. OnlyCopies(Seen', f) /\ (Clean(line) => Clean(line'))
    BY <2>3, SendCopy
  <2> QED BY <2>1, <2>2, <2>4
<1>3. CASE ~ (retries < MaxRetries)
  <2>1. sp' = "gaveup" /\ trouble' = TRUE /\ UNCHANGED <<fblk, line>>
    BY <1>3 DEF SendAgain
  <2>2. Seen' = Seen
    BY <2>1 DEF Seen, recv
  <2> QED BY <2>1, <2>2
<1> QED BY <1>2, <1>3

\* What the sender makes of the next answer.
LEMMA HearsFacts ==
  ASSUME Types, SenderHears
  PROVE  /\ UNCHANGED recv /\ UNCHANGED <<rp, stage, cur, dl, cfile, session>>
         /\ Len(back) >= 1 /\ Head(back) = back[1] /\ back' = Tail(back)
         /\ DOMAIN back = 1 .. Len(back) /\ DOMAIN back' = 1 .. Len(back) - 1 /\ Len(back') = Len(back) - 1
         /\ \A i \in 1 .. Len(back) - 1 : back'[i] = back[i + 1]
         /\ Len(back) = 1 => back' = <<>>
         /\ sp \notin {"idle", "done", "gaveup"}
<1>1. back \in Seq(Answers) /\ back # <<>> /\ back' = Tail(back) /\ UNCHANGED <<recv, session>>
      /\ sp \notin {"idle", "done", "gaveup"}
  BY TypeFacts DEF SenderHears
<1>2. /\ Len(back) >= 1 /\ Head(back) = back[1] /\ Len(back) \in Nat
      /\ Tail(back) \in Seq(Answers) /\ Len(Tail(back)) = Len(back) - 1
      /\ \A i \in 1 .. Len(back) - 1 : Tail(back)[i] = back[i + 1]
  BY <1>1, HeadTailProperties, LenProperties
<1>3. DOMAIN back = 1 .. Len(back) /\ DOMAIN Tail(back) = 1 .. Len(back) - 1
  BY <1>1, <1>2, LenProperties
<1>4. Len(back) = 1 => Tail(back) = <<>>
  <2> DEFINE u == Tail(back)
  <2>1. u \in Seq(Answers) /\ (Len(back) = 1 => Len(u) = 0)
    BY <1>2
  <2> HIDE DEF u
  <2>2. Len(u) = 0 => u = <<>>
    BY <2>1, EmptySeq
  <2> QED BY <2>1, <2>2 DEF u
<1> QED BY <1>1, <1>2, <1>3, <1>4 DEF recv

\* The sender answers the first C with packet 0.
LEMMA SyncStarts ==
  ASSUME Types, Sync, rp \notin Ended, SenderStarts
  PROVE  Sync'
<1>1. /\ sp = "idle" /\ sp' = "hdr" /\ fblk' = <<1, 0>> /\ Send(Packet(1, 0))
      /\ UNCHANGED recv /\ UNCHANGED <<rp, stage, cur, cfile, session, trouble>>
      /\ back' \in {<<>>, Tail(back)} /\ back # <<>>
  BY DEF SenderStarts, GoesTo, recv
<1>2. Handshake
  BY <1>1 DEF Sync, Beginning, Established, Offered, Taken, FirstSent, NothingSent, Transmitting, PacketSent,
              PacketTaken, FileSent, Finishing, FirstEot, EotAgain, EotTaken, Asked, LastSent, NextSent,
              Done, Failed, Ended
<1>3. OnlyCopies(Seen', 1) /\ (Clean(line) => Clean(line'))
  <2>1. 1 \in 1 .. Files /\ OnlyCopies(Seen, 1)
    BY <1>2, TypeFacts DEF Handshake
  <2> QED BY <1>1, <2>1, SendCopy
<1>4. OnlyC(back)'
  <2>1. DOMAIN Tail(back) = 1 .. Len(back) - 1 /\ \A i \in 1 .. Len(back) - 1 : Tail(back)[i] = back[i + 1]
    BY <1>1, TypeFacts, HeadTailProperties, LenProperties
  <2>2. Len(back) \in Nat /\ \A i \in 1 .. Len(back) : back[i] = "C"
    BY <1>2, TypeFacts DEF Handshake, OnlyC
  <2>3. \A i \in 1 .. Len(back) - 1 : Tail(back)[i] = "C"
    <3> DEFINE n == Len(back)
    <3> HIDE DEF n
    <3>1. \A i \in 1 .. n - 1 : i + 1 \in 1 .. n
      BY <2>2 DEF n
    <3> QED BY <2>1, <2>2, <3>1 DEF n
  <2>4. OnlyC(Tail(back)) /\ OnlyC(<<>>)
    BY <2>1, <2>3 DEF OnlyC
  <2> QED BY <1>1, <2>4 DEF OnlyC
<1>5. Handshake'
  <2>1. OnlyCopies(Seen, 1)'
    BY <1>1, <1>3, Frame
  <2> QED BY <1>1, <1>2, <1>4, <2>1 DEF Handshake
<1>6. Excused' \/ Clean(line')
  BY <1>1, <1>3, ExcusedStays DEF Sync
<1> QED BY <1>1, <1>5, <1>6 DEF Sync, Clean, Ended

\* The sender hears a C while packet 0 was not taken yet.
LEMMA HearsHandshake ==
  ASSUME Types, Sync, Handshake \/ Beginning, SenderHears
  PROVE  Sync'
<1>1. /\ UNCHANGED recv /\ UNCHANGED <<rp, stage, cur, dl, cfile, session>>
      /\ Len(back) >= 1 /\ Head(back) = back[1] /\ back' = Tail(back)
      /\ DOMAIN back = 1 .. Len(back) /\ DOMAIN back' = 1 .. Len(back) - 1
      /\ \A i \in 1 .. Len(back) - 1 : back'[i] = back[i + 1]
      /\ sp \notin {"idle", "done", "gaveup"}
  BY HearsFacts
<1>2. sp = "hdr" /\ rp \notin Ended /\ fblk[2] = 0 /\ OnlyC(back) /\ Len(back) \in Nat
  BY <1>1, TypeFacts DEF Handshake, Beginning, Ended
<1>3. OnlyCopies(Seen, fblk[1])
  <2>1. Handshake => fblk[1] = 1
    BY DEF Handshake
  <2>2. Beginning => Seen = line
    BY SeenLine DEF Beginning, Reading
  <2> QED BY <2>1, <2>2 DEF Handshake, Beginning
<1>4. Head(back) = "C"
  <2>1. 1 \in DOMAIN back
    BY <1>1, <1>2
  <2> QED BY <1>1, <1>2, <2>1 DEF OnlyC
<1>5. SendAgain
  BY <1>2, <1>4 DEF SenderHears
<1>6. /\ OnlyCopies(Seen', fblk[1]) /\ fblk' = fblk
      /\ Clean(line) => Clean(line')
      /\ (sp' = sp /\ trouble' = trouble) \/ (sp' = "gaveup" /\ trouble' = TRUE)
  BY <1>1, <1>2, <1>3, <1>5, OfferAgain
<1>7. OnlyC(back)'
  <2> DEFINE n == Len(back)
  <2>1. n \in Nat /\ DOMAIN back' = 1 .. n - 1 /\ (\A i \in 1 .. n : back[i] = "C")
        /\ \A i \in 1 .. n - 1 : back'[i] = back[i + 1]
    BY <1>1, <1>2 DEF OnlyC
  <2> HIDE DEF n
  <2>2. \A i \in 1 .. n - 1 : i + 1 \in 1 .. n
    BY <2>1
  <2> QED BY <2>1, <2>2 DEF OnlyC
<1>8. OnlyCopies(Seen, fblk[1])'
  BY <1>1, <1>6, Frame
<1>9. Handshake => Handshake'
  <2> SUFFICES ASSUME Handshake PROVE Handshake'
    OBVIOUS
  <2>1. fblk[1] = 1 /\ fblk'[1] = 1
    BY <1>6 DEF Handshake
  <2> QED BY <1>1, <1>2, <1>6, <1>7, <1>8, <2>1 DEF Handshake
<1>10. Beginning => Beginning'
  <2> SUFFICES ASSUME Beginning PROVE Beginning'
    OBVIOUS
  <2>1. Seen' = line' /\ cfile' = fblk'[1] /\ rp' = "begin"
    BY <1>1, <1>6, SeenLine DEF Beginning, Reading
  <2> QED BY <1>1, <1>2, <1>6, <1>7, <1>8, <2>1 DEF Beginning
<1>11. Excused' \/ Clean(line')
  BY <1>6, ExcusedStays DEF Sync
<1>12. sp' = "gaveup" => trouble'
  BY <1>2, <1>6
<1> QED BY <1>9, <1>10, <1>11, <1>12 DEF Sync, Clean

\* The sender hears the answers to packet 0 and sends packet 1 or the EOT.
LEMMA HearsEstablished ==
  ASSUME Types, Sync, Established, SenderHears
  PROVE  Sync'
<1> DEFINE n == Len(back)
<1>1. /\ UNCHANGED recv /\ UNCHANGED <<rp, stage, cur, dl, cfile, session>>
      /\ n >= 1 /\ Head(back) = back[1] /\ back' = Tail(back) /\ n \in Nat
      /\ DOMAIN back = 1 .. n /\ DOMAIN back' = 1 .. n - 1 /\ Len(back') = n - 1
      /\ \A i \in 1 .. n - 1 : back'[i] = back[i + 1]
      /\ n = 1 => back' = <<>>
      /\ sp \notin {"idle", "done", "gaveup"}
  BY HearsFacts, TypeFacts
<1>2. /\ rp \in {"code", "body"} /\ rp \notin Ended /\ cfile = fblk[1] /\ cfile \in 1 .. Files
      /\ fblk[2] \in 0 .. BlocksOf(cfile) /\ stage = "ESTABLISHED"
  BY TypeFacts DEF Established, Ended
<1>3. back # <<>> /\ (Offered \/ Taken)
  BY DEF SenderHears, Established, FirstSent, NothingSent
<1>4. OnlyCopies(Seen, cfile) /\ fblk[2] = 0 /\ (Excused \/ Clean(line))
  BY <1>3 DEF Offered, Taken, Sync
<1>5. Stored(cfile, 0)'
  BY <1>1, StoredSame DEF Established
<1>6. ASSUME cfile = fblk'[1], Offered' \/ Taken' \/ FirstSent' \/ NothingSent',
             sp' = "gaveup" => trouble', Clean(line) => Clean(line'), trouble => trouble'
      PROVE  Sync'
  <2>1. Established'
    BY <1>1, <1>2, <1>5, <1>6 DEF Established
  <2>2. Excused' \/ Clean(line')
    BY <1>4, <1>6, ExcusedStays
  <2> QED BY <1>6, <2>1, <2>2 DEF Sync, Clean
<1>7. CASE Offered
  <2>1. sp = "hdr" /\ Answered(back)
    BY SMTT(30), <1>1, <1>7 DEF Offered
  <2> HIDE DEF n
  <2>2. /\ \A i \in 1 .. n : back[i] \in {"C", "ACK"}
        /\ \A i \in 1 .. n : back[i] = "ACK" => i = n \/ (i = n - 1 /\ back[n] = "C")
        /\ Excused \/ (n >= 2 /\ back[n - 1] = "ACK" /\ back[n] = "C")
    BY <1>1, <2>1 DEF Answered, n
  <2>3. CASE Head(back) = "C"
    <3>1. SendAgain
      BY <2>1, <2>3 DEF SenderHears
    <3>2. /\ OnlyCopies(Seen', fblk[1]) /\ fblk' = fblk
          /\ Clean(line) => Clean(line')
          /\ (sp' = sp /\ trouble' = trouble) \/ (sp' = "gaveup" /\ trouble' = TRUE)
      BY <1>1, <1>2, <1>4, <2>1, <3>1, OfferAgain
    <3>3. OnlyCopies(Seen, cfile)'
      BY <1>1, <1>2, <3>2, Frame
    <3>4. ASSUME NEW i \in 1 .. n - 1
          PROVE  back'[i] \in {"C", "ACK"} /\ (back'[i] = "ACK" => i = n - 1 \/ (i = (n - 1) - 1 /\ back'[n - 1] = "C"))
      <4>1. i + 1 \in 1 .. n /\ back'[i] = back[i + 1] /\ i \in Nat
        BY <1>1
      <4>2. n - 1 \in 1 .. n - 1 /\ back'[n - 1] = back[(n - 1) + 1] /\ (n - 1) + 1 = n
        BY <1>1
      <4>3. i + 1 = n => i = n - 1
        BY <1>1
      <4>4. i + 1 = n - 1 => i = (n - 1) - 1
        BY <1>1
      <4> QED BY <2>2, <4>1, <4>2, <4>3, <4>4
    <3>5. Excused \/ (n - 1 >= 2 /\ back'[(n - 1) - 1] = "ACK" /\ back'[n - 1] = "C")
      <4> SUFFICES ASSUME ~Excused PROVE n - 1 >= 2 /\ back'[(n - 1) - 1] = "ACK" /\ back'[n - 1] = "C"
        OBVIOUS
      <4>1. n >= 2 /\ back[n - 1] = "ACK" /\ back[n] = "C"
        BY <2>2
      <4>2. n # 2
        <5>1. n = 2 => n - 1 = 1
          OBVIOUS
        <5> QED BY <1>1, <2>3, <4>1, <5>1
      <4>3. n - 1 >= 2 /\ (n - 1) - 1 \in 1 .. n - 1 /\ n - 1 \in 1 .. n - 1
            /\ ((n - 1) - 1) + 1 = n - 1 /\ (n - 1) + 1 = n
        BY <1>1, <4>1, <4>2
      <4>4. back'[(n - 1) - 1] = back[((n - 1) - 1) + 1] /\ back'[n - 1] = back[(n - 1) + 1]
        BY <1>1, <4>3
      <4> QED BY <4>1, <4>3, <4>4
    <3>6. Answered(back)'
      <4>1. Len(back') = n - 1 /\ DOMAIN back' = 1 .. n - 1 /\ (Excused => Excused')
        BY <1>1, ExcusedStays, <3>2
      <4> QED BY <3>4, <3>5, <4>1 DEF Answered
    <3>7. Offered'
      BY <1>1, <1>4, <2>1, <3>2, <3>3, <3>6 DEF Offered
    <3> QED BY <1>2, <1>6, <3>2, <3>7, <2>1
  <2>4. CASE Head(back) = "ACK"
    <3>1. GoesTo("go", fblk, <<>>) /\ trouble' = trouble
      BY <2>1, <2>4 DEF SenderHears
    <3>2. sp' = "go" /\ fblk' = fblk /\ Send(<<>>)
      BY <3>1 DEF GoesTo
    <3>3. Seen' = Seen /\ (Clean(line) => Clean(line'))
      <4>1. <<>> \in Seq(Tokens(Files))
        OBVIOUS
      <4> QED BY <1>1, <1>2, <3>2, <4>1, SendFacts, EmptyLine
    <3>4. Atmost(back, <<"C">>)'
      <4>1. n = 1 \/ (n = 2 /\ back[2] = "C")
        BY <1>1, <2>2, <2>4
      <4>2. n = 2 => back' = <<"C">>
        <5> SUFFICES ASSUME n = 2 PROVE back' = <<"C">>
          OBVIOUS
        <5>1. back[2] = "C" /\ Len(back') = 1 /\ back'[1] = back[1 + 1]
          BY <1>1, <4>1
        <5>2. back' \in Seq(Answers)
          BY <1>1, HeadTailProperties, TypeFacts, <1>3
        <5>3. Len(<<"C">>) = 1 /\ <<"C">> \in Seq(Answers) /\ <<"C">>[1] = "C"
          BY DEF Answers
        <5> QED BY <5>1, <5>2, <5>3, SeqEqual
      <4>3. n = 1 => Excused
        BY <2>2
      <4> QED BY <1>1, <4>1, <4>2, <4>3, <3>1, ExcusedStays DEF Atmost
    <3>5. OnlyCopies(Seen, cfile)'
      BY <1>1, <1>4, <3>3, Frame
    <3>6. Taken'
      BY <1>1, <1>4, <3>2, <3>4, <3>5 DEF Taken
    <3> QED BY <1>2, <1>6, <3>1, <3>2, <3>3, <3>6
  <2>5. 1 \in 1 .. n
    BY <1>1
  <2> QED BY <1>1, <2>2, <2>3, <2>4, <2>5
<1>8. CASE Taken
  <2>1. sp = "go" /\ back = <<"C">> /\ back' = <<>> /\ Head(back) = "C"
    BY <1>1, <1>3, <1>8 DEF Taken, Atmost
  <2>2. Proceed /\ trouble' = trouble
    BY <2>1 DEF SenderHears
  <2>3. Exists(cfile, 0) /\ BlocksOf(cfile) \in Nat /\ (0 < BlocksOf(cfile) => Exists(cfile, 1))
    BY <1>2, TypeFacts DEF Exists
  <2>4. PacketLen(cfile, 0) \in Nat /\ PacketLen(cfile, 0) >= 1
    BY <2>3, TypeFacts, PacketFacts
  <2>5. CASE 0 < BlocksOf(cfile)
    <3>1. sp' = "data" /\ fblk' = <<cfile, 1>> /\ Send(Packet(cfile, 1))
      <4>1. GoesTo("data", <<fblk[1], fblk[2] + 1>>, Packet(fblk[1], fblk[2] + 1))
        BY <1>2, <1>4, <2>2, <2>5 DEF Proceed
      <4>2. fblk[1] = cfile /\ fblk[2] + 1 = 1
        BY <1>2, <1>4
      <4> QED BY <4>1, <4>2 DEF GoesTo
    <3>2. /\ PacketLen(cfile, 1) \in Nat /\ PacketLen(cfile, 1) >= 1
          /\ Packet(cfile, 1) \in Seq(Tokens(Files)) /\ Len(Packet(cfile, 1)) = PacketLen(cfile, 1) + 1
          /\ Packet(cfile, 1)[1] = HeadOf(PacketLen(cfile, 1))
          /\ \A i \in 1 .. PacketLen(cfile, 1) : Packet(cfile, 1)[1 + i] = Unit(cfile, 1, i)
      BY <2>3, <2>5, TypeFacts, PacketFacts
    <3>3. Joined(Seen', Seen, Packet(cfile, 1)) /\ Len(Seen) \in Nat /\ (Clean(line) => Clean(line'))
      BY <1>1, <1>2, <2>3, <2>5, <3>1, <3>2, SendFacts, PacketClean
    <3>4. ThenData(Seen', cfile)
      BY <1>4, <2>4, <3>2, <3>3, JoinData
    <3>5. ThenData(Seen, cfile)'
      BY <1>1, <3>4, Frame
    <3>6. FirstSent'
      BY <1>1, <2>1, <3>1, <3>5 DEF FirstSent
    <3> QED BY <1>6, <2>2, <3>1, <3>3, <3>6
  <2>6. CASE ~ (0 < BlocksOf(cfile))
    <3>1. sp' = "eot1" /\ fblk' = fblk /\ Send(Eot)
      <4>1. GoesTo("eot1", fblk, <<Char("EOT")>>)
        BY <1>2, <1>4, <2>2, <2>6 DEF Proceed
      <4> QED BY <4>1 DEF GoesTo, Eot
    <3>2. Joined(Seen', Seen, Eot) /\ Len(Seen) \in Nat /\ (Clean(line) => Clean(line'))
      BY <1>1, <1>2, <3>1, SendFacts, EotFacts
    <3>3. ThenEot(Seen', cfile)
      BY <1>4, <2>4, <3>2, JoinEot
    <3>4. ThenEot(Seen, cfile)'
      BY <1>1, <3>3, Frame
    <3>5. BlocksOf(cfile)' = 0
      BY <1>1, <2>3, <2>6, Frame
    <3>6. NothingSent'
      BY <1>1, <1>4, <2>1, <3>1, <3>4, <3>5 DEF NothingSent
    <3> QED BY <1>2, <1>6, <2>2, <3>1, <3>2, <3>6
  <2> QED BY <2>5, <2>6
<1> QED BY SMTT(30), <1>3, <1>7, <1>8

\* The sender hears an acknowledgement and sends the next packet or the EOT.
LEMMA HearsTransmitting ==
  ASSUME Types, Sync, Transmitting, SenderHears
  PROVE  Sync'
<1>1. /\ UNCHANGED recv /\ UNCHANGED <<rp, stage, cur, dl, cfile, session>>
      /\ Len(back) = 1 => back' = <<>>
      /\ Head(back) = back[1] /\ back # <<>>
  BY HearsFacts DEF SenderHears
<1>2. /\ rp \in {"code", "body"} /\ rp \notin Ended /\ cfile = fblk[1] /\ cfile \in 1 .. Files
      /\ fblk[2] \in 0 .. BlocksOf(cfile) /\ stage = "TRANSMITTING" /\ BlocksOf(cfile) \in Nat
  BY TypeFacts DEF Transmitting, Ended
<1>3. /\ sp = "data" /\ fblk[2] > 0 /\ Stored(cfile, fblk[2]) /\ Seen = <<>> /\ back = <<"ACK">>
  BY <1>1 DEF Transmitting, PacketSent, PacketTaken, FileSent, Atmost
<1>4. back' = <<>> /\ Proceed /\ trouble' = trouble
  BY <1>1, <1>3 DEF SenderHears
<1>5. line = <<>> /\ Clean(line)
  <2>1. rp \notin Reading
    <3>1. rp \in Reading => Len(Seen) = Len(line) + 1 /\ Len(line) \in Nat
      BY TypeFacts, SeenReading
    <3> QED BY <1>3, <3>1
  <2> QED BY <1>3, <2>1, SeenLine, EmptyLine
<1>6. \A d : d = fblk[2] => Stored(cfile, d)'
  BY <1>1, <1>3, StoredSame
<1>7. ASSUME cfile = fblk'[1], PacketSent' \/ FileSent', sp' # "gaveup", Clean(line')
      PROVE  Sync'
  BY <1>1, <1>2, <1>7 DEF Sync, Clean, Transmitting
<1>8. CASE fblk[2] < BlocksOf(cfile)
  <2> PICK b : b = fblk[2] + 1
    OBVIOUS
  <2>1. sp' = "data" /\ fblk' = <<cfile, b>> /\ Send(Packet(cfile, b))
    <3>1. GoesTo("data", <<fblk[1], fblk[2] + 1>>, Packet(fblk[1], fblk[2] + 1))
      BY <1>2, <1>4, <1>8 DEF Proceed
    <3> QED BY <1>2, <3>1 DEF GoesTo
  <2>2. Exists(cfile, b) /\ b > 0 /\ b - 1 = fblk[2]
    <3>1. fblk[2] \in Nat /\ b - 1 = fblk[2] /\ b \in Nat /\ b > 0 /\ b <= BlocksOf(cfile)
      BY <1>2, <1>8
    <3> QED BY <1>2, <3>1, TypeFacts DEF Exists
  <2>3. Packet(cfile, b) \in Seq(Tokens(Files)) /\ Clean(Packet(cfile, b)) /\ Whole(Packet(cfile, b), cfile, b)
    BY <2>2, PacketClean
  <2>4. Seen' = Packet(cfile, b) /\ Clean(line')
    BY <1>1, <1>2, <1>3, <1>5, <2>1, <2>3, SendFacts
  <2>5. Whole(Seen', cfile, b)
    BY <2>3, <2>4
  <2>6. PacketSent'
    <3>1. Whole(Seen, cfile, fblk[2])'
      BY <1>1, <2>1, <2>5, Frame
    <3>2. Stored(cfile, fblk[2] - 1)'
      <4>1. Stored(cfile, b - 1)'
        BY <1>6, <2>2
      <4>2. fblk'[2] - 1 = b - 1
        BY <2>1
      <4> QED BY <4>1, <4>2
    <3> QED BY <1>4, <2>1, <2>2, <3>1, <3>2 DEF PacketSent
  <2> QED BY <1>7, <2>1, <2>4, <2>6
<1>9. CASE ~ (fblk[2] < BlocksOf(cfile))
  <2>1. sp' = "eot1" /\ fblk' = fblk /\ Send(Eot)
    <3>1. GoesTo("eot1", fblk, <<Char("EOT")>>)
      BY <1>2, <1>4, <1>9 DEF Proceed
    <3> QED BY <3>1 DEF GoesTo, Eot
  <2>2. Seen' = Eot /\ Clean(line')
    BY <1>1, <1>2, <1>3, <1>5, <2>1, SendFacts, EotFacts
  <2>3. fblk[2] = BlocksOf(cfile)
    BY <1>2, <1>9
  <2>4. FileSent'
    <3>1. BlocksOf(cfile)' = BlocksOf(cfile)
      BY <1>1, Frame
    <3>2. Stored(cfile, fblk[2])'
      <4>1. \A d : d = fblk'[2] => Stored(cfile, d)'
        BY <1>6, <2>1
      <4> QED BY <4>1
    <3> QED BY <1>1, <1>4, <2>1, <2>2, <2>3, <3>1, <3>2 DEF FileSent
  <2> QED BY <1>2, <1>7, <2>1, <2>2, <2>4
<1> QED BY <1>8, <1>9

\* The sender hears the answers to its two EOT and sends the next packet 0.
LEMMA HearsFinishing ==
  ASSUME Types, Sync, Finishing, SenderHears
  PROVE  Sync'
<1>1. /\ UNCHANGED recv /\ UNCHANGED <<rp, stage, cur, dl, cfile, session>>
      /\ Len(back) = 1 => back' = <<>>
      /\ Head(back) = back[1] /\ back # <<>> /\ back' = Tail(back)
  BY HearsFacts DEF SenderHears
<1>2. /\ rp \in {"eot", "next"} /\ rp \notin Ended /\ line = <<>> /\ Seen = <<>> /\ Clean(line)
      /\ fblk = <<cfile, BlocksOf(cfile)>> /\ cfile \in 1 .. Files /\ cfile # 0
      /\ Stored(cfile, BlocksOf(cfile)) /\ (FirstEot \/ EotTaken \/ Asked)
  <2>1. /\ fblk = <<cfile, BlocksOf(cfile)>> /\ cfile # 0 /\ Stored(cfile, BlocksOf(cfile))
        /\ FirstEot \/ EotTaken \/ Asked
    BY <1>1 DEF Finishing, EotAgain, LastSent, NextSent
  <2>2. rp \in {"eot", "next"} /\ line = <<>>
    BY <2>1 DEF FirstEot, EotTaken, Asked
  <2> QED BY <2>1, <2>2, SeenLine, EmptyLine, TypeFacts DEF Ended, Reading
<1>3. Stored(cfile, BlocksOf(cfile))' /\ BlocksOf(cfile)' = BlocksOf(cfile) /\ Files' = Files
  BY <1>1, <1>2, Frame, StoredSame
<1>4. ASSUME sp' # "gaveup", Clean(line'),
             (fblk' = fblk /\ (EotAgain' \/ EotTaken' \/ Asked' \/ LastSent')) \/ NextSent'
      PROVE  Sync'
  <2>1. Finishing'
    BY <1>1, <1>2, <1>3, <1>4 DEF Finishing
  <2> QED BY <1>4, <2>1 DEF Sync, Clean
<1>5. CASE FirstEot
  <2>1. sp = "eot1" /\ rp = "eot" /\ back = <<"NAK">>
    BY <1>1, <1>5 DEF FirstEot, Atmost
  <2>2. GoesTo("eot2", fblk, <<Char("EOT")>>) /\ back' = <<>>
    BY <1>1, <2>1 DEF SenderHears
  <2>3. sp' = "eot2" /\ fblk' = fblk /\ Send(Eot)
    BY <2>2 DEF GoesTo, Eot
  <2>4. line' = Eot
    BY <1>2, <2>3, ConcatEmptySeq, EotFacts DEF Send
  <2>5. EotAgain'
    BY <1>1, <2>1, <2>2, <2>3, <2>4 DEF EotAgain
  <2> QED BY <1>4, <2>3, <2>4, <2>5, EotFacts
<1>6. CASE EotTaken
  <2>1. sp = "eot2" /\ rp = "next" /\ Atmost(back, <<"ACK", "C">>)
    BY <1>6 DEF EotTaken
  <2>2. back = <<"ACK", "C">> \/ (Excused /\ back \in {<<"ACK">>, <<"C">>})
    BY <1>1, <2>1 DEF Atmost
  <2>3. CASE Head(back) = "ACK"
    <3>1. GoesTo("next", fblk, <<>>) /\ trouble' = trouble
      BY <2>1, <2>3 DEF SenderHears
    <3>2. sp' = "next" /\ fblk' = fblk /\ line' = <<>>
      BY <1>2, <3>1, ConcatEmptySeq DEF GoesTo, Send
    <3>3. back' = <<"C">> \/ (Excused /\ back' = <<>>)
      <4>1. Tail(<<"ACK", "C">>) = <<"C">> /\ Len(<<"ACK">>) = 1 /\ <<"C">>[1] = "C"
        OBVIOUS
      <4> QED BY <1>1, <2>2, <2>3, <4>1
    <3>4. Asked'
      BY <1>1, <2>1, <3>1, <3>2, <3>3, ExcusedStays DEF Asked, Atmost
    <3> QED BY <1>4, <3>2, <3>4, EmptyLine
  <2>4. CASE Head(back) = "C"
    <3>1. UNCHANGED <<sp, fblk, line, trouble>>
      BY <2>1, <2>4 DEF SenderHears
    <3>2. Excused /\ back' = <<>>
      <4>1. <<"ACK", "C">>[1] = "ACK" /\ Len(<<"C">>) = 1 /\ <<"ACK">>[1] = "ACK"
        OBVIOUS
      <4> QED BY <1>1, <2>2, <2>4, <4>1
    <3>3. EotTaken'
      BY <1>1, <1>2, <2>1, <3>1, <3>2, ExcusedStays DEF EotTaken, Atmost
    <3> QED BY <1>2, <1>4, <2>1, <3>1, <3>3
  <2>5. Head(back) \in {"ACK", "C"}
    BY <1>1, <2>2
  <2> QED BY <2>3, <2>4, <2>5
<1>7. CASE Asked
  <2>1. sp = "next" /\ rp = "next" /\ back = <<"C">>
    BY <1>1, <1>7 DEF Asked, Atmost
  <2>2. Offer /\ back' = <<>>
    BY <1>1, <2>1 DEF SenderHears
  <2>3. CASE fblk[1] < Files
    <3> DEFINE f == cfile + 1
    <3>1. sp' = "hdr" /\ fblk' = <<f, 0>> /\ Send(Packet(f, 0))
      <4>1. GoesTo("hdr", <<fblk[1] + 1, 0>>, Packet(fblk[1] + 1, 0)) /\ fblk[1] = cfile
        BY <1>2, <2>2, <2>3 DEF Offer
      <4> QED BY <4>1 DEF GoesTo
    <3>2. Exists(f, 0)
      BY <1>2, <2>3, TypeFacts DEF Exists
    <3> HIDE DEF f
    <3>3. Packet(f, 0) \in Seq(Tokens(Files)) /\ Clean(Packet(f, 0)) /\ Whole(Packet(f, 0), f, 0)
      BY <3>2, PacketClean
    <3>4. Seen' = Packet(f, 0) /\ Clean(line')
      BY <1>1, <1>2, <3>1, <3>3, SendFacts
    <3>5. Whole(Seen, cfile + 1, 0)'
      <4>1. Whole(Seen', f, 0)
        BY <3>3, <3>4
      <4>2. f = cfile' + 1
        BY <1>1 DEF f
      <4> QED BY <1>1, <4>1, <4>2, Frame
    <3>6. fblk' = <<cfile' + 1, 0>>
      BY <1>1, <3>1 DEF f
    <3>7. NextSent'
      BY <1>1, <2>1, <2>2, <3>1, <3>5, <3>6 DEF NextSent
    <3> QED BY <1>4, <3>1, <3>4, <3>7
  <2>4. CASE ~ (fblk[1] < Files)
    <3>1. sp' = "last" /\ fblk' = fblk /\ Send(Packet(0, 0))
      BY <2>2, <2>4 DEF Offer, GoesTo
    <3>2. Exists(0, 0)
      BY TypeFacts DEF Exists
    <3>3. Packet(0, 0) \in Seq(Tokens(Files)) /\ Clean(Packet(0, 0)) /\ Whole(Packet(0, 0), 0, 0)
      BY <3>2, PacketClean
    <3>4. Seen' = Packet(0, 0) /\ Clean(line')
      BY <1>1, <1>2, <3>1, <3>3, SendFacts
    <3>5. Whole(Seen, 0, 0)'
      <4>1. Whole(Seen', 0, 0)
        BY <3>3, <3>4
      <4> QED BY <1>1, <4>1, Frame
    <3>6. cfile' = Files'
      BY <1>1, <1>2, <1>3, <2>4, TypeFacts
    <3>7. LastSent'
      BY <1>1, <2>1, <2>2, <3>1, <3>5, <3>6 DEF LastSent
    <3> QED BY <1>4, <3>1, <3>4, <3>7
  <2> QED BY <2>3, <2>4
<1> QED BY <1>2, <1>5, <1>6, <1>7

\* The sender's steps; while the receiver listens its timeout needs the fault
\* "hasty".
LEMMA SyncSender ==
  ASSUME Types, Dependable, Sync, Sender
  PROVE  Sync'
<1>1. CASE rp \in Ended
  BY <1>1, SyncEndedSender
<1>2. CASE rp \notin Ended
  <2>1. ~SenderTimeout
    BY <1>2 DEF SenderTimeout, Dependable
  <2>2. ~Done /\ ~Failed
    BY <1>2 DEF Done, Failed, Ended
  <2>3. SenderHears => Sync'
    BY <2>2, HearsHandshake, HearsEstablished, HearsTransmitting, HearsFinishing DEF Sync
  <2> QED BY <1>2, <2>1, <2>3, SyncStarts DEF Sender
<1> QED BY <1>1, <1>2

-----------------------------------------------------------------------------
(* Sync is inductive: the faults of the line, and the theorems.            *)

\* An answer that is lost leaves the others in their order.
LEMMA MutedFacts ==
  ASSUME Types, NEW i \in DOMAIN back, back' = RemoveAt(back, i), Excused'
  PROVE  /\ back # <<>>
         /\ OnlyC(back) => OnlyC(back)'
         /\ Answered(back) => Answered(back)'
         /\ \A c : Atmost(back, <<c>>) => Atmost(back, <<c>>)'
         /\ Atmost(back, <<"ACK", "C">>) => Atmost(back, <<"ACK", "C">>)'
<1> DEFINE n == Len(back)
<1>1. /\ back \in Seq(Answers) /\ n \in Nat /\ DOMAIN back = 1 .. n /\ i \in 1 .. n
      /\ back' \in Seq(Answers) /\ Len(back') = n - 1
      /\ \A j \in 1 .. n - 1 : back'[j] = IF j < i THEN back[j] ELSE back[j + 1]
  BY TypeFacts, RemoveFacts
<1>2. DOMAIN back' = 1 .. n - 1
  BY <1>1, LenProperties
<1>3. back # <<>>
  BY <1>1
<1> HIDE DEF n
<1>4. \A j \in 1 .. n - 1 : j \in 1 .. n /\ j + 1 \in 1 .. n /\ (j < i \/ j >= i)
  BY <1>1
<1>5. OnlyC(back) => OnlyC(back)'
  BY SMTT(30), <1>1, <1>2, <1>4 DEF OnlyC
<1>6. ASSUME Answered(back) PROVE Answered(back)'
  <2>1. /\ \A j \in 1 .. n : back[j] \in {"C", "ACK"}
        /\ \A j \in 1 .. n : back[j] = "ACK" => j = n \/ (j = n - 1 /\ back[n] = "C")
    BY <1>1, <1>6 DEF Answered, n
  <2>2. \A j \in 1 .. n - 1 : back'[j] \in {"C", "ACK"}
    BY <1>1, <1>4, <2>1
  <2>3. ASSUME NEW j \in 1 .. n - 1, back'[j] = "ACK"
        PROVE  j = n - 1 \/ (j = (n - 1) - 1 /\ back'[n - 1] = "C")
    <3>1. CASE j < i
      <4>1. back[j] = "ACK"
        BY <1>1, <2>3, <3>1
      <4>2. j = n \/ (j = n - 1 /\ back[n] = "C")
        BY <1>4, <2>1, <4>1
      <4> QED BY <1>1, <4>2
    <3>2. CASE ~ (j < i)
      <4>1. back[j + 1] = "ACK"
        BY <1>1, <2>3, <3>2
      <4>2. j + 1 = n \/ (j + 1 = n - 1 /\ back[n] = "C")
        BY <1>4, <2>1, <4>1
      <4>3. CASE j + 1 = n
        BY <1>1, <4>3
      <4>4. CASE j + 1 = n - 1 /\ back[n] = "C"
        <5>1. n - 1 \in 1 .. n - 1 /\ ~ (n - 1 < i) /\ (n - 1) + 1 = n /\ j = (n - 1) - 1
          BY <1>1, <3>2, <4>4
        <5>2. back'[n - 1] = back[(n - 1) + 1]
          BY <1>1, <5>1
        <5> QED BY <4>4, <5>1, <5>2
      <4> QED BY <4>2, <4>3, <4>4
    <3> QED BY <3>1, <3>2
  <2> QED BY <1>1, <1>2, <2>2, <2>3 DEF Answered
<1>7. ASSUME NEW c, Atmost(back, <<c>>) PROVE Atmost(back, <<c>>)'
  <2>1. Len(back) = 1
    BY <1>3, <1>7 DEF Atmost
  <2>2. back' = <<>>
    BY <1>1, <2>1, EmptySeq DEF n
  <2> QED BY <2>2 DEF Atmost
<1>8. ASSUME Atmost(back, <<"ACK", "C">>) PROVE Atmost(back, <<"ACK", "C">>)'
  <2>1. back = <<"ACK", "C">> \/ back = <<"ACK">> \/ back = <<"C">>
    BY <1>3, <1>8 DEF Atmost
  <2>2. CASE back # <<"ACK", "C">>
    <3>1. Len(back) = 1
      BY <2>1, <2>2
    <3>2. back' = <<>>
      BY <1>1, <3>1, EmptySeq DEF n
    <3> QED BY <3>2 DEF Atmost
  <2>3. CASE back = <<"ACK", "C">>
    <3>1. n = 2 /\ back[1] = "ACK" /\ back[2] = "C"
      BY <2>3 DEF n
    <3>2. Len(back') = 1 /\ back'[1] \in {"ACK", "C"}
      BY <1>1, <3>1
    <3>3. PICK c \in {"ACK", "C"} : back'[1] = c
      BY <3>2
    <3>4. back' = <<c>>
      <4>1. Len(<<c>>) = 1 /\ <<c>>[1] = c /\ <<c>> \in Seq(Answers)
        BY DEF Answers
      <4>2. back' \in Seq(Answers)
        BY <1>1
      <4> QED BY <3>2, <3>3, <4>1, <4>2, SeqEqual
    <3>5. back' \in {<<"ACK">>, <<"C">>}
      BY <3>3, <3>4
    <3> QED BY <3>5 DEF Atmost
  <2> QED BY <2>2, <2>3
<1> QED BY SMTT(30), <1>3, <1>5, <1>6, <1>7, <1>8

\* An answer gets lost.
LEMMA SyncMute ==
  ASSUME Types, Sync, rp \notin Ended, UNCHANGED <<recv, send, line>>, trouble' = TRUE,
         NEW i \in DOMAIN back, back' = RemoveAt(back, i)
  PROVE  Sync'
<1>1. UNCHANGED <<rp, stage, long, cur, dl, cfile, session, sp, fblk>> /\ Excused'
  BY ExcusedStays DEF recv, send
<1>2. /\ back # <<>>
      /\ OnlyC(back) => OnlyC(back)'
      /\ Answered(back) => Answered(back)'
      /\ \A c : Atmost(back, <<c>>) => Atmost(back, <<c>>)'
      /\ Atmost(back, <<"ACK", "C">>) => Atmost(back, <<"ACK", "C">>)'
  BY <1>1, MutedFacts
<1>3. Seen' = Seen
  BY <1>1 DEF Seen
<1>4. \A f, b : Stored(f, b)' <=> Stored(f, b)
  BY <1>1, StoredSame
<1> USE Frame
<1>5. Handshake => Handshake'
  BY <1>1, <1>2, <1>3 DEF Handshake
<1>6. Beginning => Beginning'
  BY <1>1, <1>2, <1>3 DEF Beginning
<1>7. Established => Established'
  BY <1>1, <1>2, <1>3, <1>4 DEF Established, Offered, Taken, FirstSent, NothingSent
<1>8. Transmitting => Transmitting'
  BY <1>1, <1>2, <1>3, <1>4 DEF Transmitting, PacketSent, PacketTaken, FileSent
<1>9. Finishing => Finishing'
  BY <1>1, <1>2, <1>3, <1>4 DEF Finishing, FirstEot, EotAgain, EotTaken, Asked, LastSent, NextSent
<1>10. ~Done /\ ~Failed
  BY DEF Done, Failed, Ended
<1> QED BY <1>1, <1>5, <1>6, <1>7, <1>8, <1>9, <1>10 DEF Sync

\* A unit of a body is garbled.
LEMMA SyncGarble ==
  ASSUME Types, Sync, rp \notin Ended, UNCHANGED <<recv, send, back>>, trouble' = TRUE,
         NEW i \in DOMAIN line, IsUnit(line[i]), line' = [line EXCEPT ![i] = Bad]
  PROVE  Sync'
<1>1. UNCHANGED <<rp, stage, long, cur, dl, cfile, session, sp, fblk>> /\ Excused'
  BY ExcusedStays DEF recv, send
<1>2. line \in Seq(Tokens(Files)) /\ Len(line) \in Nat /\ DOMAIN line = 1 .. Len(line)
  BY TypeFacts
<1>3. /\ Garbled(line', line) /\ line # <<>>
      /\ line' \in Seq(Tokens(Files))
  <2>1. Bad \in Tokens(Files)
    BY DEF Tokens
  <2>2. line' \in Seq(Tokens(Files)) /\ Len(line') = Len(line)
        /\ \A j \in 1 .. Len(line) : line'[j] = IF j = i THEN Bad ELSE line[j]
    BY <1>2, <2>1, ExceptSeq
  <2> QED BY <1>2, <2>2 DEF Garbled
<1>4. /\ Garbled(Seen', Seen) /\ Len(Seen) \in Nat /\ (Seen = <<>> => Seen' = <<>>) /\ (Seen # Eot)
  <2>1. CASE rp \notin Reading
    <3>1. Seen = line /\ Seen' = line'
      BY <1>1, <2>1, SeenLine
    <3>2. line # Eot
      BY <1>2, Heads DEF Eot
    <3> QED BY <1>2, <1>3, <3>1, <3>2
  <2>2. CASE rp \in Reading
    <3> DEFINE h == Char(IF long THEN "STX" ELSE "SOH")
    <3>1. h \in Tokens(Files) /\ Seen = <<h>> \o line /\ Seen' = <<h>> \o line'
      BY <1>1, <2>2 DEF Tokens, Chars, Seen
    <3>2. h # Char("EOT")
      BY DEF Char
    <3> HIDE DEF h
    <3>3. <<h>> \in Seq(Tokens(Files)) /\ Len(<<h>>) = 1 /\ <<h>>[1] = h
      BY <3>1
    <3>4. Joined(Seen, <<h>>, line) /\ Joined(Seen', <<h>>, line')
      BY <1>2, <1>3, <3>1, <3>3, JoinIs
    <3> DEFINE k == Len(line)
    <3>5. /\ Len(Seen) = 1 + k /\ Len(Seen') = 1 + k /\ k \in Nat
          /\ Seen[1] = h /\ Seen'[1] = h
          /\ \A j \in 1 .. k : Seen[1 + j] = line[j] /\ Seen'[1 + j] = line'[j]
          /\ \A j \in 1 .. k : line'[j] = line[j] \/ (IsUnit(line[j]) /\ line'[j] = Bad)
      BY <1>2, <1>3, <3>3, <3>4 DEF Joined, Garbled
    <3> HIDE DEF k
    <3>6. ASSUME NEW j \in 1 .. 1 + k PROVE Seen'[j] = Seen[j] \/ (IsUnit(Seen[j]) /\ Seen'[j] = Bad)
      <4>1. j = 1 \/ (j - 1 \in 1 .. k /\ 1 + (j - 1) = j)
        BY <3>5
      <4>2. CASE j - 1 \in 1 .. k /\ 1 + (j - 1) = j
        <5>1. Seen[1 + (j - 1)] = line[j - 1] /\ Seen'[1 + (j - 1)] = line'[j - 1]
          BY <3>5, <4>2
        <5> QED BY <3>5, <4>2, <5>1
      <4> QED BY <3>5, <4>1, <4>2
    <3>7. Seen # Eot /\ Seen # <<>>
      BY <3>2, <3>5 DEF Eot
    <3> QED BY <3>5, <3>6, <3>7 DEF Garbled
  <2> QED BY <2>1, <2>2
<1>5. \A f, b : Stored(f, b)' <=> Stored(f, b)
  BY <1>1, StoredSame
<1>6. (Answered(back) => Answered(back)') /\ \A s : Atmost(back, s) => Atmost(back, s)'
  <2>1. back' = back /\ (Excused => Excused')
    BY <1>1
  <2> QED BY <1>1, <2>1 DEF Answered, Atmost
<1>7. ASSUME NEW f \in 0 .. Files
      PROVE  /\ OnlyCopies(Seen, f) => OnlyCopies(Seen, f)'
             /\ Exists(f, 1) /\ ThenData(Seen, f) => ThenData(Seen, f)'
             /\ ThenEot(Seen, f) => ThenEot(Seen, f)'
             /\ \A b : Exists(f, b) /\ Whole(Seen, f, b) => Whole(Seen, f, b)'
  <2>1. \A b : Exists(f, b) => PacketLen(f, b) \in Nat /\ PacketLen(f, b) >= 1
    BY TypeFacts, PacketFacts
  <2>2. Exists(f, 0)
    BY TypeFacts DEF Exists
  <2>3. /\ OnlyCopies(Seen, f) => OnlyCopies(Seen', f)
        /\ Exists(f, 1) /\ ThenData(Seen, f) => ThenData(Seen', f)
        /\ ThenEot(Seen, f) => ThenEot(Seen', f)
        /\ \A b : Exists(f, b) /\ Whole(Seen, f, b) => Whole(Seen', f, b)
    BY <1>4, <2>1, <2>2, GarbledLine
  <2> QED BY <1>1, <2>3, Frame
<1>8. cfile \in 0 .. Files /\ 0 \in 0 .. Files /\ 1 \in 0 .. Files
  BY TypeFacts
<1>9. Handshake => Handshake'
  BY <1>1, <1>4, <1>6, <1>7, <1>8 DEF Handshake, OnlyC
<1>10. Beginning => Beginning'
  <2> SUFFICES ASSUME Beginning PROVE Beginning'
    OBVIOUS
  <2>1. Seen = line /\ Seen' = line'
    BY <1>1, SeenLine DEF Beginning, Reading
  <2>2. OnlyCopies(line, cfile)'
    BY <1>1, <1>7, <1>8, <2>1 DEF Beginning
  <2> QED BY <1>1, <2>2 DEF Beginning, OnlyC
<1>11. Established => Established'
  <2> SUFFICES ASSUME Established PROVE Established'
    OBVIOUS
  <2>1. Stored(cfile, 0)' /\ (BlocksOf(cfile) = 0 => BlocksOf(cfile)' = 0)
    BY <1>1, <1>5, Frame DEF Established
  <2>2. /\ OnlyCopies(Seen, cfile) => OnlyCopies(Seen, cfile)'
        /\ Exists(cfile, 1) /\ ThenData(Seen, cfile) => ThenData(Seen, cfile)'
        /\ ThenEot(Seen, cfile) => ThenEot(Seen, cfile)'
    BY <1>1, <1>7, <1>8
  <2>3. FirstSent => Exists(cfile, 1)
    BY TypeFacts DEF Established, FirstSent, Exists
  <2>4. (Offered => Offered') /\ (Taken => Taken')
    BY <1>1, <1>6, <2>2 DEF Offered, Taken
  <2>5. FirstSent => FirstSent'
    BY <1>1, <1>4, <2>2, <2>3 DEF FirstSent
  <2>6. NothingSent => NothingSent'
    BY <1>1, <2>1, <2>2 DEF NothingSent
  <2> QED BY <1>1, <2>1, <2>4, <2>5, <2>6 DEF Established
<1>12. Transmitting => Transmitting'
  <2> SUFFICES ASSUME Transmitting PROVE Transmitting'
    OBVIOUS
  <2>1. cfile = fblk[1] /\ Exists(cfile, fblk[2])
    BY TypeFacts DEF Transmitting, Exists
  <2>2. Whole(Seen, cfile, fblk[2]) => Whole(Seen, cfile, fblk[2])'
    BY <1>1, <1>7, <1>8, <2>1
  <2>3. PacketSent => PacketSent'
    BY <1>1, <1>5, <2>2 DEF PacketSent
  <2>4. PacketTaken => PacketTaken'
    BY <1>1, <1>4, <1>5, <1>6 DEF PacketTaken
  <2>5. ~FileSent
    BY <1>4 DEF FileSent
  <2> QED BY <1>1, <2>3, <2>4, <2>5 DEF Transmitting
<1>13. Finishing => Finishing'
  <2> SUFFICES ASSUME Finishing PROVE Finishing'
    OBVIOUS
  <2>1. ~FirstEot /\ ~EotAgain /\ ~EotTaken /\ ~Asked
    <3>1. rp \in {"eot", "next"} => Seen = line
      BY SeenLine DEF Reading
    <3> QED BY <1>3, <1>4, <3>1 DEF FirstEot, EotAgain, EotTaken, Asked
  <2>2. LastSent => LastSent'
    <3>1. Exists(0, 0)
      BY TypeFacts DEF Exists
    <3>2. Whole(Seen, 0, 0) => Whole(Seen, 0, 0)'
      BY <1>7, <1>8, <3>1
    <3> QED BY <1>1, <3>2, Frame DEF LastSent
  <2>3. NextSent => NextSent'
    <3>1. PICK f : f = cfile + 1
      OBVIOUS
    <3>2. NextSent => f \in 0 .. Files /\ Exists(f, 0)
      BY <3>1, TypeFacts DEF NextSent, Exists
    <3>3. NextSent => Whole(Seen, f, 0)'
      BY <1>7, <3>1, <3>2 DEF NextSent
    <3> QED BY <1>1, <3>1, <3>3 DEF NextSent
  <2>4. Stored(cfile, BlocksOf(cfile))' /\ BlocksOf(cfile)' = BlocksOf(cfile)
    BY <1>1, <1>5, Frame DEF Finishing
  <2> QED BY <1>1, <2>1, <2>2, <2>3, <2>4 DEF Finishing
<1>14. ~Done /\ ~Failed
  BY DEF Done, Failed, Ended
<1> QED BY <1>1, <1>9, <1>10, <1>11, <1>12, <1>13, <1>14 DEF Sync

\* The line's steps: of the faults, Dependable leaves these two.
LEMMA SyncLine ==
  ASSUME Types, Dependable, Sync, LineFault \/ Overrun
  PROVE  Sync'
<1>1. LineFault
  BY DEF Overrun, Dependable
<1>2. rp \notin Ended /\ trouble' = TRUE /\ UNCHANGED <<recv, send>>
  BY <1>1 DEF LineFault
<1>3. \/ UNCHANGED line /\ \E i \in DOMAIN back : back' = RemoveAt(back, i)
      \/ UNCHANGED back /\ \E i \in DOMAIN line : IsUnit(line[i]) /\ line' = [line EXCEPT ![i] = Bad]
  BY <1>1 DEF LineFault, Dependable
<1>4. CASE UNCHANGED line /\ \E i \in DOMAIN back : back' = RemoveAt(back, i)
  BY <1>2, <1>4, SyncMute
<1>5. CASE UNCHANGED back /\ \E i \in DOMAIN line : IsUnit(line[i]) /\ line' = [line EXCEPT ![i] = Bad]
  BY <1>2, <1>5, SyncGarble
<1> QED BY <1>3, <1>4, <1>5

\* Every step keeps both ends in step.
LEMMA SyncStep == Types /\ Dependable /\ Sync /\ [Next]_vars => Sync'
BY SyncSame, SyncReceiver, SyncSender, SyncLine DEF Next

\* In every reachable state the two ends, the line and the partition are at
\* the same place of the protocol.
THEOREM InStep ==
  ASSUME Dependable
  PROVE  Spec => [](Types /\ Sync)
BY TypesInit, TypesStep, SyncInit, SyncStep, PTL DEF Spec

\* Whatever answers are lost, bodies garbled and writes refused: the partition
\* holds, up to the write position, the beginning of the file whose packet 0
\* was taken, every packet once and in order, though on_data looks at no number.
THEOREM PrefixReceived ==
  ASSUME Dependable
  PROVE  Spec => []ReceivedPrefix
BY InStep, PrefixHolds, PTL

\* A receiver that is done has stored the whole last file.
LEMMA DoneWhole ==
  ASSUME Types, Sync
  PROVE  SuccessIsWhole /\ SenderKnows
<1>1. rp = "done" => /\ cfile = Files /\ cfile \in 1 .. Files /\ session \in Sessions
                     /\ Stored(cfile, BlocksOf(cfile))
  BY Where, TypeFacts DEF Done
<1>2. SuccessIsWhole
  <2>1. rp = "done" => Content(cfile) = Bodies(cfile, BlocksOf(cfile))
    BY <1>1, BodiesFacts
  <2> QED BY <1>1, <2>1 DEF SuccessIsWhole, Stored
<1>3. SenderKnows
  BY DEF SenderKnows, Sync, Handshake, Beginning, Established, Offered, Taken, FirstSent, NothingSent, Transmitting,
         PacketSent, PacketTaken, FileSent, Finishing, FirstEot, EotAgain, EotTaken, Asked, LastSent, NextSent,
         Done, Failed, Unanswered
<1> QED BY <1>2, <1>3

\* When the receiver reports success, the last file is in the partition, all
\* of it and nothing else.
THEOREM SuccessWhole ==
  ASSUME Dependable
  PROVE  Spec => []SuccessIsWhole
BY InStep, DoneWhole, PTL

\* A sender that heard the last acknowledgement was told the truth, even when
\* earlier answers were lost and packets repeated.
THEOREM SenderTold ==
  ASSUME Dependable
  PROVE  Spec => []SenderKnows
BY InStep, DoneWhole, PTL

\* With packet numbers that differ and short packets 0 after the first, a
\* session that nobody disturbed does not fail.
THEOREM FailureExcused ==
  ASSUME Dependable, Plain
  PROVE  Spec => []FailsForAReason
<1>1. Sync => FailsForAReason
  BY Where DEF Failed, Excused, FailsForAReason
<1> QED BY <1>1, InStep, PTL

=============================================================================
