----------------------------- MODULE YmodemRecv -----------------------------
(***************************************************************************)
(* One session of the command ymodem_ota: the receiver of ymodem.c with    *)
(* the callbacks of ymodem_ota.c, a sender at the other end of the serial  *)
(* line, and what the line and the flash may do to them.                   *)
(*                                                                         *)
(* The line carries tokens.  A packet is a head, SOH or STX, and a body of *)
(* one or LONG units; a unit is known by the packet it belongs to and its  *)
(* place in it.  A number, its complement and the CRC come with the body:  *)
(* a body is good when it is the body of one packet, whole and in order.   *)
(***************************************************************************)
EXTENDS Integers, Sequences, SequencesExt

CONSTANTS
    Sessions,       \* what a sender may offer, see Session
    LONG,           \* the units of an STX packet (an SOH packet has one)
    SEQ_MOD,        \* 256: packet numbers are bytes
    TM_SEC,         \* handshake_timeout
    PartLen,        \* the units of the partition
    SectorLen,      \* the units of an erase sector
    Faults,         \* what may go wrong, see below
    MaxFaults,      \* bound: tokens that are lost or changed
    MaxRetries      \* how often the sender sends something again

(* announced is the size in packet 0, 0 when the sender leaves it out;     *)
(* blocks are the lengths of the data packets, header that of packet 0.    *)
(* A sender that purges drops what it was sent before it started.          *)
File == [announced : Nat, blocks : Seq({1, LONG}), header : {1, LONG}]
Session == [files : Seq(File), purges : BOOLEAN]

(* "lose": a token for the receiver disappears, "mute": one for the sender.*)
(* "garble": a unit of a body is changed, which its CRC can tell; "noise": *)
(* a head or a code is, which nothing protects.                            *)
(* "stall": the sender is slower than the receiver's timeouts.             *)
(* "hasty": the sender's timeout is shorter than the receiver's.           *)
(* "overrun": what arrives while the flash is erased overruns the 64 bytes *)
(* of the serial driver.  "erase", "write": the flash reports an error.    *)
AllFaults == {"lose", "mute", "garble", "noise", "stall", "hasty", "overrun", "erase", "write"}

ASSUME YmodemAssumption ==
    /\ {SEQ_MOD, TM_SEC, PartLen, SectorLen} \subseteq Nat \ {0}
    /\ LONG \in Nat \ {0, 1}
    /\ MaxFaults \in Nat /\ MaxRetries \in Nat
    /\ Faults \subseteq AllFaults
    /\ \A s \in Sessions : s \in Session /\ s.files # <<>>

VARIABLES
    rp,         \* where the receiver is
    stage,      \* ctx->stage, as far as it is read
    tries,      \* i of the handshake: how many C were sent
    long,       \* is the packet being read an STX packet?
    cur,        \* update_file_cur_size
    dl,         \* the download partition
    cfile,      \* whose packet 0 came last (0: none, or not a packet 0)
    line,       \* from the sender to the receiver
    back,       \* from the receiver to the sender
    session,    \* what the sender offers
    sp,         \* where the sender is
    fblk,       \* the file and the packet it is at
    retries,    \* how often it sent something again
    faults,     \* how many tokens were lost or changed
    trouble     \* has anything happened that excuses a failure?

recv == <<rp, stage, tries, long, cur, dl, cfile>>
send == <<session, sp, fblk, retries>>
vars == <<recv, line, back, send, faults, trouble>>

Ended == {"done", "failed"}

-----------------------------------------------------------------------------
(* Packets.                                                                *)

Char(c) == <<c>>
Noise == <<"noise">>        \* one byte, of any value
Bad == <<"bad">>            \* a unit that was garbled
Junk == <<"junk">>          \* the rest of a unit of which some bytes were read
Unit(f, b, i) == <<"unit", f, b, i>>
IsUnit(t) == t[1] = "unit"

\* Packet b of file f.  Packet 0 names the file, <<0, 0>> ends the session.
PacketLen(f, b) ==
    IF f = 0 THEN 1
    ELSE IF b = 0 THEN session.files[f].header ELSE session.files[f].blocks[b]
Body(f, b) == [i \in 1 .. PacketLen(f, b) |-> Unit(f, b, i)]
Packet(f, b) == <<Char(IF PacketLen(f, b) = LONG THEN "STX" ELSE "SOH")>> \o Body(f, b)

\* All units of file f, in order.
Content(f) == FlattenSeq([b \in DOMAIN session.files[f].blocks |-> Body(f, b)])

\* What _rym_read_code may return, and what it leaves on the line.  A body
\* starts with its number, and 0 is no code; otherwise any byte may come.
AnyCode == {"SOH", "STX", "EOT", "other"}
Codes ==
    CASE Head(line) = Noise -> AnyCode \X {Tail(line)}
      [] Head(line) = Junk -> AnyCode \X {Tail(line), line}
      [] Head(line) = Bad \/ IsUnit(Head(line))
            -> (IF Head(line) # Bad /\ Head(line)[3] % SEQ_MOD = 0 /\ Head(line)[4] = 1
                THEN {"other"} ELSE AnyCode) \X {<<Junk>> \o Tail(line)}
      [] OTHER -> {<<Head(line)[1], Tail(line)>>}

\* How many tokens a body takes: what is left of a unit is less than one.
Need == (IF long /\ rp # "nextbody" THEN LONG ELSE 1)
        + (IF line # <<>> /\ Head(line) = Junk THEN 1 ELSE 0)
Read == SubSeq(line, 1, Need)
\* A body that was put together from other things ends inside of a token.
Left ==
    LET rest == SubSeq(line, Need + 1, Len(line)) IN
    IF \A i \in 1 .. Need : IsUnit(Read[i]) \/ Read[i] = Bad
    THEN {rest} ELSE {rest, <<Junk>> \o rest}

\* The packet numbers a body may show; -1 when the complement does not fit.
Seqs(body) ==
    IF IsUnit(body[1]) /\ body[1][4] = 1 THEN {body[1][3] % SEQ_MOD} ELSE {-1, 0, 1}

\* (mutant: the CRC is not compared)
GoodAny(body) == IsUnit(body[1])
\* The CRC is right.
Good(body) == IsUnit(body[1]) /\ body = Body(body[1][2], body[1][3])

TypeOK ==
    /\ rp \in {"hello", "hs", "hsbody", "begin", "code", "body", "eot", "next", "nextbody"}
              \cup Ended
    /\ stage \in {"ESTABLISHING", "ESTABLISHED", "TRANSMITTING", "FINISHING", "FINISHED"}
    /\ tries \in 0 .. TM_SEC
    /\ long \in BOOLEAN
    /\ cur \in 0 .. PartLen
    /\ DOMAIN dl = 0 .. PartLen - 1
    /\ cfile \in 0 .. Len(session.files)
    /\ session \in Sessions
    /\ sp \in {"idle", "hdr", "go", "data", "eot1", "eot2", "next", "last", "done", "gaveup"}
    /\ fblk[1] \in 1 .. Len(session.files)
    /\ fblk[2] \in 0 .. Len(session.files[fblk[1]].blocks)
    /\ retries \in 0 .. MaxRetries /\ faults \in 0 .. MaxFaults
    /\ trouble \in BOOLEAN

Init ==
    /\ rp = "hello" /\ stage = "ESTABLISHING" /\ tries = 0 /\ long = FALSE
    /\ cur = 0 /\ cfile = 0
    /\ dl = [a \in 0 .. PartLen - 1 |-> Char("old")]
    /\ line = <<>> /\ back = <<>>
    /\ session \in Sessions /\ sp = "idle" /\ fblk = <<1, 0>> /\ retries = 0
    /\ faults = 0 /\ trouble = FALSE

-----------------------------------------------------------------------------
(* The receiver.  Every wait has a timeout, and nothing is asked for again:*)
(* what is not as expected ends the session.                               *)

Say(chars) == back' = back \o chars

\* Nothing comes, because the sender has nothing to answer or is too slow.
Silent == "stall" \in Faults \/ back = <<>> \/ sp = "gaveup"

Fails == rp' = "failed" /\ UNCHANGED <<stage, tries, long, back>>

\* (mutant: one C too many)
MoreTriesLate == tries <= TM_SEC
MoreTries == tries < TM_SEC

\* The loop of _rym_do_handshake.
Hello ==
    /\ rp = "hello" /\ MoreTries
    /\ tries' = tries + 1 /\ Say(<<"C">>) /\ rp' = "hs"
    /\ UNCHANGED <<stage, long, cur, dl, cfile, line, send, faults, trouble>>

HelloFails ==
    /\ rp = "hello" /\ ~MoreTries
    /\ Fails /\ trouble' = TRUE
    /\ UNCHANGED <<cur, dl, cfile, line, send, faults>>

\* A sender that does not stall starts before the last of them has passed.
HelloTimeout ==
    /\ rp = "hs" /\ line = <<>> /\ (tries < TM_SEC \/ Silent)
    /\ rp' = "hello"
    /\ UNCHANGED <<stage, tries, long, cur, dl, cfile, line, back, send, faults, trouble>>

HelloCode ==
    /\ rp = "hs" /\ line # <<>>
    /\ \E r \in Codes :
        /\ line' = r[2]
        /\ rp' = IF r[1] \in {"SOH", "STX"} THEN "hsbody" ELSE "hello"
        /\ long' = IF r[1] \in {"SOH", "STX"} THEN r[1] = "STX" ELSE long
    /\ UNCHANGED <<stage, tries, cur, dl, cfile, back, send, faults, trouble>>

\* (mutant: the receiver waits for the rest of a packet for ever)
TimeoutNever == {"code", "eot", "next"}
\* Where a session waits for a code or for the rest of a packet.
TimeoutAt == {"code", "eot", "next", "hsbody", "body", "nextbody"}

Timeout ==
    /\ rp \in TimeoutAt /\ Silent
    /\ IF rp \in {"code", "eot", "next"} THEN line = <<>> ELSE Len(line) < Need
    /\ Fails /\ trouble' = (trouble \/ (back # <<>> /\ sp # "gaveup"))
    /\ UNCHANGED <<cur, dl, cfile, line, send, faults>>

HeaderFails ==
    /\ rp = "hsbody" /\ Len(line) >= Need
    /\ Seqs(Read) # {0} \/ ~Good(Read)
    /\ Fails
    /\ UNCHANGED <<cur, dl, cfile, line, send, faults, trouble>>

\* Whose packet 0 a good body with number 0 is.
Owner(body) == IF body[1][3] = 0 THEN body[1][2] ELSE 0

Header ==
    /\ rp = "hsbody" /\ Len(line) >= Need
    /\ 0 \in Seqs(Read) /\ Good(Read)
    /\ cfile' = Owner(Read) /\ line' \in Left /\ rp' = "begin"
    /\ UNCHANGED <<stage, tries, long, cur, dl, back, send, faults, trouble>>

-----------------------------------------------------------------------------
(* on_begin: the size is taken from packet 0 (from whatever was taken for  *)
(* one), and the partition is erased.                                      *)

Announced == IF cfile = 0 THEN {0, 1, PartLen + 1} ELSE {session.files[cfile].announced}

\* Whole sectors are erased.  When an erase fails, some of them are.
ErasedUpTo(n) == [a \in DOMAIN dl |-> IF a < n THEN Char("erased") ELSE dl[a]]
SectorsOf(size) == ((size + SectorLen - 1) \div SectorLen) * SectorLen

BeginFails ==
    /\ rp = "begin"
    /\ \E size \in Announced :
        \/ /\ size > PartLen
           /\ UNCHANGED dl
        \/ /\ size <= PartLen /\ "erase" \in Faults
           /\ \E k \in 0 .. SectorsOf(size) \div SectorLen : dl' = ErasedUpTo(k * SectorLen)
    /\ cur' = 0 /\ rp' = "failed" /\ trouble' = TRUE
    /\ UNCHANGED <<stage, tries, long, cfile, line, back, send, faults>>

\* (mutant: the position of the previous file is kept)
BeginCurStale == cur
BeginCur == 0

\* Then _rym_do_trans starts.
Begin ==
    /\ rp = "begin"
    /\ \E size \in Announced : size <= PartLen /\ dl' = ErasedUpTo(SectorsOf(size))
    /\ cur' = BeginCur
    /\ Say(<<"ACK", "C">>) /\ stage' = "ESTABLISHED" /\ rp' = "code"
    /\ UNCHANGED <<tries, long, cfile, line, send, faults, trouble>>

\* The driver keeps the last 64 bytes of what arrives in the meantime.
Overrun ==
    /\ rp = "begin" /\ "overrun" \in Faults
    /\ \E i \in DOMAIN line : IsUnit(line[i])
    /\ line' = <<Junk>>
    /\ UNCHANGED <<recv, back, send, faults, trouble>>

-----------------------------------------------------------------------------
(* _rym_do_trans and on_data.                                              *)

Code ==
    /\ rp = "code" /\ line # <<>>
    /\ \E r \in Codes :
        /\ line' = r[2]
        /\ CASE r[1] \in {"SOH", "STX"} ->
                  rp' = "body" /\ long' = (r[1] = "STX") /\ UNCHANGED <<stage, tries, back>>
             [] r[1] = "EOT" ->
                  rp' = "eot" /\ stage' = "FINISHING" /\ Say(<<"NAK">>) /\ UNCHANGED <<tries, long>>
             [] OTHER -> Fails
    /\ UNCHANGED <<cur, dl, cfile, send, faults, trouble>>

\* (mutant: every packet with number 0 is taken for a repeated packet 0)
RepeatedAlways(seq) == seq = 0
\* A second packet 0, sent in answer to a C that came late.
Repeated(seq) == stage = "ESTABLISHED" /\ seq = 0

Ignore ==
    /\ rp = "body" /\ Len(line) >= Need
    /\ \E seq \in Seqs(Read) : Repeated(seq)
    /\ line' \in Left /\ rp' = "code"
    /\ UNCHANGED <<stage, tries, long, cur, dl, cfile, back, send, faults, trouble>>

DataFails ==
    /\ rp = "body" /\ Len(line) >= Need
    /\ \E seq \in Seqs(Read) :
        \/ seq = -1 /\ UNCHANGED stage
        \/ seq # -1 /\ ~Repeated(seq) /\ ~Good(Read) /\ stage' = "TRANSMITTING"
    /\ rp' = "failed"
    /\ UNCHANGED <<tries, long, cur, dl, cfile, line, back, send, faults, trouble>>

\* NOR flash: what was not erased is spoiled.
Written(units) ==
    [a \in DOMAIN dl |->
        IF a \notin cur .. cur + Len(units) - 1 THEN dl[a]
        ELSE IF dl[a] = Char("erased") THEN units[a - cur + 1] ELSE Char("torn")]

\* (mutant: packets are counted, not their bytes)
AdvancePacket(units) == cur + 1
Advance(units) == cur + Len(units)

Data ==
    /\ rp = "body" /\ Len(line) >= Need
    /\ Good(Read) /\ \E seq \in Seqs(Read) : ~Repeated(seq)
    /\ cur + Need <= PartLen
    /\ dl' = Written(Read) /\ cur' = Advance(Read)
    /\ Say(<<"ACK">>) /\ stage' = "TRANSMITTING" /\ rp' = "code" /\ line' \in Left
    /\ UNCHANGED <<tries, long, cfile, send, faults, trouble>>

\* The write is refused or fails, and the sender is told.
DataRefused ==
    /\ rp = "body" /\ Len(line) >= Need
    /\ Good(Read) /\ \E seq \in Seqs(Read) : ~Repeated(seq)
    /\ cur + Need > PartLen \/ "write" \in Faults
    /\ dl' \in IF cur + Need > PartLen THEN {dl} ELSE {dl, Written(Read)}
    /\ Say([i \in 1 .. 7 |-> "CAN"]) /\ stage' = "TRANSMITTING" /\ rp' = "failed"
    /\ trouble' = TRUE /\ line' \in Left
    /\ UNCHANGED <<tries, long, cur, cfile, send, faults>>

-----------------------------------------------------------------------------
(* _rym_do_fin: EOT is asked for twice, then a packet 0 follows, of the    *)
(* next file or the empty one.                                             *)

SecondEot ==
    /\ rp = "eot" /\ line # <<>>
    /\ \E r \in Codes :
        /\ line' = r[2]
        /\ IF r[1] = "EOT"
           THEN rp' = "next" /\ Say(<<"ACK", "C">>) /\ UNCHANGED <<stage, tries, long>>
           ELSE Fails
    /\ UNCHANGED <<cur, dl, cfile, send, faults, trouble>>

NextCode ==
    /\ rp = "next" /\ line # <<>>
    /\ \E r \in Codes :
        /\ line' = r[2]
        /\ IF r[1] \in {"SOH", "STX"}
           THEN rp' = "nextbody" /\ long' = (r[1] = "STX") /\ UNCHANGED <<stage, tries, back>>
           ELSE Fails
    /\ UNCHANGED <<cur, dl, cfile, send, faults, trouble>>

\* (mutant: the last packet is acknowledged before it is checked)
NextFailsLate == rp' = "failed" /\ Say(<<"ACK">>)
NextFails == rp' = "failed" /\ UNCHANGED back

\* The body is read as that of an SOH packet, whatever the head was.
NextBad ==
    /\ rp = "nextbody" /\ Len(line) >= Need
    /\ Seqs(Read) # {0} \/ ~Good(Read)
    /\ NextFails
    /\ UNCHANGED <<stage, tries, long, cur, dl, cfile, line, send, faults, trouble>>

\* A data packet with number 0 has any first byte.
NextFile ==
    /\ rp = "nextbody" /\ Len(line) >= Need
    /\ 0 \in Seqs(Read) /\ Good(Read)
    /\ Read[1][2] # 0
    /\ cfile' = Owner(Read) /\ rp' = "begin" /\ line' \in Left
    /\ UNCHANGED <<stage, tries, long, cur, dl, back, send, faults, trouble>>

Finished ==
    /\ rp = "nextbody" /\ Len(line) >= Need
    /\ 0 \in Seqs(Read) /\ Good(Read)
    /\ Read[1][2] = 0 \/ Read[1][3] # 0
    /\ stage' = "FINISHED" /\ rp' = "done" /\ Say(<<"ACK">>) /\ line' \in Left
    /\ UNCHANGED <<tries, long, cur, dl, cfile, send, faults, trouble>>

-----------------------------------------------------------------------------
(* The sender, an ordinary Ymodem program: it sends one packet at a time   *)
(* and goes on when that is acknowledged.                                  *)

\* Tokens that are sent when nobody listens are lost.
Send(tokens) == line' = IF rp \in Ended THEN line ELSE line \o tokens

Files == Len(session.files)
BlocksOf(f) == Len(session.files[f].blocks)

\* What the sender has sent last, and sends again when it is not answered.
Pending ==
    CASE sp \in {"hdr", "data"} -> Packet(fblk[1], fblk[2])
      [] sp \in {"eot1", "eot2"} -> <<Char("EOT")>>
      [] sp = "last" -> Packet(0, 0)
      [] OTHER -> <<>>

GoesTo(p, fb, tokens) == sp' = p /\ fblk' = fb /\ Send(tokens) /\ UNCHANGED retries

SenderStarts ==
    /\ sp = "idle" /\ back # <<>> /\ Head(back) = "C"
    /\ GoesTo("hdr", <<1, 0>>, Packet(1, 0))
    /\ back' = IF session.purges THEN <<>> ELSE Tail(back)
    /\ UNCHANGED <<recv, session, faults, trouble>>

SendAgain ==
    IF retries < MaxRetries
    THEN retries' = retries + 1 /\ Send(Pending) /\ UNCHANGED <<sp, fblk, trouble>>
    ELSE sp' = "gaveup" /\ trouble' = TRUE /\ UNCHANGED <<fblk, retries, line>>

\* After a C the next file is offered, or the end.
Offer ==
    IF fblk[1] < Files
    THEN GoesTo("hdr", <<fblk[1] + 1, 0>>, Packet(fblk[1] + 1, 0))
    ELSE GoesTo("last", fblk, Packet(0, 0))

\* After an acknowledgement the next packet is sent, or the end of the file.
Proceed ==
    IF fblk[2] < BlocksOf(fblk[1])
    THEN GoesTo("data", <<fblk[1], fblk[2] + 1>>, Packet(fblk[1], fblk[2] + 1))
    ELSE GoesTo("eot1", fblk, <<Char("EOT")>>)

SenderHears ==
    /\ sp \notin {"idle", "done", "gaveup"} /\ back # <<>>
    /\ back' = Tail(back)
    /\ LET c == Head(back) IN
       CASE c = "CAN" ->
              sp' = "gaveup" /\ UNCHANGED <<fblk, retries, line, trouble>>
         [] sp = "hdr" /\ c = "ACK" -> GoesTo("go", fblk, <<>>) /\ UNCHANGED trouble
         [] sp = "go" /\ c = "C" -> Proceed /\ UNCHANGED trouble
         [] sp = "data" /\ c = "ACK" -> Proceed /\ UNCHANGED trouble
         [] sp = "eot1" /\ c = "NAK" -> GoesTo("eot2", fblk, <<Char("EOT")>>) /\ UNCHANGED trouble
         [] sp \in {"eot1", "eot2"} /\ c = "ACK" -> GoesTo("next", fblk, <<>>) /\ UNCHANGED trouble
         [] sp = "next" /\ c = "C" -> Offer /\ UNCHANGED trouble
         [] sp = "last" /\ c = "ACK" -> GoesTo("done", fblk, <<>>) /\ UNCHANGED trouble
         [] (c = "NAK" /\ sp # "eot1") \/ (c = "C" /\ sp \in {"hdr", "last"}) -> SendAgain
         [] OTHER -> UNCHANGED <<sp, fblk, retries, line, trouble>>
    /\ UNCHANGED <<recv, session, faults>>

\* A patient sender waits longer than the receiver does.
SenderTimeout ==
    /\ sp \notin {"idle", "done", "gaveup"} /\ back = <<>>
    /\ rp \in Ended \/ "hasty" \in Faults
    /\ SendAgain
    /\ UNCHANGED <<recv, back, session, faults>>

-----------------------------------------------------------------------------
LineFault ==
    /\ faults < MaxFaults /\ rp \notin Ended
    /\ faults' = faults + 1 /\ trouble' = TRUE
    /\ \/ /\ "lose" \in Faults
          /\ \E i \in DOMAIN line : line' = RemoveAt(line, i)
          /\ UNCHANGED back
       \/ /\ "mute" \in Faults
          /\ \E i \in DOMAIN back : back' = RemoveAt(back, i)
          /\ UNCHANGED line
       \/ /\ "garble" \in Faults
          /\ \E i \in DOMAIN line : IsUnit(line[i]) /\ line' = [line EXCEPT ![i] = Bad]
          /\ UNCHANGED back
       \/ /\ "noise" \in Faults
          /\ \E i \in DOMAIN line :
                line[i] \notin {Bad, Junk} /\ ~IsUnit(line[i]) /\ line' = [line EXCEPT ![i] = Noise]
          /\ UNCHANGED back
    /\ UNCHANGED <<recv, send>>

Receiver ==
    \/ Hello \/ HelloFails \/ HelloTimeout \/ HelloCode \/ HeaderFails \/ Header
    \/ Timeout
    \/ BeginFails \/ Begin
    \/ Code \/ Ignore \/ DataFails \/ Data \/ DataRefused
    \/ SecondEot \/ NextCode \/ NextBad \/ NextFile \/ Finished

Sender == SenderStarts \/ SenderHears \/ SenderTimeout

Next == Receiver \/ Sender \/ LineFault \/ Overrun

\* The receiver runs on the only thread that is busy, and its waits end.
\* Nothing is assumed of the sender.
Spec == Init /\ [][Next]_vars /\ WF_vars(Receiver)

\* The sender takes part.
SpecTwo == Spec /\ WF_vars(Sender)

-----------------------------------------------------------------------------
(* Properties.                                                             *)

\* The partition holds, from its start to the write position, the beginning
\* of the file whose packet 0 came last, each packet once and in order,
\* whatever the line lost or garbled (ymodem_on_data never looks at numbers).
ReceivedPrefix ==
    cfile # 0 /\ rp # "begin" =>
        \A a \in 0 .. cur - 1 : a < Len(Content(cfile)) /\ dl[a] = Content(cfile)[a + 1]

\* When "Download firmware to flash success" is printed, the whole of the
\* last file is in the partition, and the board may be reset (ymodem_ota).
SuccessIsWhole ==
    rp = "done" =>
        /\ cfile = Files
        /\ cur = Len(Content(cfile))
        /\ \A a \in 0 .. cur - 1 : dl[a] = Content(cfile)[a + 1]

\* A session fails only for a reason: something on the line was lost or
\* changed, somebody was too slow, the file was too large or the flash failed.
\* A packet 0 that is sent again is no reason (_rym_trans_data).
FailsForAReason == rp = "failed" => trouble

\* A sender that is told that everything has arrived has been told the truth.
SenderKnows == sp = "done" => rp = "done"

\* Every session ends, whatever the sender does (all waits have timeouts).
Ends == <>(rp \in Ended)

\* With nothing in the way both sides end with success.
Completes == <>(rp = "done" /\ sp = "done")

=============================================================================
