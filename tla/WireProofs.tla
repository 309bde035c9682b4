----------------------------- MODULE WireProofs -----------------------------
(***************************************************************************)
(* The connection between a source and a player, byte by byte: it          *)
(* implements the channel of whole messages, and the player's count of     *)
(* frames is the source's, for messages, pieces and sockets of any size    *)
(* and however reads and writes split them.                                *)
(*                                                                         *)
(* The argument is about the bytes still to come to the player: what it    *)
(* has of a piece, what is in the socket, what the source still has to     *)
(* write.  They form a chain, each byte followed by the next of its        *)
(* message or by the first of the next message, that starts where the      *)
(* player stands (Stream) and ends where the source does (Ending).         *)
(***************************************************************************)
EXTENDS MCStreams, SequenceTheorems, WellFoundedInduction, TLAPS

(* A message the source frames, and a byte of it. *)
Sendable(m) ==
    /\ m \in Wire!Message
    /\ m.kind = "audio" /\ m.codec = "raw" => m.plen = m.frames * FrameBytes
Framed == {m \in Wire!Message : Sendable(m)}
Octet == {b \in [of : Framed, at : Nat] : b.at \in 1..Wire!Size(b.of)}

(* All that is still to come to the player, from what it has of a piece on. *)
Coming == (buf \o sock) \o out

(* A byte and the next. *)
Follows(b, c) == \/ c.of = b.of /\ c.at = b.at + 1
                 \/ b.at = Wire!Size(b.of) /\ c.at = 1 /\ c.of.n = b.of.n + 1

(* The bytes of s run on; all are of messages begun. *)
Chained(s) == \A i \in 1..(Len(s) - 1) : Follows(s[i], s[i + 1])
Begun(s) == \A i \in 1..Len(s) : s[i].of.n <= sentN

(* The bytes of the piece that the player has read of its message before buf. *)
ReadBefore == IF stage = "header" THEN 0
              ELSE IF stage = "payload" THEN HeaderLen + FixedLen ELSE HeaderLen

(* Types; no more of a piece is read than it has, and a piece is of a message of its kind. *)
WireTypes ==
    /\ buf \in Seq(Octet) /\ sock \in Seq(Octet) /\ out \in Seq(Octet)
    /\ sentN \in 0..MaxSent
    /\ gone \in {"no", "closed", "torn", "reset"}
    /\ ended \in {"open", "clean", "broken"}
    /\ stage \in {"header", "pong", "fixed", "payload"}
    /\ stage # "header" => msg \in Framed
    /\ stage = "pong" => msg.kind = "pong"
    /\ stage \in {"fixed", "payload"} => msg.kind = "audio"
    /\ Len(buf) <= Wire!Need

(* The bytes to come run on from the one the player needs next. *)
Stream ==
    /\ Begun(Coming) /\ Chained(Coming)
    /\ Coming # <<>> => /\ Coming[1].at = ReadBefore + 1
                        /\ stage # "header" => Coming[1].of = msg

(* What write_full still has to write is the rest of the message begun last. *)
Rest == \A i \in 1..Len(out) :
           /\ out[i].of = out[1].of
           /\ out[i].at = Wire!Size(out[1].of) - Len(out) + i

AtEnd(s) == s[Len(s)].at = Wire!Size(s[Len(s)].of)

(* They end with the last message begun as long as the source lives, with the end of a
   message if it closed the socket, within one if it died writing. *)
Ending ==
    /\ gone = "no" => IF Coming = <<>> THEN stage = "header"
                      ELSE AtEnd(Coming) /\ Coming[Len(Coming)].of.n = sentN
    /\ gone # "no" => out = <<>>
    /\ gone = "closed" => IF Coming = <<>> THEN stage = "header" ELSE AtEnd(Coming)
    /\ gone = "torn" => IF Coming = <<>> THEN stage # "header" ELSE ~AtEnd(Coming)

(* What the source has of this peer's track: it is short only to a fan-out's member. *)
Source == /\ wireTrack \in 0..MaxIndex /\ missed \in 0..wireTrack
          /\ missed > 0 => fanned

(* Where the source's track stood after the last chunk it sent this peer. *)
Heard == wireTrack - missed

(* What a message takes that on by. *)
FramesOf(m) == IF m.kind = "audio" THEN m.missed + m.frames ELSE 0

(* idx[n] is Heard as the source begins message n: a chunk to come carries it and what
   was missed since, and the player's count is that of the message it reads next. *)
OfTrack(m, heard) ==
    m.kind = "audio" => m.track = heard + m.missed /\ (m.missed > 0 => fanned)

Counts(idx) ==
    /\ \A i \in 1..Len(Coming) : LET m == Coming[i].of IN
         /\ OfTrack(m, idx[m.n])
         /\ idx[m.n + 1] = idx[m.n] + FramesOf(m)
    /\ idx[sentN + 1] = Heard
    /\ Coming # <<>> => rxNextSrc = idx[Coming[1].of.n]
    /\ Coming = <<>> /\ gone = "no" => rxNextSrc = Heard

WireInv == WireTypes /\ Stream /\ Rest /\ Ending
Indexed == \E idx \in [Nat -> Nat] : Counts(idx)

-----------------------------------------------------------------------------
(* Sequences of bytes, and the messages that end in them. *)

(* Induction along a sequence. *)
LEMMA Along ==
    ASSUME NEW n \in Nat, NEW S, 0 \in S,
           \A m \in 0..n-1 : m \in S => m + 1 \in S
    PROVE  \A m \in 0..n : m \in S
<1> SUFFICES ASSUME NEW x \in 0..n, x \notin S
             PROVE  FALSE
    OBVIOUS
<1> DEFINE Bad == {m \in 0..n : m \notin S}
           R == OpToRel(<, Nat)
<1>1. IsWellFoundedOn(R, Nat)
    BY NatLessThanWellFounded
<1>2. Bad \subseteq Nat /\ Bad # {}
    OBVIOUS
<1>3. \A a, b \in Nat : a < b => <<a, b>> \in R
    BY DEF OpToRel
<1> HIDE DEF R
<1>4. PICK k \in Bad : \A m \in Bad : ~ (<<m, k>> \in R)
    BY <1>1, <1>2, WFMin
<1>5. k \in 1..n /\ k - 1 \in 0..n-1 /\ k - 1 < k /\ k \in Nat /\ k - 1 \in Nat
    BY <1>4
<1>6. k - 1 \in S
    <2>1. k - 1 \notin Bad
        BY <1>3, <1>4, <1>5
    <2> QED
        BY <1>5, <2>1
<1> QED
    BY <1>4, <1>5, <1>6

(* The messages that end in a sequence of bytes, read off byte by byte. *)
IsLast(b) == b.at = Wire!Size(b.of)
Upto(s, p) ==
    /\ p \in [0..Len(s) -> Seq(Framed)] /\ p[0] = <<>>
    /\ \A i \in 1..Len(s) :
          p[i] = IF IsLast(s[i]) THEN Append(p[i - 1], s[i].of) ELSE p[i - 1]

LEMMA EndedReads ==
    ASSUME NEW s \in Seq(Octet)
    PROVE  \E p : Upto(s, p) /\ Wire!Ended(s) = p[Len(s)]
<1> DEFINE n == Len(s)
           C == Seq(Framed)
           Next1(i, c) == IF s[i].at = Wire!Size(s[i].of) THEN Append(c, s[i].of) ELSE c
           Ok(m, p) == p = [i \in 0..m |-> IF i = 0 THEN <<>> ELSE Next1(i, p[i - 1])]
           S == {m \in 0..n : \E p \in [0..m -> C] : Ok(m, p)}
<1>n. n \in Nat
    OBVIOUS
<1>c. \A i \in 1..n, c \in C : Next1(i, c) \in C
    <2> SUFFICES ASSUME NEW i \in 1..n, NEW c \in C PROVE Next1(i, c) \in C
        OBVIOUS
    <2>1. s[i].of \in Framed
        BY DEF Octet
    <2> QED
        BY <2>1
<1> HIDE DEF Next1
<1>1. 0 \in S
    <2> DEFINE p == [i \in 0..0 |-> <<>>]
    <2>1. p \in [0..0 -> C] /\ Ok(0, p)
        OBVIOUS
    <2>2. 0 \in 0..n
        BY <1>n
    <2> HIDE DEF p, Ok, C
    <2> QED
        BY <2>1, <2>2
<1>2. ASSUME NEW m \in 0..n-1, m \in S PROVE m + 1 \in S
    <2> HIDE DEF C, n
    <2>1. PICK p \in [0..m -> C] : Ok(m, p)
        BY <1>2
    <2> DEFINE v == Next1(m + 1, p[m])
               q == [i \in 0..m+1 |-> IF i = m + 1 THEN v ELSE p[i]]
    <2>2. m + 1 \in 1..n /\ m \in 0..m /\ m \in Nat /\ m + 1 \in 0..n
        BY <1>n
    <2>3. v \in C
        BY <2>2, <1>c
    <2> HIDE DEF v
    <2>4. q \in [0..m+1 -> C]
        BY <2>2, <2>3
    <2>5. ASSUME NEW i \in 0..m+1
          PROVE  q[i] = IF i = 0 THEN <<>> ELSE Next1(i, q[i - 1])
        <3>1. CASE i = m + 1
            <4>1. q[i] = v /\ i # 0 /\ i - 1 = m /\ q[i - 1] = p[m]
                BY <2>2, <3>1
            <4> QED
                BY <3>1, <4>1 DEF v
        <3>2. CASE i # m + 1
            <4>1. i \in 0..m /\ q[i] = p[i] /\ (i # 0 => i - 1 \in 0..m /\ q[i - 1] = p[i - 1])
                BY <2>2, <3>2
            <4>2. p[i] = IF i = 0 THEN <<>> ELSE Next1(i, p[i - 1])
                BY <2>1, <4>1
            <4> QED
                BY <4>1, <4>2
        <3> QED
            BY <3>1, <3>2
    <2>6. Ok(m + 1, q)
        BY <2>5
    <2> HIDE DEF q, Ok
    <2> QED
        BY <2>4, <2>6, <2>2
<1>3. \A m \in 0..n : m \in S
    <2> HIDE DEF S, n
    <2> QED
        BY ONLY <1>1, <1>2, <1>n, Along
<1>4. \E p : Ok(n, p)
    <2>1. n \in 0..n
        BY <1>n
    <2>2. n \in S
        <3> HIDE DEF S
        <3> QED
            BY <1>3, <2>1
    <2> HIDE DEF Ok, n, C
    <2> QED
        BY <2>2
<1> DEFINE f == CHOOSE p : Ok(n, p)
<1>5. Ok(n, f)
    BY <1>4
<1>6. Wire!Ended(s) = f[n]
    BY DEF Wire!Ended, Next1
<1> HIDE DEF f
<1>7. f = [i \in 0..n |-> IF i = 0 THEN <<>> ELSE Next1(i, f[i - 1])]
    BY <1>5
<1> HIDE DEF Ok, S
<1>8. f[0] = <<>> /\ \A i \in 1..n : f[i] = Next1(i, f[i - 1])
    <2> HIDE DEF n
    <2>1. 0 \in 0..n /\ \A i \in 1..n : i \in 0..n /\ i # 0
        BY <1>n
    <2> QED
        BY <1>7, <2>1
<1>9. \A i \in 0..n : f[i] \in C
    <2> DEFINE T == {i \in 0..n : f[i] \in C}
    <2>1. 0 \in T
        <3>1. 0 \in 0..n
            BY <1>n
        <3>2. <<>> \in C
            OBVIOUS
        <3> QED
            BY <1>8, <3>1, <3>2
    <2>2. \A m \in 0..n-1 : m \in T => m + 1 \in T
        <3> SUFFICES ASSUME NEW m \in 0..n-1, m \in T PROVE m + 1 \in T
            OBVIOUS
        <3> HIDE DEF n, C
        <3>1. m + 1 \in 1..n /\ (m + 1) - 1 = m /\ m + 1 \in 0..n
            BY <1>n
        <3>2. f[m] \in C
            OBVIOUS
        <3>3. f[m + 1] = Next1(m + 1, f[m])
            BY <1>8, <3>1
        <3> QED
            BY <3>1, <3>2, <3>3, <1>c
    <2> HIDE DEF T, n
    <2>3. \A m \in 0..n : m \in T
        BY ONLY <2>1, <2>2, <1>n, Along
    <2> QED
        BY <2>3 DEF T
<1>10. f \in [0..n -> C]
    <2> HIDE DEF n, C
    <2> QED
        BY <1>7, <1>9
<1>11. Upto(s, f)
    BY <1>8, <1>10 DEF Upto, IsLast, Next1
<1> QED
    BY <1>6, <1>11

LEMMA EndedIn ==
    ASSUME NEW s \in Seq(Octet)
    PROVE  Wire!Ended(s) \in Seq(Framed)
<1>1. PICK p : Upto(s, p) /\ Wire!Ended(s) = p[Len(s)]
    BY EndedReads
<1>2. Len(s) \in 0..Len(s)
    OBVIOUS
<1> QED
    BY <1>1, <1>2 DEF Upto

LEMMA EndedConcat ==
    ASSUME NEW s \in Seq(Octet), NEW t \in Seq(Octet)
    PROVE  Wire!Ended(s \o t) = Wire!Ended(s) \o Wire!Ended(t)
<1> DEFINE u == s \o t  n == Len(s)  k == Len(t)
<1>1. /\ u \in Seq(Octet) /\ Len(u) = n + k
      /\ \A i \in 1..n : u[i] = s[i]
      /\ \A j \in 1..k : u[n + j] = t[j]
    OBVIOUS
<1>2. PICK ps : Upto(s, ps) /\ Wire!Ended(s) = ps[n]
    BY EndedReads
<1>3. PICK pt : Upto(t, pt) /\ Wire!Ended(t) = pt[k]
    BY EndedReads
<1>4. PICK p : Upto(u, p) /\ Wire!Ended(u) = p[n + k]
    BY <1>1, EndedReads
<1>5. n \in Nat /\ k \in Nat
    OBVIOUS
<1> HIDE DEF u, n, k
<1>s. /\ ps \in [0..n -> Seq(Framed)] /\ ps[0] = <<>>
      /\ \A i \in 1..n : ps[i] = IF IsLast(s[i]) THEN Append(ps[i - 1], s[i].of) ELSE ps[i - 1]
    BY <1>2 DEF Upto, n
<1>t. /\ pt \in [0..k -> Seq(Framed)] /\ pt[0] = <<>>
      /\ \A i \in 1..k : pt[i] = IF IsLast(t[i]) THEN Append(pt[i - 1], t[i].of) ELSE pt[i - 1]
    BY <1>3 DEF Upto, k
<1>u. /\ p \in [0..n + k -> Seq(Framed)] /\ p[0] = <<>>
      /\ \A i \in 1..n + k :
            p[i] = IF IsLast(u[i]) THEN Append(p[i - 1], u[i].of) ELSE p[i - 1]
    BY <1>4, <1>1 DEF Upto
<1>6. \A i \in 0..n : p[i] = ps[i]
    <2> DEFINE S == {i \in 0..n : p[i] = ps[i]}
    <2>1. 0 \in S
        BY <1>s, <1>u, <1>5
    <2>2. \A m \in 0..n-1 : m \in S => m + 1 \in S
        <3> SUFFICES ASSUME NEW m \in 0..n-1, p[m] = ps[m] PROVE p[m + 1] = ps[m + 1]
            BY <1>5
        <3>1. m + 1 \in 1..n /\ m + 1 \in 1..n + k /\ (m + 1) - 1 = m
            BY <1>5
        <3>2. u[m + 1] = s[m + 1]
            BY <1>1, <3>1
        <3> QED
            BY <1>s, <1>u, <3>1, <3>2
    <2> HIDE DEF S
    <2>3. \A m \in 0..n : m \in S
        BY ONLY <2>1, <2>2, <1>5, Along
    <2> QED
        BY <2>3 DEF S
<1> DEFINE a == ps[n]
<1>7. a \in Seq(Framed) /\ p[n] = a
    BY <1>5, <1>6, <1>s
<1> HIDE DEF a
<1>8. \A j \in 0..k : p[n + j] = a \o pt[j]
    <2> DEFINE S == {j \in 0..k : p[n + j] = a \o pt[j]}
    <2>1. 0 \in S
        <3>1. a \o pt[0] = a
            BY <1>7, <1>t, ConcatEmptySeq
        <3>2. n + 0 = n /\ 0 \in 0..k
            BY <1>5
        <3> QED
            BY <1>7, <3>1, <3>2
    <2>2. \A m \in 0..k-1 : m \in S => m + 1 \in S
        <3> SUFFICES ASSUME NEW m \in 0..k-1, m \in S PROVE m + 1 \in S
            OBVIOUS
        <3>0. p[n + m] = a \o pt[m]
            OBVIOUS
        <3> HIDE DEF S
        <3>1. /\ m + 1 \in 1..k /\ (m + 1) - 1 = m /\ m \in 0..k
              /\ n + (m + 1) \in 1..n + k /\ (n + (m + 1)) - 1 = n + m
            BY <1>5
        <3>2. u[n + (m + 1)] = t[m + 1]
            BY <1>1, <3>1
        <3>3. ASSUME IsLast(t[m + 1]) PROVE p[n + (m + 1)] = a \o pt[m + 1]
            <4> DEFINE e == t[m + 1].of  q == pt[m]
            <4>1. e \in Framed
                <5>1. t[m + 1] \in Octet
                    BY <3>1, ElementOfSeq DEF k
                <5> QED
                    BY <5>1 DEF Octet
            <4>2. q \in Seq(Framed)
                BY <1>t, <3>1
            <4>3. p[n + (m + 1)] = Append(a \o q, e)
                BY <1>u, <3>0, <3>1, <3>2, <3>3
            <4>4. pt[m + 1] = Append(q, e)
                BY <1>t, <3>1, <3>3
            <4> HIDE DEF e, q
            <4>5. Append(a \o q, e) = a \o Append(q, e)
                <5>1. a \o q \in Seq(Framed) /\ <<e>> \in Seq(Framed)
                    BY <1>7, <4>1, <4>2
                <5>2. Append(a \o q, e) = (a \o q) \o <<e>>
                    BY <4>1, <5>1, AppendIsConcat
                <5>3. Append(q, e) = q \o <<e>>
                    BY <4>1, <4>2, AppendIsConcat
                <5>4. (a \o q) \o <<e>> = a \o (q \o <<e>>)
                    BY <1>7, <4>2, <5>1, ConcatAssociative
                <5> QED
                    BY <5>2, <5>3, <5>4
            <4> QED
                BY <4>3, <4>4, <4>5
        <3>4. ASSUME ~ IsLast(t[m + 1]) PROVE p[n + (m + 1)] = a \o pt[m + 1]
            BY <1>t, <1>u, <3>0, <3>1, <3>2, <3>4
        <3>5. p[n + (m + 1)] = a \o pt[m + 1]
            BY <3>3, <3>4
        <3>6. m + 1 \in 0..k
            BY <1>5
        <3> QED
            BY <3>5, <3>6 DEF S
    <2> HIDE DEF S
    <2>3. \A m \in 0..k : m \in S
        BY ONLY <2>1, <2>2, <1>5, Along
    <2> QED
        BY <2>3 DEF S
<1>9. p[n + k] = a \o pt[k]
    BY <1>5, <1>8
<1> QED
    BY <1>2, <1>3, <1>4, <1>9 DEF a, u

(* Bytes none of which is a last one end nothing, and those of which only the last is
   end its message. *)
LEMMA EndedFew ==
    ASSUME NEW s \in Seq(Octet), \A i \in 1..(Len(s) - 1) : ~ IsLast(s[i])
    PROVE  /\ s # <<>> /\ IsLast(s[Len(s)]) => Wire!Ended(s) = <<s[Len(s)].of>>
           /\ s = <<>> \/ ~ IsLast(s[Len(s)]) => Wire!Ended(s) = <<>>
<1> DEFINE n == Len(s)
<1>1. PICK p : Upto(s, p) /\ Wire!Ended(s) = p[n]
    BY EndedReads
<1>2. n \in Nat /\ (s = <<>> <=> n = 0)
    BY EmptySeq
<1>3. /\ p[0] = <<>>
      /\ \A i \in 1..n : p[i] = IF IsLast(s[i]) THEN Append(p[i - 1], s[i].of) ELSE p[i - 1]
    BY <1>1 DEF Upto
<1>4. \A i \in 1..n - 1 : ~ IsLast(s[i])
    OBVIOUS
<1> HIDE DEF n
<1>5. CASE n = 0
    BY <1>1, <1>2, <1>3, <1>5
<1>6. CASE n # 0
    <2> DEFINE k == n - 1
    <2>1. k \in Nat /\ n \in 1..n /\ n = k + 1
        BY <1>2, <1>6
    <2>2. \A i \in 0..k : p[i] = <<>>
        <3> DEFINE S == {i \in 0..k : p[i] = <<>>}
        <3>1. 0 \in S
            BY <1>3, <2>1
        <3>2. \A m \in 0..k-1 : m \in S => m + 1 \in S
            <4> SUFFICES ASSUME NEW m \in 0..k-1, p[m] = <<>> PROVE p[m + 1] = <<>>
                BY <2>1
            <4>1. m + 1 \in 1..n /\ (m + 1) - 1 = m /\ m + 1 \in 1..n - 1
                BY <2>1
            <4> QED
                BY <1>3, <1>4, <4>1
        <3> HIDE DEF S, k
        <3>3. \A m \in 0..k : m \in S
            BY ONLY <3>1, <3>2, <2>1, Along
        <3> QED
            BY <3>3 DEF S
    <2>3. p[n - 1] = <<>>
        BY <2>1, <2>2
    <2>4. p[n] = IF IsLast(s[n]) THEN Append(<<>>, s[n].of) ELSE <<>>
        BY <1>3, <2>1, <2>3
    <2>5. Append(<<>>, s[n].of) = <<s[n].of>>
        OBVIOUS
    <2> QED
        BY <1>1, <1>2, <1>6, <2>4, <2>5 DEF n
<1> QED
    BY <1>5, <1>6

LEMMA EndedNone ==
    ASSUME NEW s \in Seq(Octet), \A i \in 1..Len(s) : ~ IsLast(s[i])
    PROVE  Wire!Ended(s) = <<>>
<1>1. s = <<>> \/ (Len(s) \in 1..Len(s))
    BY EmptySeq
<1>2. s = <<>> \/ ~ IsLast(s[Len(s)])
    BY <1>1
<1>3. \A i \in 1..(Len(s) - 1) : ~ IsLast(s[i])
    OBVIOUS
<1> QED
    BY <1>2, <1>3, EndedFew

-----------------------------------------------------------------------------
(* Messages and their pieces. *)

(* What a message that can be framed looks like. *)
LEMMA Messages ==
    ASSUME WireAssumption, NEW m \in Framed
    PROVE  /\ m \in Wire!Message /\ m.n \in 1..MaxSent /\ m.kind \in {"audio", "pong"}
           /\ m.kind = "pong" => Wire!Size(m) = HeaderLen + PongLen
           /\ m.kind = "audio" =>
                /\ Wire!Size(m) = HeaderLen + (FixedLen + m.plen)
                /\ m.plen \in Nat \ {0} /\ m.frames \in 1..ChunkFrames /\ m.track \in Nat
                /\ m.missed \in Nat
                /\ Wire!Fits(m) /\ Wire!Decoded(m) = m.frames
           /\ Wire!Size(m) \in Nat /\ HeaderLen < Wire!Size(m)
<1>1. Sendable(m) /\ m \in Wire!Message
    BY DEF Framed
<1>2. CASE m.kind = "pong"
    <2>1. m.n \in 1..MaxSent
        BY <1>1, <1>2 DEF Wire!Message, Wire!Audio
    <2>2. Wire!Size(m) = HeaderLen + PongLen
        BY <1>2 DEF Wire!Size
    <2> QED
        BY <1>1, <1>2, <2>1, <2>2 DEF WireAssumption
<1>3. CASE m.kind # "pong"
    <2>1. m \in Wire!Audio
        BY <1>1, <1>3 DEF Wire!Message
    <2>2. /\ m.kind = "audio" /\ m.n \in 1..MaxSent /\ m.track \in 0..MaxIndex
          /\ m.missed \in 0..MaxIndex /\ m.frames \in 1..ChunkFrames /\ m.plen \in 1..Wire!MaxPayload
          /\ m.codec \in {"raw", "flac"}
        BY <2>1 DEF Wire!Audio
    <2>3. Wire!Size(m) = HeaderLen + (FixedLen + m.plen)
        BY <1>3 DEF Wire!Size
    <2>4. /\ ChunkFrames \in Nat /\ FrameBytes \in Nat \ {0} /\ Slack \in Nat
          /\ HeaderLen \in Nat /\ FixedLen \in Nat \ {0} /\ MaxIndex \in Nat
        BY DEF WireAssumption
    <2>5. ChunkFrames * FrameBytes \in Nat
        BY <2>4
    <2>6. m.plen \in Nat \ {0} /\ m.plen <= Wire!MaxPayload
        BY <2>2, <2>4, <2>5 DEF Wire!MaxPayload, Wire!ChunkBytes
    <2>7. m.codec = "raw" => m.plen = m.frames * FrameBytes
        BY <1>1, <2>2 DEF Sendable
    <2>8. m.frames * FrameBytes <= ChunkFrames * FrameBytes
        <3>1. \A a, b \in Nat : a <= b => a * FrameBytes <= b * FrameBytes
            BY <2>4
        <3> QED
            BY <3>1, <2>2, <2>4
    <2>9. Wire!Fits(m)
        BY <2>2, <2>4, <2>6, <2>7, <2>8 DEF Wire!Fits, Wire!ChunkBytes
    <2>10. m.codec = "raw" => m.plen \div FrameBytes = m.frames
        <3>1. \A a \in Nat : (a * FrameBytes) \div FrameBytes = a
            BY <2>4
        <3> QED
            BY <2>2, <2>7, <3>1
    <2>11. Wire!Decoded(m) = m.frames
        BY <2>2, <2>10 DEF Wire!Decoded
    <2>12. m.track \in Nat /\ m.missed \in Nat
        BY <2>2, <2>4
    <2>13. Wire!Size(m) \in Nat /\ HeaderLen < Wire!Size(m)
        BY <2>3, <2>4, <2>6
    <2> QED
        BY <1>1, <2>2, <2>3, <2>6, <2>9, <2>11, <2>12, <2>13
<1> QED
    BY <1>2, <1>3

(* The pieces of a message: the player reads it to its last byte, and no further. *)
LEMMA Pieces ==
    ASSUME WireAssumption, WireTypes
    PROVE  /\ ReadBefore \in Nat /\ Wire!Need \in Nat \ {0}
           /\ stage = "header" => /\ ReadBefore = 0
                                  /\ \A m \in Framed : ReadBefore + Wire!Need < Wire!Size(m)
           /\ stage # "header" => ReadBefore # 0
           /\ stage = "fixed" => ReadBefore + Wire!Need < Wire!Size(msg)
           /\ stage \in {"pong", "payload"} => ReadBefore + Wire!Need = Wire!Size(msg)
<1> USE DEF WireAssumption
<1>1. CASE stage = "header"
    BY <1>1, Messages DEF ReadBefore, Wire!Need
<1>2. CASE stage = "pong"
    <2>1. msg \in Framed /\ msg.kind = "pong"
        BY <1>2 DEF WireTypes
    <2> QED
        BY <1>2, <2>1, Messages DEF ReadBefore, Wire!Need
<1>3. CASE stage = "fixed"
    <2>1. msg \in Framed /\ msg.kind = "audio"
        BY <1>3 DEF WireTypes
    <2> QED
        BY <1>3, <2>1, Messages DEF ReadBefore, Wire!Need
<1>4. CASE stage = "payload"
    <2>1. msg \in Framed /\ msg.kind = "audio"
        BY <1>4 DEF WireTypes
    <2> QED
        BY <1>4, <2>1, Messages DEF ReadBefore, Wire!Need
<1> QED
    BY <1>1, <1>2, <1>3, <1>4 DEF WireTypes

(* A chained sequence of bytes starts with the rest of one message. *)
LEMMA Consecutive ==
    ASSUME WireAssumption, NEW s \in Seq(Octet), Chained(s), s # <<>>
    PROVE  \A i \in 1..Len(s) : s[1].at + i <= Wire!Size(s[1].of) + 1 =>
                s[i].of = s[1].of /\ s[i].at = s[1].at + i - 1
<1> DEFINE L == Len(s)  z == Wire!Size(s[1].of)  a == s[1].at
           S == {k \in 0..L - 1 : a + k <= z => s[k + 1].of = s[1].of /\ s[k + 1].at = a + k}
<1>1. L \in Nat \ {0}
    BY EmptySeq
<1>2. \A i \in 1..L : s[i].of \in Framed /\ s[i].at \in Nat
    <2>1. \A i \in 1..L : s[i] \in Octet
        BY ElementOfSeq
    <2> QED
        BY <2>1 DEF Octet
<1>3. a \in Nat /\ z \in Nat
    <2>1. 1 \in 1..L
        BY <1>1
    <2> QED
        BY <1>2, <2>1, Messages
<1>4. \A i \in 1..L - 1 : Follows(s[i], s[i + 1])
    BY DEF Chained
<1> HIDE DEF L, z, a
<1>5. 0 \in S
    BY <1>1, <1>3 DEF a
<1>6. \A k \in 0..L - 1 - 1 : k \in S => k + 1 \in S
    <2> SUFFICES ASSUME NEW k \in 0..L - 1 - 1, k \in S, a + (k + 1) <= z
                 PROVE  s[(k + 1) + 1].of = s[1].of /\ s[(k + 1) + 1].at = a + (k + 1)
        BY <1>1
    <2>1. k + 1 \in 1..L - 1 /\ k \in Nat
        BY <1>1
    <2>2. s[k + 1].of = s[1].of /\ s[k + 1].at = a + k
        BY <1>3, <2>1
    <2>3. Follows(s[k + 1], s[(k + 1) + 1])
        BY <1>4, <2>1
    <2>4. s[k + 1].at # Wire!Size(s[k + 1].of)
        BY <1>3, <2>1, <2>2 DEF z
    <2>5. s[(k + 1) + 1].of = s[k + 1].of /\ s[(k + 1) + 1].at = s[k + 1].at + 1
        BY <2>3, <2>4 DEF Follows
    <2> QED
        BY <1>3, <2>1, <2>2, <2>5
<1> HIDE DEF S
<1>7. \A k \in 0..L - 1 : k \in S
    <2>1. L - 1 \in Nat
        BY <1>1
    <2> QED
        BY ONLY <1>5, <1>6, <2>1, Along
<1>8. ASSUME NEW i \in 1..L, a + i <= z + 1
      PROVE  s[i].of = s[1].of /\ s[i].at = a + i - 1
    <2>1. i - 1 \in 0..L - 1 /\ (i - 1) + 1 = i /\ a + (i - 1) <= z
        BY <1>1, <1>3, <1>8
    <2>2. s[i].of = s[1].of /\ s[i].at = a + (i - 1)
        <3>1. i - 1 \in S
            BY <1>7, <2>1
        <3> QED
            BY <2>1, <3>1 DEF S
    <2> QED
        BY <1>3, <2>1, <2>2
<1> QED
    BY <1>8 DEF L, a, z

(* What the player has of the piece it reads is that piece, from its first byte on. *)
LEMMA HasRead ==
    ASSUME WireAssumption, WireTypes, Stream
    PROVE  /\ Coming \in Seq(Octet) /\ Len(Coming) = Len(buf) + Len(sock) + Len(out)
           /\ Coming # <<>> => /\ Coming[1].of \in Framed
                               /\ Len(Coming) \in Nat \ {0}
                               /\ ReadBefore + Wire!Need <= Wire!Size(Coming[1].of)
           /\ \A i \in 1..Len(buf) : /\ Coming[i] = buf[i]
                                     /\ buf[i].of = Coming[1].of
                                     /\ buf[i].at = ReadBefore + i
<1>1. buf \in Seq(Octet) /\ sock \in Seq(Octet) /\ out \in Seq(Octet)
    BY DEF WireTypes
<1>2. /\ Coming \in Seq(Octet) /\ Len(Coming) = Len(buf) + Len(sock) + Len(out)
      /\ \A i \in 1..Len(buf) : Coming[i] = buf[i]
    BY <1>1 DEF Coming
<1>3. Coming # <<>> => /\ Coming[1].of \in Framed
                       /\ Len(Coming) \in Nat \ {0}
                       /\ ReadBefore + Wire!Need <= Wire!Size(Coming[1].of)
    <2> SUFFICES ASSUME Coming # <<>>
                 PROVE  /\ Coming[1].of \in Framed
                        /\ Len(Coming) \in Nat \ {0}
                        /\ ReadBefore + Wire!Need <= Wire!Size(Coming[1].of)
        OBVIOUS
    <2>1. Len(Coming) \in Nat \ {0}
        BY <1>2, EmptySeq
    <2>2. Coming[1] \in Octet
        BY <1>2, <2>1, ElementOfSeq
    <2>3. Coming[1].of \in Framed /\ Wire!Size(Coming[1].of) \in Nat
        BY <2>2, Messages DEF Octet
    <2>4. ReadBefore \in Nat /\ Wire!Need \in Nat
        BY Pieces
    <2>5. stage = "header" => ReadBefore + Wire!Need <= Wire!Size(Coming[1].of)
        BY <2>3, <2>4, Pieces
    <2>6. stage # "header" => ReadBefore + Wire!Need <= Wire!Size(Coming[1].of)
        <3> SUFFICES ASSUME stage # "header"
                     PROVE  ReadBefore + Wire!Need <= Wire!Size(Coming[1].of)
            OBVIOUS
        <3>1. Coming[1].of = msg
            BY DEF Stream
        <3>2. stage \in {"fixed", "pong", "payload"}
            BY DEF WireTypes
        <3> QED
            BY <2>3, <2>4, <3>1, <3>2, Pieces
    <2> QED
        BY <2>1, <2>3, <2>5, <2>6
<1>4. ASSUME NEW i \in 1..Len(buf)
      PROVE  buf[i].of = Coming[1].of /\ buf[i].at = ReadBefore + i
    <2>1. i \in 1..Len(Coming) /\ Coming # <<>> /\ i <= Wire!Need /\ i \in Nat
        <3>1. Len(buf) \in Nat /\ Len(sock) \in Nat /\ Len(out) \in Nat
            BY <1>1
        <3>2. i \in 1..Len(Coming) /\ i \in Nat
            BY <1>2, <3>1
        <3>3. Coming # <<>>
            BY <1>2, <3>2, EmptySeq
        <3>4. Wire!Need \in Nat /\ Len(buf) <= Wire!Need
            BY Pieces DEF WireTypes
        <3> QED
            BY <3>1, <3>2, <3>3, <3>4
    <2>2. Coming[1].at = ReadBefore + 1 /\ Chained(Coming)
        BY <2>1 DEF Stream
    <2>3. ReadBefore \in Nat /\ Wire!Need \in Nat /\ Wire!Size(Coming[1].of) \in Nat
        BY <1>3, <2>1, Pieces, Messages
    <2>4. Coming[1].at + i <= Wire!Size(Coming[1].of) + 1
        BY <1>3, <2>1, <2>2, <2>3
    <2>5. Coming[i].of = Coming[1].of /\ Coming[i].at = Coming[1].at + i - 1
        BY <1>2, <2>1, <2>2, <2>4, Consecutive
    <2> QED
        BY <1>2, <2>1, <2>2, <2>3, <2>5
<1> QED
    BY <1>2, <1>3, <1>4

-----------------------------------------------------------------------------
(* The steps of the source. *)
LEMMA CutShort ==
    ASSUME WireTypes, Stream, Coming \in Seq(Octet), NEW s \in Seq(Octet),
           Len(s) <= Len(Coming), \A i \in 1..Len(s) : s[i] = Coming[i]
    PROVE  Chained(s) /\ Begun(s) /\ (s # <<>> => Coming # <<>> /\ s[1] = Coming[1])
<1>1. Len(s) \in Nat /\ Len(Coming) \in Nat
    OBVIOUS
<1>2. Chained(s)
    <2> SUFFICES ASSUME NEW i \in 1..(Len(s) - 1) PROVE Follows(s[i], s[i + 1])
        BY DEF Chained
    <2>1. /\ i \in 1..(Len(Coming) - 1) /\ i \in 1..Len(s) /\ i + 1 \in 1..Len(s)
        BY <1>1
    <2>2. Follows(Coming[i], Coming[i + 1])
        BY <2>1 DEF Stream, Chained
    <2> QED
        BY <2>1, <2>2
<1>3. Begun(s)
    <2> SUFFICES ASSUME NEW i \in 1..Len(s) PROVE s[i].of.n <= sentN
        BY DEF Begun
    <2>1. i \in 1..Len(Coming)
        BY <1>1
    <2> QED
        BY <2>1 DEF Stream, Begun
<1>4. ASSUME s # <<>> PROVE Coming # <<>> /\ s[1] = Coming[1]
    <2>1. 1 \in 1..Len(s) /\ Len(Coming) # 0
        BY <1>1, <1>4, EmptySeq
    <2> QED
        BY <2>1, EmptySeq
<1> QED
    BY <1>2, <1>3, <1>4

LEMMA Regroup ==
    \A s, t, u \in Seq(Octet) : (s \o t) \o u = s \o (t \o u)
BY ConcatAssociative

LEMMA Joined ==
    \A s, t \in Seq(Octet) : s \o t \in Seq(Octet) /\ Len(s \o t) = Len(s) + Len(t)
BY ConcatProperties

LEMMA SplitAt ==
    ASSUME NEW s \in Seq(Octet), NEW k \in 0..Len(s)
    PROVE  /\ SubSeq(s, 1, k) \in Seq(Octet) /\ SubSeq(s, k + 1, Len(s)) \in Seq(Octet)
           /\ Len(SubSeq(s, 1, k)) = k /\ Len(SubSeq(s, k + 1, Len(s))) = Len(s) - k
           /\ \A i \in 1..k : SubSeq(s, 1, k)[i] = s[i]
           /\ \A i \in 1..(Len(s) - k) : SubSeq(s, k + 1, Len(s))[i] = s[k + i]
           /\ SubSeq(s, 1, k) \o SubSeq(s, k + 1, Len(s)) = s
<1> DEFINE x == SubSeq(s, 1, k)  y == SubSeq(s, k + 1, Len(s))
<1>1. Len(s) \in Nat /\ k \in Nat /\ k <= Len(s)
    OBVIOUS
<1>2. \A i \in 1..k : s[i] \in Octet
    BY <1>1, ElementOfSeq
<1>3. \A i \in (k + 1)..Len(s) : s[i] \in Octet
    BY <1>1, ElementOfSeq
<1>4. x \in Seq(Octet) /\ Len(x) = k /\ \A i \in 1..k : x[i] = s[i]
    BY <1>1, <1>2
<1>5. y \in Seq(Octet) /\ Len(y) = Len(s) - k /\ \A i \in 1..(Len(s) - k) : y[i] = s[k + i]
    BY <1>1, <1>3
<1> HIDE DEF x, y
<1>6. x \o y = s
    <2>1. x \o y \in Seq(Octet) /\ Len(x \o y) = Len(s)
        BY <1>1, <1>4, <1>5
    <2>2. \A i \in 1..Len(s) : (x \o y)[i] = s[i]
        <3> SUFFICES ASSUME NEW i \in 1..Len(s) PROVE (x \o y)[i] = s[i]
            OBVIOUS
        <3>1. CASE i <= k
            BY <1>1, <1>4, <1>5, <3>1, ConcatProperties
        <3>2. CASE ~ (i <= k)
            <4>1. i - k \in 1..(Len(s) - k) /\ k + (i - k) = i
                BY <1>1, <3>2
            <4>2. (x \o y)[i] = y[i - k]
                BY <1>1, <1>4, <1>5, <3>2, ConcatProperties
            <4> QED
                BY <1>5, <4>1, <4>2
        <3> QED
            BY <3>1, <3>2
    <2> QED
        BY <2>1, <2>2, SeqEqual
<1> QED
    BY <1>4, <1>5, <1>6 DEF x, y

LEMMA WriteStep ==
    ASSUME WireAssumption, WireInv, Wire!WriteSome
    PROVE  WireInv' /\ Coming' = Coming
<1>1. PICK w \in 1..Len(out) : /\ sock' = sock \o SubSeq(out, 1, w)
                              /\ out' = SubSeq(out, w + 1, Len(out))
    BY DEF Wire!WriteSome
<1>2. /\ gone = "no" /\ sentN' = sentN /\ gone' = gone
      /\ stage' = stage /\ msg' = msg /\ buf' = buf /\ ended' = ended
    BY DEF Wire!WriteSome
<1>3. /\ buf \in Seq(Octet) /\ sock \in Seq(Octet) /\ out \in Seq(Octet) /\ w \in 0..Len(out)
      /\ Len(out) \in Nat /\ w \in Nat /\ w >= 1 /\ w <= Len(out)
    BY DEF WireInv, WireTypes
<1> DEFINE x == SubSeq(out, 1, w)  y == SubSeq(out, w + 1, Len(out))
<1>4. /\ x \in Seq(Octet) /\ y \in Seq(Octet) /\ Len(y) = Len(out) - w
      /\ \A i \in 1..(Len(out) - w) : y[i] = out[w + i]
      /\ x \o y = out
    BY <1>3, SplitAt
<1>5. sock' = sock \o x /\ out' = y
    BY <1>1
<1> HIDE DEF x, y
<1>6. Coming' = Coming
    <2>1. Coming' = (buf \o (sock \o x)) \o y
        BY <1>2, <1>5 DEF Coming
    <2>s. buf \in Seq(Octet) /\ sock \in Seq(Octet) /\ x \in Seq(Octet) /\ y \in Seq(Octet)
        BY ONLY <1>3, <1>4
    <2>2. buf \o (sock \o x) = (buf \o sock) \o x
        BY ONLY <2>s, Regroup, ZenonT(60)
    <2>4. buf \o sock \in Seq(Octet)
        BY ONLY <2>s, Joined, ZenonT(60)
    <2>3. ((buf \o sock) \o x) \o y = (buf \o sock) \o (x \o y)
        BY ONLY <2>s, <2>4, Regroup, ZenonT(60)
    <2> QED
        BY <1>4, <2>1, <2>2, <2>3 DEF Coming
<1>7. WireTypes'
    <2>1. sock' \in Seq(Octet) /\ out' \in Seq(Octet)
        BY <1>3, <1>4, <1>5, ConcatProperties
    <2>2. Wire!Need' = Wire!Need
        BY <1>2 DEF Wire!Need
    <2> QED
        BY <1>2, <2>1, <2>2 DEF WireInv, WireTypes
<1>8. Stream'
    <2>1. ReadBefore' = ReadBefore
        BY <1>2 DEF ReadBefore
    <2> QED
        BY <1>2, <1>6, <2>1 DEF WireInv, Stream, Begun, Chained, Follows
<1>9. Rest'
    <2> SUFFICES ASSUME NEW i \in 1..Len(y)
                 PROVE  /\ y[i].of = y[1].of
                        /\ y[i].at = Wire!Size(y[1].of) - Len(y) + i
        BY <1>5 DEF Rest
    <2>1. /\ i \in 1..(Len(out) - w) /\ 1 \in 1..(Len(out) - w) /\ i \in Nat
          /\ w + i \in 1..Len(out) /\ w + 1 \in 1..Len(out)
        BY <1>3, <1>4
    <2>2. y[i] = out[w + i] /\ y[1] = out[w + 1]
        BY <1>4, <2>1
    <2>3. /\ out[w + i].of = out[1].of /\ out[w + 1].of = out[1].of
          /\ out[w + i].at = Wire!Size(out[1].of) - Len(out) + (w + i)
        BY <2>1 DEF WireInv, Rest
    <2>4. Wire!Size(out[1].of) \in Nat
        <3>1. 1 \in 1..Len(out)
            BY <1>3
        <3>2. out[1] \in Octet
            BY <1>3, <3>1, ElementOfSeq
        <3> QED
            BY <3>2, Messages DEF Octet
    <2>5. Len(y) = Len(out) - w /\ Len(out) \in Nat /\ w \in Nat /\ i \in Nat
        BY ONLY <1>3, <1>4, <2>1
    <2>6. y[i].of = y[1].of /\ y[1].of = out[1].of
        BY ONLY <2>2, <2>3
    <2>7. y[i].at = Wire!Size(y[1].of) - Len(out) + (w + i)
        BY ONLY <2>2, <2>3, <2>6
    <2>8. Wire!Size(y[1].of) \in Nat
        BY ONLY <2>4, <2>6
    <2>9. y[i].at = Wire!Size(y[1].of) - Len(y) + i
        BY ONLY <2>5, <2>7, <2>8
    <2> QED
        BY ONLY <2>6, <2>9
<1>10. Ending'
    BY <1>2, <1>6 DEF WireInv, Ending, AtEnd
<1> QED
    BY <1>6, <1>7, <1>8, <1>9, <1>10 DEF WireInv

LEMMA ReadStep ==
    ASSUME WireAssumption, WireInv, Wire!ReadSome
    PROVE  WireInv' /\ Coming' = Coming /\ (buf \o sock)' = buf \o sock
<1>1. PICK r \in 1..(Wire!Need - Len(buf)) :
          /\ r <= Len(sock) /\ buf' = buf \o SubSeq(sock, 1, r)
          /\ sock' = SubSeq(sock, r + 1, Len(sock))
    BY DEF Wire!ReadSome
<1>2. /\ sentN' = sentN /\ gone' = gone /\ out' = out
      /\ stage' = stage /\ msg' = msg /\ ended' = ended
    BY DEF Wire!ReadSome
<1>n. Wire!Need \in Nat
    BY Pieces DEF WireInv
<1>3. /\ buf \in Seq(Octet) /\ sock \in Seq(Octet) /\ out \in Seq(Octet) /\ r \in 0..Len(sock)
      /\ r \in Nat /\ Len(buf) \in Nat /\ Len(buf) + r <= Wire!Need
    BY <1>n, <1>1 DEF WireInv, WireTypes
<1> DEFINE x == SubSeq(sock, 1, r)  y == SubSeq(sock, r + 1, Len(sock))
<1>4. /\ x \in Seq(Octet) /\ y \in Seq(Octet) /\ Len(x) = r /\ x \o y = sock
    BY <1>3, SplitAt
<1>5. buf' = buf \o x /\ sock' = y
    BY <1>1
<1> HIDE DEF x, y
<1>6. buf' \o sock' = buf \o sock
    <2>s. buf \in Seq(Octet) /\ x \in Seq(Octet) /\ y \in Seq(Octet)
        BY ONLY <1>3, <1>4
    <2>1. (buf \o x) \o y = buf \o (x \o y)
        BY ONLY <2>s, Regroup, ZenonT(60)
    <2> QED
        BY <1>4, <1>5, <2>1
<1>7. Coming' = Coming
    BY <1>2, <1>6 DEF Coming
<1>8. WireTypes'
    <2>1. /\ buf' \in Seq(Octet) /\ sock' \in Seq(Octet) /\ out' \in Seq(Octet)
          /\ Len(buf') = Len(buf) + r
        BY <1>2, <1>3, <1>4, <1>5, ConcatProperties
    <2>2. Wire!Need' = Wire!Need
        BY <1>2 DEF Wire!Need
    <2>3. Len(buf') <= Wire!Need'
        BY <1>3, <2>1, <2>2
    <2> QED
        BY <1>2, <2>1, <2>3 DEF WireInv, WireTypes
<1>9. Stream'
    <2>1. ReadBefore' = ReadBefore
        BY <1>2 DEF ReadBefore
    <2> QED
        BY <1>2, <1>7, <2>1 DEF WireInv, Stream, Begun, Chained, Follows
<1>10. Rest'
    BY <1>2 DEF WireInv, Rest
<1>11. Ending'
    BY <1>2, <1>7 DEF WireInv, Ending, AtEnd
<1> QED
    BY <1>6, <1>7, <1>8, <1>9, <1>10, <1>11 DEF WireInv

(* What is left when bytes are lost behind those the player has. *)
LEMMA CutStep ==
    ASSUME WireAssumption, WireInv, NEW k \in 0..Len(sock),
           sock' = SubSeq(sock, 1, k), out' = <<>>,
           UNCHANGED <<sentN, stage, msg, buf, ended>>
    PROVE  /\ sock' \in Seq(Octet) /\ Coming' = buf \o sock' /\ Coming' \in Seq(Octet)
           /\ Len(Coming') = Len(buf) + k
           /\ \A i \in 1..Len(Coming') : i \in 1..Len(Coming) /\ Coming'[i] = Coming[i]
           /\ Stream' /\ Rest'
           /\ gone' \in {"no", "closed", "torn", "reset"} => WireTypes'
<1>1. /\ sentN' = sentN /\ stage' = stage /\ msg' = msg
      /\ buf' = buf /\ ended' = ended
    OBVIOUS
<1>2. /\ buf \in Seq(Octet) /\ sock \in Seq(Octet) /\ out \in Seq(Octet)
      /\ Len(buf) \in Nat /\ Len(sock) \in Nat /\ Len(out) \in Nat
    BY DEF WireInv, WireTypes
<1> DEFINE x == SubSeq(sock, 1, k)
<1>3. x \in Seq(Octet) /\ Len(x) = k /\ \A i \in 1..k : x[i] = sock[i]
    BY <1>2, SplitAt
<1>4. sock' = x /\ k \in Nat /\ k <= Len(sock)
    BY <1>2
<1> HIDE DEF x
<1>5. buf \o x \in Seq(Octet) /\ Len(buf \o x) = Len(buf) + k
    BY <1>2, <1>3, ConcatProperties
<1>6. Coming' = buf \o x
    <2>1. (buf \o x) \o <<>> = buf \o x
        BY <1>5, ConcatEmptySeq
    <2> QED
        BY <1>1, <1>4, <2>1 DEF Coming
<1>7. Coming \in Seq(Octet) /\ Len(Coming) = Len(buf) + Len(sock) + Len(out)
    BY HasRead DEF WireInv
<1>8. ASSUME NEW i \in 1..(Len(buf) + k)
      PROVE  i \in 1..Len(Coming) /\ (buf \o x)[i] = Coming[i]
    <2>1. i \in 1..Len(Coming) /\ i <= Len(buf) + Len(sock) /\ i \in Nat
        BY <1>2, <1>4, <1>7
    <2>2. (buf \o sock) \in Seq(Octet) /\ Len(buf \o sock) = Len(buf) + Len(sock)
        BY <1>2, ConcatProperties
    <2>3. Coming[i] = (buf \o sock)[i]
        BY <1>2, <2>1, <2>2, ConcatProperties DEF Coming
    <2>4. CASE i <= Len(buf)
        <3>1. (buf \o sock)[i] = buf[i] /\ (buf \o x)[i] = buf[i]
            BY <1>2, <1>3, <2>1, <2>4, ConcatProperties
        <3> QED
            BY <2>1, <2>3, <3>1
    <2>5. CASE ~ (i <= Len(buf))
        <3>1. (buf \o sock)[i] = sock[i - Len(buf)] /\ (buf \o x)[i] = x[i - Len(buf)]
            BY <1>2, <1>3, <2>1, <2>5, ConcatProperties
        <3>2. i - Len(buf) \in 1..k
            BY <1>2, <1>4, <2>5
        <3> QED
            BY <1>3, <2>1, <2>3, <3>1, <3>2
    <2> QED
        BY <2>4, <2>5
<1>9. Stream'
    <2> DEFINE s == buf \o x
    <2>1. s \in Seq(Octet) /\ Len(s) = Len(buf) + k /\ Coming' = s
        BY <1>5, <1>6
    <2>2. \A i \in 1..Len(s) : s[i] = Coming[i]
        BY <1>5, <1>8
    <2>3. Len(s) <= Len(Coming)
        BY <1>2, <1>4, <1>7, <2>1
    <2> HIDE DEF s
    <2>4. Chained(s) /\ Begun(s) /\ (s # <<>> => Coming # <<>> /\ s[1] = Coming[1])
        BY <1>7, <2>1, <2>2, <2>3, CutShort DEF WireInv
    <2>5. ReadBefore' = ReadBefore
        BY <1>1 DEF ReadBefore
    <2>6. Chained(s)' = Chained(s)' /\ Coming' = s
        BY <2>1
    <2>7. Chained(Coming)' /\ Begun(Coming)'
        BY <1>1, <2>1, <2>4 DEF Chained, Begun, Follows
    <2>8. Coming' # <<>> => Coming'[1].at = ReadBefore' + 1 /\ (stage' # "header" => Coming'[1].of = msg')
        BY <1>1, <2>1, <2>4, <2>5 DEF WireInv, Stream
    <2> QED
        BY <2>7, <2>8 DEF Stream
<1>10. Rest'
    BY DEF Rest
<1>11. gone' \in {"no", "closed", "torn", "reset"} => WireTypes'
    <2>1. Wire!Need' = Wire!Need
        BY <1>1 DEF Wire!Need
    <2>2. out' \in Seq(Octet) /\ sock' \in Seq(Octet)
        BY <1>3, <1>4
    <2> QED
        BY <1>1, <2>1, <2>2 DEF WireInv, WireTypes
<1> QED
    BY <1>3, <1>4, <1>5, <1>6, <1>8, <1>9, <1>10, <1>11

LEMMA ResetStep ==
    ASSUME WireAssumption, WireInv, Wire!Reset
    PROVE  WireInv'
<1>1. /\ gone' = "reset" /\ out' = <<>>
      /\ UNCHANGED <<sentN, stage, msg, buf, ended>>
    BY DEF Wire!Reset
<1>2. PICK k \in 0..Len(sock) : sock' = SubSeq(sock, 1, k)
    BY DEF Wire!Reset
<1>3. WireTypes' /\ Stream' /\ Rest'
    BY <1>1, <1>2, CutStep
<1>4. Ending'
    BY <1>1 DEF Ending
<1> QED
    BY <1>3, <1>4 DEF WireInv

LEMMA DeathStep ==
    ASSUME WireAssumption, WireInv, Wire!Dies
    PROVE  WireInv'
<1>1. /\ gone' = IF out[1].at = 1 THEN "closed" ELSE "torn"
      /\ out' = <<>> /\ out # <<>> /\ gone = "no" /\ sock' = sock
      /\ UNCHANGED <<sentN, stage, msg, buf, ended>>
    BY DEF Wire!Dies
<1>2. /\ buf \in Seq(Octet) /\ sock \in Seq(Octet) /\ out \in Seq(Octet)
      /\ Len(buf) \in Nat /\ Len(sock) \in Nat /\ Len(out) \in Nat \ {0}
    BY <1>1, EmptySeq DEF WireInv, WireTypes
<1>3. SubSeq(sock, 1, Len(sock)) = sock /\ Len(sock) \in 0..Len(sock)
    BY <1>2
<1>4. /\ Coming' = buf \o sock /\ Len(Coming') = Len(buf) + Len(sock)
      /\ \A i \in 1..Len(Coming') : i \in 1..Len(Coming) /\ Coming'[i] = Coming[i]
      /\ Stream' /\ Rest' /\ WireTypes'
    <2> DEFINE k == Len(sock)
    <2>1. sock' = SubSeq(sock, 1, k) /\ k \in 0..Len(sock)
        BY <1>1, <1>3
    <2>2. gone' \in {"no", "closed", "torn", "reset"}
        BY <1>1
    <2> HIDE DEF k
    <2>3. /\ Coming' = buf \o sock' /\ Len(Coming') = Len(buf) + k
          /\ \A i \in 1..Len(Coming') : i \in 1..Len(Coming) /\ Coming'[i] = Coming[i]
          /\ Stream' /\ Rest' /\ (gone' \in {"no", "closed", "torn", "reset"} => WireTypes')
        BY ONLY WireAssumption, WireInv, <1>1, <2>1, CutStep
    <2> QED
        BY <1>1, <2>2, <2>3 DEF k
<1> DEFINE s == buf \o sock  n == Len(buf) + Len(sock)
<1>5. /\ s \in Seq(Octet) /\ Len(s) = n /\ n \in Nat
      /\ Coming = s \o out
    BY <1>2, ConcatProperties DEF Coming
<1>6. \A i \in 1..n : s[i] = Coming[i]
    BY <1>4
<1> HIDE DEF s, n
<1>7. Coming[n + 1] = out[1]
    <2>1. n + 1 \in 1..(n + Len(out)) /\ ~ (n + 1 <= n) /\ (n + 1) - n = 1
        BY <1>2, <1>5
    <2>2. (s \o out)[n + 1] = out[(n + 1) - n]
        BY <1>2, <1>5, <2>1, ConcatProperties
    <2> QED
        BY <1>5, <2>1, <2>2
<1>8. Len(Coming) = n + Len(out) /\ Coming # <<>>
    <2>1. Len(Coming) = n + Len(out)
        BY <1>2, <1>5, ConcatProperties
    <2> QED
        BY <1>2, <1>5, <2>1, EmptySeq
<1>9. CASE n = 0
    <2>1. s = <<>> /\ Coming' = <<>>
        BY <1>4, <1>5, <1>9, EmptySeq DEF s
    <2>2. out[1].at = ReadBefore + 1
        BY <1>7, <1>8, <1>9 DEF WireInv, Stream
    <2>3. ReadBefore \in Nat /\ (stage = "header" <=> ReadBefore = 0)
        BY Pieces DEF WireInv
    <2>4. out[1].at = 1 <=> stage = "header"
        BY <2>2, <2>3
    <2> QED
        BY <1>1, <1>4, <2>1, <2>4 DEF WireInv, Ending
<1>10. CASE n # 0
    <2>1. n \in 1..(Len(Coming) - 1) /\ n \in 1..n
        BY <1>2, <1>5, <1>8, <1>10
    <2>2. Follows(Coming[n], Coming[n + 1])
        BY <2>1 DEF WireInv, Stream, Chained
    <2>3. Follows(s[n], out[1])
        BY <1>6, <1>7, <2>1, <2>2
    <2>4. s[n] \in Octet /\ out[1] \in Octet
        <3>1. 1 \in 1..Len(out)
            BY <1>2
        <3> QED
            BY <1>2, <1>5, <2>1, <3>1, ElementOfSeq
    <2>5. /\ s[n].at \in 1..Wire!Size(s[n].of) /\ out[1].at \in 1..Wire!Size(out[1].of)
          /\ Wire!Size(s[n].of) \in Nat /\ Wire!Size(out[1].of) \in Nat
        BY <2>4, Messages DEF Octet
    <2>6. out[1].at = 1 <=> s[n].at = Wire!Size(s[n].of)
        BY <2>3, <2>5 DEF Follows
    <2>7. Coming' = s /\ Len(s) = n /\ s # <<>>
        BY <1>4, <1>5, <1>10, EmptySeq DEF s
    <2>8. AtEnd(Coming)' <=> s[n].at = Wire!Size(s[n].of)
        BY <2>7 DEF AtEnd
    <2> QED
        BY <1>1, <1>4, <2>6, <2>7, <2>8 DEF WireInv, Ending
<1> QED
    BY <1>9, <1>10

LEMMA CloseStep ==
    ASSUME WireAssumption, WireInv, Wire!CloseWire
    PROVE  WireInv' /\ Coming' = Coming
<1>1. /\ gone = "no" /\ gone' = "closed" /\ out = <<>> /\ out' = out
      /\ sentN' = sentN /\ sock' = sock /\ stage' = stage
      /\ msg' = msg /\ buf' = buf /\ ended' = ended
    BY DEF Wire!CloseWire
<1>2. Coming' = Coming
    BY <1>1 DEF Coming
<1>3. Wire!Need' = Wire!Need /\ ReadBefore' = ReadBefore
    BY <1>1 DEF Wire!Need, ReadBefore
<1>4. WireTypes'
    BY <1>1, <1>3 DEF WireInv, WireTypes
<1>5. Stream'
    BY <1>1, <1>2, <1>3 DEF WireInv, Stream, Begun, Chained, Follows
<1>6. Rest'
    BY <1>1 DEF WireInv, Rest
<1>7. Ending'
    BY <1>1, <1>2 DEF WireInv, Ending, AtEnd
<1> QED
    BY <1>2, <1>4, <1>5, <1>6, <1>7 DEF WireInv

(* A message begun is what comes after everything else. *)
LEMMA BytesOf ==
    ASSUME WireAssumption, NEW m \in Framed
    PROVE  /\ Wire!Bytes(m) \in Seq(Octet) /\ Len(Wire!Bytes(m)) = Wire!Size(m)
           /\ Wire!Size(m) \in Nat \ {0}
           /\ \A i \in 1..Wire!Size(m) : Wire!Bytes(m)[i] = [of |-> m, at |-> i]
<1>1. Wire!Size(m) \in Nat \ {0}
    BY Messages DEF WireAssumption
<1>2. \A i \in 1..Wire!Size(m) : [of |-> m, at |-> i] \in Octet
    BY <1>1 DEF Octet
<1> QED
    BY <1>1, <1>2 DEF Wire!Bytes

LEMMA BeginStep ==
    ASSUME WireAssumption, WireInv, NEW m \in Framed, m.n = sentN + 1, Wire!Begin(m)
    PROVE  /\ WireInv'
           /\ Coming' = Coming \o Wire!Bytes(m)
<1>1. /\ gone = "no" /\ out = <<>> /\ out' = Wire!Bytes(m) /\ sentN < MaxSent
      /\ sentN' = sentN + 1 /\ gone' = gone /\ sock' = sock /\ stage' = stage
      /\ msg' = msg /\ buf' = buf /\ ended' = ended
    BY DEF Wire!Begin
<1>2. buf \in Seq(Octet) /\ sock \in Seq(Octet) /\ sentN \in Nat /\ MaxSent \in Nat
    BY DEF WireInv, WireTypes, WireAssumption
<1> DEFINE b == Wire!Bytes(m)  z == Wire!Size(m)  c == buf \o sock
<1>3. /\ b \in Seq(Octet) /\ Len(b) = z /\ z \in Nat \ {0}
      /\ \A i \in 1..z : b[i].of = m /\ b[i].at = i
    <2>1. /\ b \in Seq(Octet) /\ Len(b) = z /\ z \in Nat \ {0}
          /\ \A i \in 1..z : b[i] = [of |-> m, at |-> i]
        BY BytesOf
    <2> QED
        BY <2>1
<1>4. c \in Seq(Octet) /\ Coming = c
    BY <1>1, <1>2, ConcatEmptySeq, ConcatProperties DEF Coming
<1>5. Coming' = c \o b
    BY <1>1 DEF Coming
<1> HIDE DEF b, c
<1> DEFINE n == Len(c)  t == c \o b
<1>6. /\ t \in Seq(Octet) /\ Len(t) = n + z /\ n \in Nat /\ (c = <<>> <=> n = 0)
      /\ \A i \in 1..n : t[i] = c[i]
      /\ \A i \in (n + 1)..(n + z) : t[i] = b[i - n]
    <2>1. t \in Seq(Octet) /\ Len(t) = n + z /\ n \in Nat /\ (c = <<>> <=> n = 0)
        <3>1. t \in Seq(Octet) /\ Len(t) = n + z
            <4>1. b \in Seq(Octet) /\ c \in Seq(Octet)
                BY <1>3, <1>4
            <4>2. c \o b \in Seq(Octet) /\ Len(c \o b) = Len(c) + Len(b)
                BY ONLY <4>1, Joined, Zenon
            <4> QED
                BY <1>3, <4>2
        <3>2. n \in Nat /\ (c = <<>> <=> n = 0)
            BY <1>4, EmptySeq
        <3> QED
            BY <3>1, <3>2
    <2>2. \A i \in 1..n : t[i] = c[i]
        BY <1>3, <1>4
    <2>3. \A i \in (n + 1)..(n + z) : t[i] = b[i - n]
        BY <1>3, <1>4
    <2> QED
        BY <2>1, <2>2, <2>3
<1> HIDE DEF t, n, z
<1>7. \A i \in (n + 1)..(n + z) : t[i].of = m /\ t[i].at = i - n
    <2> SUFFICES ASSUME NEW i \in (n + 1)..(n + z) PROVE t[i].of = m /\ t[i].at = i - n
        OBVIOUS
    <2>1. i - n \in 1..z
        BY <1>3, <1>6
    <2> QED
        BY <1>3, <1>6, <2>1
<1>8. n # 0 => c[n].at = Wire!Size(c[n].of) /\ c[n].of.n = sentN
    BY <1>1, <1>4, <1>6 DEF WireInv, Ending, AtEnd, n
<1>9. Chained(t)
    <2> SUFFICES ASSUME NEW i \in 1..(Len(t) - 1) PROVE Follows(t[i], t[i + 1])
        BY DEF Chained
    <2>1. i \in Nat /\ i + 1 \in Nat /\ Len(t) = n + z
        BY <1>3, <1>6
    <2>2. CASE i + 1 <= n
        <3>1. i \in 1..n /\ i + 1 \in 1..n /\ i \in 1..(n - 1)
            BY <1>6, <2>1, <2>2
        <3>2. Follows(c[i], c[i + 1])
            BY <1>4, <3>1 DEF WireInv, Stream, Chained, n
        <3> QED
            BY <1>6, <3>1, <3>2
    <2>3. CASE i = n
        <3>1. n # 0 /\ n \in 1..n /\ n + 1 \in (n + 1)..(n + z) /\ (n + 1) - n = 1
            BY <1>3, <1>6, <2>1, <2>3
        <3>2. t[i] = c[n] /\ t[i + 1].of = m /\ t[i + 1].at = 1
            BY <1>6, <1>7, <2>3, <3>1
        <3> QED
            BY <1>8, <3>1, <3>2 DEF Follows
    <2>4. CASE i > n
        <3>1. i \in (n + 1)..(n + z) /\ i + 1 \in (n + 1)..(n + z) /\ (i + 1) - n = (i - n) + 1
            BY <1>3, <1>6, <2>1, <2>4
        <3> QED
            BY <1>7, <3>1 DEF Follows
    <2> QED
        BY <1>6, <2>1, <2>2, <2>3, <2>4
<1>10. \A i \in 1..Len(t) : t[i].of.n <= sentN + 1
    <2> SUFFICES ASSUME NEW i \in 1..Len(t) PROVE t[i].of.n <= sentN + 1
        OBVIOUS
    <2>1. CASE i <= n
        <3>1. i \in 1..n /\ t[i] = c[i]
            BY <1>3, <1>6, <2>1
        <3>2. c[i].of.n <= sentN
            BY <1>4, <3>1 DEF WireInv, Stream, Begun, n
        <3>3. c[i].of.n \in Nat
            <4>1. c[i] \in Octet
                BY <1>4, <3>1, ElementOfSeq DEF n
            <4> QED
                BY <4>1, Messages DEF Octet
        <3> QED
            BY <1>2, <3>1, <3>2, <3>3
    <2>2. CASE ~ (i <= n)
        <3>1. i \in (n + 1)..(n + z)
            BY <1>3, <1>6, <2>2
        <3> QED
            BY <1>2, <1>7, <3>1
    <2> QED
        BY <2>1, <2>2
<1>11. t[1].at = ReadBefore + 1 /\ (stage # "header" => t[1].of = msg)
    <2>1. CASE n = 0
        <3>1. stage = "header"
            BY <1>1, <1>4, <1>6, <2>1 DEF WireInv, Ending
        <3>2. ReadBefore = 0
            BY <3>1 DEF ReadBefore
        <3>3. 1 \in (n + 1)..(n + z) /\ 1 - n = 1
            BY <1>3, <2>1
        <3> QED
            BY <1>7, <3>1, <3>2, <3>3
    <2>2. CASE n # 0
        <3>1. 1 \in 1..n
            BY <1>6, <2>2
        <3> QED
            BY <1>4, <1>6, <2>2, <3>1 DEF WireInv, Stream
    <2> QED
        BY <2>1, <2>2
<1>12. Stream'
    <2>1. ReadBefore' = ReadBefore
        BY <1>1 DEF ReadBefore
    <2>2. Coming' = t
        BY <1>5 DEF t
    <2>3. Chained(Coming)'
        BY <1>9, <2>2 DEF Chained, Follows
    <2>4. Begun(Coming)'
        BY <1>1, <1>10, <2>2 DEF Begun
    <2> QED
        BY <1>1, <1>11, <2>1, <2>2, <2>3, <2>4 DEF Stream
<1>13. WireTypes'
    <2>1. Wire!Need' = Wire!Need
        BY <1>1 DEF Wire!Need
    <2>2. sentN' \in 0..MaxSent
        BY <1>1, <1>2
    <2>3. out' \in Seq(Octet)
        BY <1>1, <1>3 DEF b
    <2> QED
        BY <1>1, <2>1, <2>2, <2>3 DEF WireInv, WireTypes
<1>14. Rest'
    <2> SUFFICES ASSUME NEW i \in 1..Len(b)
                 PROVE  b[i].of = b[1].of /\ b[i].at = Wire!Size(b[1].of) - Len(b) + i
        BY <1>1 DEF Rest, b
    <2>1. i \in 1..z /\ 1 \in 1..z /\ i \in Nat
        BY <1>3
    <2>2. b[i].of = m /\ b[i].at = i /\ b[1].of = m
        BY <1>3, <2>1
    <2>3. Wire!Size(b[1].of) = z /\ Len(b) = z
        BY <1>3, <2>2 DEF z
    <2> QED
        BY <1>3, <2>1, <2>2, <2>3
<1>15. Ending'
    <2>1. n + z \in (n + 1)..(n + z) /\ (n + z) - n = z
        BY <1>3, <1>6
    <2>2. t[n + z].of = m /\ t[n + z].at = z
        BY <1>7, <2>1
    <2>3. Coming' = t /\ Len(t) = n + z /\ t # <<>>
        <3>1. n + z # 0
            BY <1>3, <1>6
        <3> QED
            BY <1>5, <1>6, <3>1, EmptySeq DEF t
    <2>4. t[Len(t)].of = m /\ t[Len(t)].at = Wire!Size(m)
        BY <2>2, <2>3 DEF z
    <2>5. AtEnd(Coming)' /\ Coming'[Len(Coming')].of.n = sentN'
        BY <1>1, <2>3, <2>4 DEF AtEnd
    <2> QED
        BY <1>1, <2>3, <2>5 DEF Ending
<1> QED
    BY <1>4, <1>5, <1>12, <1>13, <1>14, <1>15 DEF WireInv, b

LEMMA WholeFrames ==
    ASSUME WireAssumption, NEW bytes \in 0..Wire!ChunkBytes
    PROVE  Wire!Whole(bytes) \in 0..ChunkFrames
<1>1. ChunkFrames \in Nat /\ FrameBytes \in Nat \ {0}
    BY DEF WireAssumption
<1>2. ChunkFrames * FrameBytes \in Nat /\ bytes \in 0..ChunkFrames * FrameBytes
    BY <1>1 DEF Wire!ChunkBytes
<1>3. \A b, c \in Nat : b <= c * FrameBytes => b \div FrameBytes \in 0..c
    BY <1>1
<1> QED
    BY <1>1, <1>2, <1>3 DEF Wire!Whole

LEMMA AudioFramed ==
    ASSUME WireAssumption, WireInv, Source, sentN < MaxSent,
           NEW bytes \in 0..Wire!ChunkBytes,
           Wire!Whole(bytes) > 0, NEW p \in Wire!Payloads(Wire!Whole(bytes)),
           NEW m, m = [kind |-> "audio", n |-> sentN + 1, track |-> wireTrack,
                       missed |-> missed, frames |-> Wire!Whole(bytes), plen |-> p[2],
                       codec |-> p[1]]
    PROVE  /\ m \in Framed /\ m.n = sentN + 1 /\ Wire!Whole(bytes) \in 1..ChunkFrames
           /\ m.kind = "audio" /\ m.track = wireTrack /\ m.missed = missed
           /\ m.frames = Wire!Whole(bytes)
<1> DEFINE f == Wire!Whole(bytes)
<1>1. /\ ChunkFrames \in Nat \ {0} /\ FrameBytes \in Nat \ {0} /\ Slack \in Nat
      /\ MaxSent \in Nat /\ MaxIndex \in Nat
    BY DEF WireAssumption
<1>2. sentN \in Nat /\ wireTrack \in 0..MaxIndex /\ missed \in 0..MaxIndex
    BY <1>1 DEF WireInv, WireTypes, Source
<1>3. f \in 1..ChunkFrames
    BY <1>1, WholeFrames
<1> HIDE DEF f
<1>4. f * FrameBytes \in 1..ChunkFrames * FrameBytes
    <2>1. \A a, b \in Nat : a <= b => a * FrameBytes <= b * FrameBytes
        BY <1>1
    <2>2. \A a \in Nat \ {0} : a * FrameBytes >= 1 /\ a * FrameBytes \in Nat
        BY <1>1
    <2>3. f \in Nat \ {0} /\ f <= ChunkFrames /\ ChunkFrames \in Nat
        BY <1>1, <1>3
    <2>4. f * FrameBytes <= ChunkFrames * FrameBytes
        BY <2>1, <2>3
    <2>5. f * FrameBytes >= 1 /\ f * FrameBytes \in Nat /\ ChunkFrames * FrameBytes \in Nat
        BY <1>1, <2>2, <2>3
    <2> QED
        BY <2>4, <2>5
<1>5. /\ p[1] \in {"raw", "flac"} /\ p[2] \in 1..Wire!MaxPayload
      /\ p[1] = "raw" => p[2] = f * FrameBytes
    <2>1. CASE p = <<"raw", f * FrameBytes>>
        <3>1. p[1] = "raw" /\ p[2] = f * FrameBytes
            BY <2>1
        <3>2. f * FrameBytes \in 1..Wire!MaxPayload
            BY <1>1, <1>4 DEF Wire!MaxPayload, Wire!ChunkBytes
        <3> QED
            BY <3>1, <3>2
    <2>2. CASE p # <<"raw", f * FrameBytes>>
        <3>1. PICK e \in Wire!Shrunk(f) : p = <<"flac", e>>
            BY <2>2, Zenon DEF Wire!Payloads, f
        <3>2. p[1] = "flac" /\ p[2] = e
            BY <3>1
        <3>3. e \in 1..Wire!MaxPayload
            BY DEF Wire!Shrunk, Wire!Encodings
        <3> QED
            BY <3>2, <3>3
    <2> QED
        BY <2>1, <2>2
<1>7. sentN + 1 \in 1..MaxSent
    BY <1>1, <1>2
<1>9. /\ m.kind = "audio" /\ m.n = sentN + 1 /\ m.track = wireTrack /\ m.missed = missed
      /\ m.frames = f /\ m.plen = p[2] /\ m.codec = p[1]
    BY DEF f
<1>10. m \in Wire!Audio
    BY <1>2, <1>3, <1>5, <1>7 DEF Wire!Audio, f
<1>11. m \in Framed
    BY <1>5, <1>9, <1>10 DEF Framed, Sendable, Wire!Message
<1> QED
    BY <1>3, <1>9, <1>11 DEF f

LEMMA PongFramed ==
    ASSUME WireAssumption, WireInv, sentN < MaxSent,
           NEW m, m = [kind |-> "pong", n |-> sentN + 1]
    PROVE  m \in Framed /\ m.n = sentN + 1 /\ m.kind = "pong"
<1>1. sentN \in Nat /\ MaxSent \in Nat
    BY DEF WireInv, WireTypes, WireAssumption
<1>2. sentN + 1 \in 1..MaxSent
    BY <1>1
<1>3. m.kind = "pong" /\ m.n = sentN + 1
    OBVIOUS
<1>4. m \in Framed
    BY <1>2, <1>3 DEF Framed, Sendable, Wire!Message
<1> QED
    BY <1>3, <1>4

LEMMA SendStep ==
    ASSUME WireAssumption, WireInv, Source, Wire!SendAudio \/ Wire!SendPong
    PROVE  \E m \in Framed : /\ WireInv' /\ Coming' = Coming \o Wire!Bytes(m)
                             /\ m.n = sentN + 1 /\ Wire!Begin(m)
                             /\ fanned' = fanned /\ Heard' = Heard + FramesOf(m)
                             /\ OfTrack(m, Heard)
<1>1. CASE Wire!SendAudio
    <2> DEFINE Chunk(bytes, p) ==
                   [kind |-> "audio", n |-> sentN + 1, track |-> wireTrack,
                    missed |-> missed, frames |-> Wire!Whole(bytes), plen |-> p[2],
                    codec |-> p[1]]
    <2>1. PICK bytes \in 0..Wire!ChunkBytes :
              /\ Wire!Whole(bytes) > 0
              /\ \E p \in Wire!Payloads(Wire!Whole(bytes)) : Wire!Begin(Chunk(bytes, p))
              /\ wireTrack' = wireTrack + Wire!Whole(bytes) /\ missed' = 0 /\ fanned' = fanned
        BY <1>1 DEF Wire!SendAudio
    <2>2. PICK p \in Wire!Payloads(Wire!Whole(bytes)) : Wire!Begin(Chunk(bytes, p))
        BY <2>1
    <2> DEFINE m == Chunk(bytes, p)
    <2>3. /\ Wire!Begin(m)
          /\ m = [kind |-> "audio", n |-> sentN + 1, track |-> wireTrack,
                  missed |-> missed, frames |-> Wire!Whole(bytes), plen |-> p[2],
                  codec |-> p[1]]
        BY <2>2
    <2> HIDE DEF m
    <2>4. sentN < MaxSent
        BY <2>3 DEF Wire!Begin
    <2>5. /\ m \in Framed /\ m.n = sentN + 1 /\ Wire!Whole(bytes) \in 1..ChunkFrames
          /\ m.kind = "audio" /\ m.track = wireTrack /\ m.missed = missed
          /\ m.frames = Wire!Whole(bytes)
        BY <2>1, <2>3, <2>4, AudioFramed
    <2>6. WireInv' /\ Coming' = Coming \o Wire!Bytes(m)
        BY <2>3, <2>5, BeginStep
    <2>7. wireTrack \in Nat /\ missed \in Nat /\ ChunkFrames \in Nat
        BY DEF Source, WireAssumption
    <2>8. Heard' = Heard + FramesOf(m)
        BY <2>1, <2>5, <2>7 DEF FramesOf, Heard
    <2>9. OfTrack(m, Heard)
        BY <2>5, <2>7 DEF OfTrack, Heard, Source
    <2> QED
        BY <2>1, <2>3, <2>5, <2>6, <2>8, <2>9
<1>2. CASE Wire!SendPong
    <2> DEFINE m == [kind |-> "pong", n |-> sentN + 1]
    <2>1. /\ Wire!Begin(m) /\ fanned' = fanned /\ Heard' = Heard
          /\ m = [kind |-> "pong", n |-> sentN + 1]
        BY <1>2 DEF Wire!SendPong, Wire!source, Heard
    <2> HIDE DEF m
    <2>2. sentN < MaxSent
        BY <2>1 DEF Wire!Begin
    <2>3. m \in Framed /\ m.n = sentN + 1 /\ m.kind = "pong"
        BY <2>1, <2>2, PongFramed
    <2>4. WireInv' /\ Coming' = Coming \o Wire!Bytes(m)
        BY <2>1, <2>3, BeginStep
    <2>5. Heard' = Heard + FramesOf(m)
        <3>1. Heard \in Int
            BY DEF Heard, Source
        <3> QED
            BY <2>1, <2>3, <3>1 DEF FramesOf
    <2>6. OfTrack(m, Heard)
        BY <2>3 DEF OfTrack
    <2> QED
        BY <2>1, <2>3, <2>4, <2>5, <2>6
<1> QED
    BY <1>1, <1>2

(* A chunk that this peer is not sent changes nothing it can see. *)
LEMMA SkipStep ==
    ASSUME WireAssumption, WireInv, Source, Wire!Skip
    PROVE  WireInv' /\ Coming' = Coming /\ Heard' = Heard /\ fanned' = fanned
<1>1. /\ sentN' = sentN /\ out' = out /\ sock' = sock /\ fanned' = fanned
      /\ gone' = gone /\ stage' = stage /\ msg' = msg /\ buf' = buf /\ ended' = ended
    BY DEF Wire!Skip
<1>2. Coming' = Coming /\ Wire!Need' = Wire!Need /\ ReadBefore' = ReadBefore
    BY <1>1 DEF Coming, Wire!Need, ReadBefore
<1>3. WireTypes'
    BY <1>1, <1>2 DEF WireInv, WireTypes
<1>4. Stream'
    BY <1>1, <1>2 DEF WireInv, Stream, Begun, Chained, Follows
<1>5. Rest' /\ Ending'
    BY <1>1, <1>2 DEF WireInv, Rest, Ending, AtEnd
<1>6. Heard' = Heard
    <2>1. PICK bytes \in 0..Wire!ChunkBytes :
              /\ Wire!Whole(bytes) > 0 /\ wireTrack + Wire!Whole(bytes) <= MaxIndex
              /\ wireTrack' = wireTrack + Wire!Whole(bytes)
              /\ missed' = missed + Wire!Whole(bytes)
        BY DEF Wire!Skip
    <2>2. wireTrack \in Int /\ missed \in Int
        BY DEF Source
    <2>3. \A a, b, k \in Int : (a + k) - (b + k) = a - b
        OBVIOUS
    <2> QED
        BY <2>1, <2>2, <2>3, WholeFrames DEF Heard
<1> QED
    BY <1>1, <1>2, <1>3, <1>4, <1>5, <1>6 DEF WireInv

LEMMA SourceKept ==
    ASSUME WireAssumption, Source, Wire!WireNext
    PROVE  Source'
<1>1. wireTrack \in Nat /\ missed \in Nat /\ missed <= wireTrack /\ MaxIndex \in Nat
    BY DEF Source, WireAssumption
<1>2. CASE Wire!SendAudio
    <2>1. PICK bytes \in 0..Wire!ChunkBytes :
              /\ Wire!Whole(bytes) > 0 /\ wireTrack + Wire!Whole(bytes) <= MaxIndex
              /\ wireTrack' = wireTrack + Wire!Whole(bytes) /\ missed' = 0
        BY <1>2 DEF Wire!SendAudio
    <2>2. Wire!Whole(bytes) \in Int
        BY WholeFrames
    <2> QED
        BY <1>1, <2>1, <2>2 DEF Source
<1>3. CASE Wire!Skip
    <2>1. PICK bytes \in 0..Wire!ChunkBytes :
              /\ Wire!Whole(bytes) > 0 /\ wireTrack + Wire!Whole(bytes) <= MaxIndex
              /\ wireTrack' = wireTrack + Wire!Whole(bytes)
              /\ missed' = missed + Wire!Whole(bytes)
        BY <1>3 DEF Wire!Skip
    <2>2. Wire!Whole(bytes) \in Int /\ fanned /\ fanned' = fanned
        BY <1>3, WholeFrames DEF Wire!Skip, Wire!Lagging
    <2>3. wireTrack' \in 0..MaxIndex /\ missed' \in 0..wireTrack'
        BY <1>1, <2>1, <2>2
    <2> QED
        BY <2>2, <2>3 DEF Source
<1>4. CASE UNCHANGED Wire!source
    BY <1>4 DEF Source, Wire!source
<1> QED
    BY <1>2, <1>3, <1>4 DEF Wire!WireNext, Wire!SendPong, Wire!WriteSome, Wire!CloseWire,
       Wire!Dies, Wire!Reset, Wire!Player, Wire!ReadSome, Wire!ReadEnd, Wire!Parse

-----------------------------------------------------------------------------
(* The steps of the player. *)

(* A piece that is complete, and what comes after it. *)
LEMMA AfterPiece ==
    ASSUME WireAssumption, WireInv, Len(buf) = Wire!Need, NEW m, m = Coming[1].of,
           NEW r, r = (<<>> \o sock) \o out
    PROVE  /\ Coming # <<>> /\ m \in Framed /\ (stage # "header" => msg = m)
           /\ \A i \in 1..Wire!Need : buf[i].of = m /\ buf[i].at = ReadBefore + i
           /\ r \in Seq(Octet) /\ Chained(r) /\ Begun(r) /\ r = sock \o out
           /\ r # <<>> =>
                /\ ReadBefore + Wire!Need < Wire!Size(m) =>
                      r[1].of = m /\ r[1].at = ReadBefore + Wire!Need + 1
                /\ ReadBefore + Wire!Need = Wire!Size(m) =>
                      r[1].at = 1 /\ r[1].of.n = m.n + 1
                /\ r[Len(r)] = Coming[Len(Coming)]
           /\ r = <<>> => /\ Coming[Len(Coming)].of = m
                          /\ Coming[Len(Coming)].at = ReadBefore + Wire!Need
           /\ \A i \in 1..Len(r) : Wire!Need + i \in 1..Len(Coming) /\ r[i] = Coming[Wire!Need + i]
<1>1. /\ buf \in Seq(Octet) /\ sock \in Seq(Octet) /\ out \in Seq(Octet)
      /\ Len(buf) \in Nat /\ Len(sock) \in Nat /\ Len(out) \in Nat
    BY DEF WireInv, WireTypes
<1> DEFINE k == Wire!Need  c == Coming  w == sock \o out
<1>2. k \in Nat \ {0} /\ ReadBefore \in Nat /\ Len(buf) = k
    BY Pieces DEF WireInv
<1>3. r = w
    BY <1>1, ConcatEmptySeq
<1>4. c = buf \o w
    BY ONLY <1>1, Regroup, ZenonT(60) DEF Coming
<1>5. w \in Seq(Octet)
    BY ONLY <1>1, Joined, ZenonT(60)
<1>6. c \in Seq(Octet)
    BY HasRead DEF WireInv
<1> HIDE DEF k, c, w
<1>7. Len(w) \in Nat /\ Len(c) = k + Len(w) /\ Len(c) \in Nat \ {0}
    <2>1. Len(buf \o w) = Len(buf) + Len(w)
        BY ONLY <1>1, <1>5, Joined, Zenon
    <2>2. Len(w) \in Nat
        BY <1>5
    <2> QED
        BY <1>2, <1>4, <2>1, <2>2
<1>8. \A i \in 1..Len(w) : k + i \in 1..Len(c) /\ w[i] = c[k + i]
    <2> SUFFICES ASSUME NEW i \in 1..Len(w) PROVE k + i \in 1..Len(c) /\ w[i] = c[k + i]
        OBVIOUS
    <2>1. k + i \in 1..(Len(buf) + Len(w)) /\ ~ (k + i <= Len(buf)) /\ (k + i) - Len(buf) = i
        BY <1>2, <1>7
    <2>2. (buf \o w)[k + i] = w[(k + i) - Len(buf)]
        BY <1>1, <1>5, <2>1, ConcatProperties
    <2> QED
        BY <1>2, <1>4, <1>7, <2>1, <2>2
<1>9. c # <<>>
    BY <1>7, EmptySeq
<1>10. m \in Framed /\ ReadBefore + k <= Wire!Size(m)
    BY <1>9, HasRead DEF WireInv, c, k
<1>11. stage # "header" => msg = m
    BY <1>9 DEF WireInv, Stream, c
<1>12. \A i \in 1..k : buf[i].of = m /\ buf[i].at = ReadBefore + i /\ buf[i] = c[i]
    BY <1>2, HasRead DEF WireInv, c, k
<1>13. Chained(w)
    <2> SUFFICES ASSUME NEW i \in 1..(Len(w) - 1) PROVE Follows(w[i], w[i + 1])
        BY DEF Chained
    <2>1. /\ i \in 1..Len(w) /\ i + 1 \in 1..Len(w) /\ k + (i + 1) = (k + i) + 1
          /\ k + i \in 1..(Len(c) - 1)
        BY <1>2, <1>7
    <2>2. Follows(c[k + i], c[(k + i) + 1])
        BY <2>1 DEF WireInv, Stream, Chained, c
    <2> QED
        BY <1>8, <2>1, <2>2
<1>14. Begun(w)
    <2> SUFFICES ASSUME NEW i \in 1..Len(w) PROVE w[i].of.n <= sentN
        BY DEF Begun
    <2>1. k + i \in 1..Len(c) /\ w[i] = c[k + i]
        BY <1>8
    <2> QED
        BY <2>1 DEF WireInv, Stream, Begun, c
<1>15. ASSUME w # <<>>
       PROVE  /\ ReadBefore + k < Wire!Size(m) => w[1].of = m /\ w[1].at = ReadBefore + k + 1
              /\ ReadBefore + k = Wire!Size(m) => w[1].at = 1 /\ w[1].of.n = m.n + 1
              /\ w[Len(w)] = c[Len(c)]
    <2>1. Len(w) \in Nat \ {0} /\ 1 \in 1..Len(w) /\ Len(w) \in 1..Len(w)
        BY <1>5, <1>15, EmptySeq
    <2>2. w[1] = c[k + 1] /\ w[Len(w)] = c[Len(c)]
        BY <1>7, <1>8, <2>1
    <2>3. k \in 1..(Len(c) - 1) /\ k \in 1..k
        BY <1>2, <1>7, <2>1
    <2>4. Follows(c[k], c[k + 1])
        BY <2>3 DEF WireInv, Stream, Chained, c
    <2>5. Follows(buf[k], w[1])
        BY <1>12, <2>2, <2>3, <2>4
    <2>6. buf[k].of = m /\ buf[k].at = ReadBefore + k
        BY <1>12, <2>3
    <2>7. w[1].at \in 1..Wire!Size(w[1].of) /\ w[1].of \in Framed
        <3>1. w[1] \in Octet
            BY <1>5, <2>1, ElementOfSeq
        <3> QED
            BY <3>1 DEF Octet
    <2>8. Wire!Size(m) \in Nat /\ Wire!Size(w[1].of) \in Nat
        BY <1>10, <2>7, Messages
    <2>9. ReadBefore + k < Wire!Size(m) => w[1].of = m /\ w[1].at = ReadBefore + k + 1
        BY <1>2, <2>5, <2>6, <2>8 DEF Follows
    <2>10. ReadBefore + k = Wire!Size(m) => w[1].at = 1 /\ w[1].of.n = m.n + 1
        BY <1>2, <2>5, <2>6, <2>7, <2>8 DEF Follows
    <2> QED
        BY <2>2, <2>9, <2>10
<1>16. ASSUME w = <<>>
       PROVE  c[Len(c)].of = m /\ c[Len(c)].at = ReadBefore + k
    <2>1. Len(c) = k /\ k \in 1..k
        BY <1>2, <1>7, <1>16, EmptySeq
    <2> QED
        BY <1>12, <2>1
<1> QED
    BY <1>3, <1>5, <1>8, <1>9, <1>10, <1>11, <1>12, <1>13, <1>14, <1>15, <1>16 DEF c, k, w

(* The player goes on to the next piece of a message, or to the next message. *)
LEMMA NextPiece ==
    ASSUME WireAssumption, WireInv, Len(buf) = Wire!Need, buf' = <<>>,
           UNCHANGED <<sentN, out, sock, gone, ended>>,
           stage' \in {"header", "pong", "fixed", "payload"},
           stage' # "header" => /\ msg' = Coming[1].of
                                /\ ReadBefore' = ReadBefore + Wire!Need
                                /\ ReadBefore + Wire!Need < Wire!Size(Coming[1].of),
           stage' = "header" => ReadBefore + Wire!Need = Wire!Size(Coming[1].of),
           stage' = "pong" => msg'.kind = "pong",
           stage' \in {"fixed", "payload"} => msg'.kind = "audio"
    PROVE  WireInv'
<1> DEFINE m == Coming[1].of  r == (<<>> \o sock) \o out
           before == ReadBefore + Wire!Need  old == Coming[Len(Coming)]
<1>1. /\ sentN' = sentN /\ out' = out /\ sock' = sock
      /\ gone' = gone /\ ended' = ended /\ Coming' = r
    BY DEF Coming
<1>2. /\ Coming # <<>> /\ m \in Framed
      /\ r \in Seq(Octet) /\ Chained(r) /\ Begun(r)
      /\ r # <<>> =>
                /\ before < Wire!Size(m) => r[1].of = m /\ r[1].at = before + 1
                /\ before = Wire!Size(m) => r[1].at = 1 /\ r[1].of.n = m.n + 1
                /\ r[Len(r)] = old
      /\ r = <<>> => old.of = m /\ old.at = before
    BY AfterPiece
<1>3. before \in Nat /\ Wire!Size(m) \in Nat
    BY <1>2, Pieces, Messages DEF WireInv
<1>4. ReadBefore' = 0 <=> stage' = "header"
    <2>1. stage' = "header" => ReadBefore' = 0
        BY DEF ReadBefore
    <2>2. before # 0
        BY Pieces DEF WireInv
    <2> QED
        BY <2>1, <2>2
<1>5. /\ stage' # "header" => msg' = m /\ ReadBefore' = before /\ before < Wire!Size(m)
      /\ stage' = "header" => ReadBefore' = 0 /\ before = Wire!Size(m)
    BY <1>4
<1>6. /\ gone = "no" => AtEnd(Coming) /\ old.of.n = sentN
      /\ gone # "no" => out = <<>>
      /\ gone = "closed" => AtEnd(Coming)
      /\ gone = "torn" => ~ AtEnd(Coming)
    BY <1>2 DEF WireInv, Ending
<1>7. AtEnd(Coming) <=> old.at = Wire!Size(old.of)
    BY DEF AtEnd
<1> HIDE DEF m, r, before, old
<1>8. WireTypes'
    <2>1. Len(buf') <= Wire!Need'
        <3>1. Wire!Need' \in Nat
            <4>1. CASE stage' = "payload"
                <5>1. msg' \in Framed /\ msg'.kind = "audio"
                    BY <1>2, <1>5, <4>1
                <5> QED
                    BY <4>1, <5>1, Messages DEF Wire!Need
            <4>2. CASE stage' # "payload"
                BY <4>2 DEF Wire!Need, WireAssumption
            <4> QED
                BY <4>1, <4>2
        <3> QED
            BY <3>1
    <2>2. buf' \in Seq(Octet)
        OBVIOUS
    <2>3. stage' # "header" => msg' \in Framed
        BY <1>2, <1>5
    <2>4. sock' \in Seq(Octet) /\ out' \in Seq(Octet)
        BY <1>1 DEF WireInv, WireTypes
    <2> QED
        BY <1>1, <2>1, <2>2, <2>3, <2>4 DEF WireInv, WireTypes
<1>9. Stream'
    <2>1. Chained(Coming)'
        BY <1>1, <1>2 DEF Chained, Follows
    <2>2. Begun(Coming)'
        BY <1>1, <1>2 DEF Begun
    <2>3. r # <<>> => r[1].at = ReadBefore' + 1 /\ (stage' # "header" => r[1].of = msg')
        BY <1>2, <1>3, <1>5
    <2> QED
        BY <1>1, <2>1, <2>2, <2>3 DEF Stream
<1>10. Rest'
    BY <1>1 DEF WireInv, Rest
<1>11. Ending'
    <2>1. CASE r = <<>>
        <3>1. AtEnd(Coming) <=> stage' = "header"
            BY <1>2, <1>3, <1>5, <1>7, <2>1
        <3> QED
            BY <1>1, <1>6, <2>1, <3>1 DEF Ending
    <2>2. CASE r # <<>>
        <3>1. AtEnd(Coming)' <=> AtEnd(Coming)
            BY <1>1, <1>2, <1>7, <2>2 DEF AtEnd
        <3>2. Coming'[Len(Coming')] = old
            BY <1>1, <1>2, <2>2
        <3> QED
            BY <1>1, <1>6, <2>2, <3>1, <3>2 DEF Ending
    <2> QED
        BY <2>1, <2>2
<1> QED
    BY <1>8, <1>9, <1>10, <1>11 DEF WireInv

(* Every piece is what its place in the message says it is: nothing fails. *)
LEMMA ParseCases ==
    ASSUME WireAssumption, WireInv, Wire!Parse, NEW m, m = Coming[1].of
    PROVE  /\ UNCHANGED <<sentN, out, sock, gone>> /\ ended = "open"
           /\ Len(buf) = Wire!Need /\ m \in Framed
           /\ \/ stage = "header" /\ Wire!Turn(IF m.kind = "pong" THEN "pong" ELSE "fixed", m)
              \/ stage = "pong" /\ msg = m /\ Wire!Take(m, rxNextSrc)
              \/ stage = "fixed" /\ msg = m /\ Wire!Turn("payload", m)
              \/ stage = "payload" /\ msg = m /\ Wire!Take(m, m.track + m.frames)
<1>1. /\ UNCHANGED <<sentN, out, sock, gone>> /\ ended = "open"
      /\ Len(buf) = Wire!Need
    BY DEF Wire!Parse
<1>2. /\ m \in Framed /\ (stage # "header" => msg = m)
      /\ \A i \in 1..Wire!Need : buf[i].of = m /\ buf[i].at = ReadBefore + i
    <2> DEFINE r == (<<>> \o sock) \o out
    <2>1. r = (<<>> \o sock) \o out
        OBVIOUS
    <2> HIDE DEF r
    <2> QED
        BY <1>1, <2>1, AfterPiece
<1>3. CASE Wire!ParseHeader
    <2>1. stage = "header" /\ Wire!Need = HeaderLen /\ ReadBefore = 0
        BY <1>3 DEF Wire!ParseHeader, Wire!Need, ReadBefore
    <2>2. HeaderLen \in Nat \ {0} /\ 1 \in 1..HeaderLen
        BY DEF WireAssumption
    <2>3. \A i \in 1..HeaderLen : buf[i].of = m /\ buf[i].at = i
        BY <1>2, <2>1, <2>2
    <2>4. Wire!IsHeader(buf) /\ buf[1].of = m
        BY <2>2, <2>3 DEF Wire!IsHeader
    <2> QED
        BY <1>1, <1>2, <1>3, <2>1, <2>4 DEF Wire!ParseHeader
<1>4. CASE Wire!ParseBody
    <2>1. CASE stage = "pong"
        BY <1>1, <1>2, <1>4, <2>1 DEF Wire!ParseBody
    <2>2. CASE stage = "fixed"
        <3>1. msg = m /\ m.kind = "audio"
            BY <1>2, <2>2 DEF WireInv, WireTypes
        <3>2. Wire!Fits(m)
            BY <1>2, <3>1, Messages
        <3> QED
            BY <1>1, <1>2, <1>4, <2>2, <3>1, <3>2 DEF Wire!ParseBody
    <2>3. CASE stage = "payload"
        <3>1. msg = m /\ m.kind = "audio"
            BY <1>2, <2>3 DEF WireInv, WireTypes
        <3>2. Wire!Decoded(m) = m.frames
            BY <1>2, <3>1, Messages
        <3> QED
            BY <1>1, <1>2, <1>4, <2>3, <3>1, <3>2 DEF Wire!ParseBody
    <2> QED
        BY <1>4, <2>1, <2>2, <2>3 DEF Wire!ParseBody
<1> QED
    BY <1>3, <1>4 DEF Wire!Parse

LEMMA ParseStep ==
    ASSUME WireAssumption, WireInv, Wire!Parse
    PROVE  WireInv'
<1> DEFINE m == Coming[1].of
<1>1. /\ UNCHANGED <<sentN, out, sock, gone>> /\ Len(buf) = Wire!Need /\ m \in Framed
      /\ \/ stage = "header" /\ Wire!Turn(IF m.kind = "pong" THEN "pong" ELSE "fixed", m)
         \/ stage = "pong" /\ msg = m /\ Wire!Take(m, rxNextSrc)
         \/ stage = "fixed" /\ msg = m /\ Wire!Turn("payload", m)
         \/ stage = "payload" /\ msg = m /\ Wire!Take(m, m.track + m.frames)
    BY ParseCases
<1>2. m.kind \in {"audio", "pong"}
    BY <1>1, Messages
<1> HIDE DEF m
<1>3. CASE stage = "header" /\ Wire!Turn(IF m.kind = "pong" THEN "pong" ELSE "fixed", m)
    <2>1. /\ stage' = (IF m.kind = "pong" THEN "pong" ELSE "fixed") /\ msg' = m /\ buf' = <<>>
          /\ ended' = ended
        BY <1>3 DEF Wire!Turn
    <2>2. ReadBefore' = HeaderLen /\ ReadBefore = 0 /\ Wire!Need = HeaderLen
        BY <1>3, <2>1 DEF ReadBefore, Wire!Need
    <2>3. ReadBefore + Wire!Need < Wire!Size(m) /\ ReadBefore' = ReadBefore + Wire!Need
        BY <1>1, <1>3, <2>2, Pieces DEF WireInv, WireAssumption
    <2> QED
        BY <1>1, <1>2, <2>1, <2>3, NextPiece DEF m
<1>4. CASE stage = "fixed" /\ msg = m /\ Wire!Turn("payload", m)
    <2>1. stage' = "payload" /\ msg' = m /\ buf' = <<>> /\ ended' = ended
        BY <1>4 DEF Wire!Turn
    <2>2. /\ ReadBefore' = HeaderLen + FixedLen /\ ReadBefore = HeaderLen
          /\ Wire!Need = FixedLen /\ m.kind = "audio"
        BY <1>4, <2>1 DEF ReadBefore, Wire!Need, WireInv, WireTypes
    <2>3. ReadBefore + Wire!Need < Wire!Size(m) /\ ReadBefore' = ReadBefore + Wire!Need
        BY <1>4, <2>2, Pieces DEF WireInv
    <2> QED
        BY <1>1, <2>1, <2>2, <2>3, NextPiece DEF m
<1>5. CASE \/ stage = "pong" /\ msg = m /\ Wire!Take(m, rxNextSrc)
           \/ stage = "payload" /\ msg = m /\ Wire!Take(m, m.track + m.frames)
    <2>1. stage' = "header" /\ buf' = <<>> /\ ended' = ended
        BY <1>5 DEF Wire!Take
    <2>2. ReadBefore + Wire!Need = Wire!Size(m)
        BY <1>5, Pieces DEF WireInv
    <2> QED
        BY <1>1, <2>1, <2>2, NextPiece DEF m
<1> QED
    BY <1>1, <1>3, <1>4, <1>5

LEMMA EndStep ==
    ASSUME WireInv, Wire!ReadEnd
    PROVE  WireInv' /\ Coming' = Coming
<1>1. /\ sentN' = sentN /\ out' = out /\ sock' = sock
      /\ gone' = gone /\ stage' = stage /\ msg' = msg /\ buf' = buf
      /\ ended' \in {"clean", "broken"}
    BY DEF Wire!ReadEnd, Wire!AfterEnd
<1>2. Coming' = Coming /\ Wire!Need' = Wire!Need /\ ReadBefore' = ReadBefore
    BY <1>1 DEF Coming, Wire!Need, ReadBefore
<1>3. WireTypes'
    BY <1>1, <1>2 DEF WireInv, WireTypes
<1>4. Stream'
    BY <1>1, <1>2 DEF WireInv, Stream, Begun, Chained, Follows
<1>5. Rest' /\ Ending'
    BY <1>1, <1>2 DEF WireInv, Rest, Ending, AtEnd
<1> QED
    BY <1>2, <1>3, <1>4, <1>5 DEF WireInv

LEMMA IdleStep ==
    ASSUME WireInv, UNCHANGED wireState
    PROVE  WireInv' /\ Coming' = Coming
<1>1. /\ sentN' = sentN /\ out' = out /\ sock' = sock
      /\ gone' = gone /\ stage' = stage /\ msg' = msg /\ buf' = buf /\ ended' = ended
    BY DEF wireState
<1>2. Coming' = Coming /\ Wire!Need' = Wire!Need /\ ReadBefore' = ReadBefore
    BY <1>1 DEF Coming, Wire!Need, ReadBefore
<1>3. WireTypes'
    BY <1>1, <1>2 DEF WireInv, WireTypes
<1>4. Stream'
    BY <1>1, <1>2 DEF WireInv, Stream, Begun, Chained, Follows
<1>5. Rest' /\ Ending'
    BY <1>1, <1>2 DEF WireInv, Rest, Ending, AtEnd
<1> QED
    BY <1>2, <1>3, <1>4, <1>5 DEF WireInv

LEMMA InitWire ==
    ASSUME WireAssumption, Wire!WireInit
    PROVE  WireInv /\ Coming = <<>>
<1>1. /\ sentN = 0 /\ out = <<>> /\ sock = <<>> /\ gone = "no"
      /\ stage = "header" /\ buf = <<>> /\ ended = "open"
    BY DEF Wire!WireInit
<1>2. Coming = <<>>
    BY <1>1 DEF Coming
<1>3. WireTypes
    <2>1. Len(buf) <= Wire!Need
        BY <1>1 DEF Wire!Need, WireAssumption
    <2>2. <<>> \in Seq(Octet)
        OBVIOUS
    <2> QED
        BY <1>1, <2>1, <2>2 DEF WireTypes, WireAssumption
<1>4. Stream
    BY <1>2 DEF Stream, Begun, Chained
<1>5. Rest /\ Ending
    BY <1>1, <1>2 DEF Rest, Ending
<1> QED
    BY <1>2, <1>3, <1>4, <1>5 DEF WireInv

LEMMA WireStepInv ==
    ASSUME WireAssumption, WireInv, Source, Wire!WireNext
    PROVE  WireInv'
<1>1. CASE Wire!SendAudio \/ Wire!SendPong
    BY <1>1, SendStep
<1>2. CASE Wire!WriteSome
    BY <1>2, WriteStep
<1>3. CASE Wire!CloseWire
    BY <1>3, CloseStep
<1>4. CASE Wire!Dies
    BY <1>4, DeathStep
<1>5. CASE Wire!Reset
    BY <1>5, ResetStep
<1>6. CASE Wire!ReadSome
    BY <1>6, ReadStep
<1>7. CASE Wire!ReadEnd
    BY <1>7, EndStep
<1>8. CASE Wire!Parse
    BY <1>8, ParseStep
<1>9. CASE Wire!Skip
    BY <1>9, SkipStep
<1> QED
    BY <1>1, <1>2, <1>3, <1>4, <1>5, <1>6, <1>7, <1>8, <1>9 DEF Wire!WireNext, Wire!Player

-----------------------------------------------------------------------------
(* The wire implements the channel. *)
LEMMA WrittenIn ==
    ASSUME WireInv
    PROVE  /\ buf \o sock \in Seq(Octet) /\ buf \in Seq(Octet) /\ sock \in Seq(Octet)
           /\ Wire!Written \in Seq(Framed)
           /\ Wire!Written = Wire!Ended(buf) \o Wire!Ended(sock)
<1>1. buf \in Seq(Octet) /\ sock \in Seq(Octet)
    BY DEF WireInv, WireTypes
<1>2. buf \o sock \in Seq(Octet)
    BY ONLY <1>1, Joined, Zenon
<1> QED
    BY <1>1, <1>2, EndedIn, EndedConcat DEF Wire!Written

(* What the player has of a piece ends no message, until it has all of the last one. *)
LEMMA PieceEnds ==
    ASSUME WireAssumption, WireInv
    PROVE  /\ Len(buf) # Wire!Need \/ stage \in {"header", "fixed"} => Wire!Ended(buf) = <<>>
           /\ Len(buf) = Wire!Need /\ stage \in {"pong", "payload"} =>
                  Wire!Ended(buf) = <<Coming[1].of>>
<1> DEFINE m == Coming[1].of
<1>1. /\ buf \in Seq(Octet) /\ Len(buf) \in Nat /\ Wire!Need \in Nat \ {0} /\ ReadBefore \in Nat
      /\ Len(buf) <= Wire!Need
    BY Pieces DEF WireInv, WireTypes
<1>2. \A i \in 1..Len(buf) : buf[i].of = m /\ buf[i].at = ReadBefore + i
    BY HasRead DEF WireInv
<1>3. Len(buf) # 0 => /\ m \in Framed /\ Wire!Size(m) \in Nat
                      /\ ReadBefore + Wire!Need <= Wire!Size(m)
                      /\ stage # "header" => msg = m
    <2> SUFFICES ASSUME Len(buf) # 0
                 PROVE  /\ m \in Framed /\ Wire!Size(m) \in Nat
                        /\ ReadBefore + Wire!Need <= Wire!Size(m)
                        /\ stage # "header" => msg = m
        OBVIOUS
    <2>1. Coming # <<>>
        <3>1. Len(Coming) = Len(buf) + Len(sock) + Len(out) /\ Coming \in Seq(Octet)
            BY HasRead DEF WireInv
        <3>2. Len(sock) \in Nat /\ Len(out) \in Nat
            BY DEF WireInv, WireTypes
        <3> QED
            BY <1>1, <3>1, <3>2, EmptySeq
    <2>2. m \in Framed /\ ReadBefore + Wire!Need <= Wire!Size(m)
        BY <2>1, HasRead DEF WireInv
    <2> QED
        BY <2>1, <2>2, Messages DEF WireInv, Stream
<1>4. stage \in {"header", "fixed"} /\ Len(buf) # 0 => ReadBefore + Wire!Need < Wire!Size(m)
    BY <1>3, Pieces DEF WireInv
<1>5. stage \in {"pong", "payload"} /\ Len(buf) # 0 => ReadBefore + Wire!Need = Wire!Size(m)
    BY <1>3, Pieces DEF WireInv
<1> DEFINE n == Len(buf)  k == Wire!Need  z == Wire!Size(m)  a == ReadBefore
<1> HIDE DEF m, n, k, z, a
<1>6. \A i \in 1..n : IsLast(buf[i]) <=> a + i = z
    BY <1>2 DEF IsLast, n, a, z
<1>7. /\ n \in Nat /\ k \in Nat \ {0} /\ a \in Nat /\ n <= k
      /\ n # 0 => z \in Nat /\ a + k <= z
    BY <1>1, <1>3 DEF n, k, a, z
<1>8. ASSUME n # k \/ stage \in {"header", "fixed"} PROVE Wire!Ended(buf) = <<>>
    <2>1. ASSUME NEW i \in 1..n PROVE ~ IsLast(buf[i])
        <3>1. n # 0 /\ i \in Nat /\ i <= n
            BY <1>7
        <3>2. stage \in {"header", "fixed"} => a + k < z
            BY <1>4, <3>1 DEF n, k, a, z
        <3>3. a + i # z
            <4>1. CASE n # k
                BY <1>7, <3>1, <4>1
            <4>2. CASE stage \in {"header", "fixed"}
                BY <1>7, <3>1, <3>2, <4>2
            <4> QED
                BY <1>8, <4>1, <4>2
        <3> QED
            BY <1>6, <3>3
    <2> QED
        BY <1>1, <2>1, EndedNone DEF n
<1>9. ASSUME n = k, stage \in {"pong", "payload"} PROVE Wire!Ended(buf) = <<m>>
    <2>1. n # 0 /\ a + k = z
        BY <1>5, <1>7, <1>9 DEF n, k, a, z
    <2>2. \A i \in 1..(n - 1) : ~ IsLast(buf[i])
        <3> SUFFICES ASSUME NEW i \in 1..(n - 1) PROVE ~ IsLast(buf[i])
            OBVIOUS
        <3>1. i \in 1..n /\ a + i # z
            BY <1>7, <1>9, <2>1
        <3> QED
            BY <1>6, <3>1
    <2>3. n \in 1..n /\ IsLast(buf[n]) /\ buf[n].of = m
        <3>1. n \in 1..n /\ a + n = z
            BY <1>7, <1>9, <2>1
        <3> QED
            BY <1>2, <1>6, <3>1 DEF n
    <2>4. buf # <<>>
        BY <1>1, <2>1, EmptySeq DEF n
    <2> QED
        BY <1>1, <2>2, <2>3, <2>4, EndedFew DEF n
<1> QED
    BY <1>8, <1>9 DEF n, k, m

LEMMA Kept ==
    ASSUME buf' \o sock' = buf \o sock
    PROVE  Wire!Written' = Wire!Written
BY DEF Wire!Written

LEMMA WriteSends ==
    ASSUME WireAssumption, WireInv, Wire!WriteSome
    PROVE  Wire!Promise!Send \/ UNCHANGED Wire!Promise!chanVars
<1>1. PICK w \in 1..Len(out) : sock' = sock \o SubSeq(out, 1, w)
    BY DEF Wire!WriteSome
<1>2. gone = "no" /\ gone' = gone /\ buf' = buf /\ received' = received /\ ended' = ended
    BY DEF Wire!WriteSome
<1> DEFINE x == SubSeq(out, 1, w)  m == out[1].of  z == Wire!Size(m)  n == Len(out)
<1>3. /\ out \in Seq(Octet) /\ n \in Nat \ {0} /\ w \in 1..n /\ w \in 0..Len(out)
    BY DEF WireInv, WireTypes
<1>4. /\ x \in Seq(Octet) /\ Len(x) = w /\ \A i \in 1..w : x[i] = out[i]
    BY <1>3, SplitAt
<1>5. buf \o sock \in Seq(Octet) /\ buf \in Seq(Octet) /\ sock \in Seq(Octet)
      /\ Wire!Written \in Seq(Framed)
    BY WrittenIn
<1>6. sock' = sock \o x
    BY <1>1
<1> HIDE DEF x
<1>7. Wire!Written' = Wire!Written \o Wire!Ended(x)
    <2>s. buf \in Seq(Octet) /\ sock \in Seq(Octet) /\ x \in Seq(Octet)
        BY ONLY <1>4, <1>5
    <2>1. buf \o (sock \o x) = (buf \o sock) \o x
        BY ONLY <2>s, Regroup, ZenonT(60)
    <2>2. Wire!Written' = Wire!Ended((buf \o sock) \o x)
        BY <1>2, <1>6, <2>1 DEF Wire!Written
    <2> QED
        BY <1>4, <1>5, <2>2, EndedConcat DEF Wire!Written
<1>8. m \in Framed /\ z \in Nat
    <2>1. 1 \in 1..n
        BY <1>3
    <2>2. out[1] \in Octet
        BY <1>3, <2>1, ElementOfSeq
    <2> QED
        BY <2>2, Messages DEF Octet
<1>9. \A i \in 1..n : out[i].of = m /\ out[i].at = z - n + i
    BY DEF WireInv, Rest
<1> HIDE DEF m, z, n
<1>10. \A i \in 1..w : x[i].of = m /\ (IsLast(x[i]) <=> i = n)
    <2> SUFFICES ASSUME NEW i \in 1..w PROVE x[i].of = m /\ (IsLast(x[i]) <=> i = n)
        OBVIOUS
    <2>1. i \in 1..n /\ i \in Nat
        BY <1>3
    <2>2. x[i].of = m /\ x[i].at = z - n + i
        BY <1>4, <1>9, <2>1
    <2>3. IsLast(x[i]) <=> z - n + i = z
        BY <2>2 DEF IsLast, z
    <2> QED
        BY <1>3, <1>8, <2>1, <2>2, <2>3
<1>11. CASE w # n
    <2>1. \A i \in 1..Len(x) : ~ IsLast(x[i])
        BY <1>3, <1>4, <1>10, <1>11
    <2>2. Wire!Ended(x) = <<>>
        BY <1>4, <2>1, EndedNone
    <2>3. Wire!Written' = Wire!Written
        BY <1>5, <1>7, <2>2, ConcatEmptySeq
    <2> QED
        BY <1>2, <2>3 DEF Wire!Promise!chanVars, Wire!Gone
<1>12. CASE w = n
    <2>1. \A i \in 1..(Len(x) - 1) : ~ IsLast(x[i])
        <3> SUFFICES ASSUME NEW i \in 1..(w - 1) PROVE ~ IsLast(x[i])
            BY <1>4
        <3>1. i \in 1..w /\ i # n
            BY <1>3, <1>12
        <3> QED
            BY <1>10, <3>1
    <2>2. w \in 1..w /\ IsLast(x[w]) /\ x[w].of = m
        <3>1. w \in 1..w
            BY <1>3
        <3> QED
            BY <1>10, <1>12, <3>1
    <2>3. x # <<>>
        BY <1>3, <1>4, EmptySeq
    <2>4. Wire!Ended(x) = <<m>>
        BY <1>4, <2>1, <2>2, <2>3, EndedFew
    <2>5. Wire!Written' = Append(Wire!Written, m)
        BY <1>5, <1>7, <1>8, <2>4, AppendIsConcat
    <2> DEFINE q == Wire!Written  r == Append(q, m)
    <2>6. q \in Seq(Framed)
        BY <1>5
    <2> HIDE DEF q
    <2>7. Len(r) = Len(q) + 1 /\ r[Len(r)] = m
        BY <1>8, <2>6, AppendProperties
    <2>8. Wire!Written' = r
        BY <2>5 DEF q
    <2> HIDE DEF r
    <2>9. Wire!Promise!Send
        <3>1. Wire!Gone = "no" /\ Wire!Gone' = "no"
            BY <1>2 DEF Wire!Gone
        <3>2. m \in Wire!Message
            BY <1>8, Messages
        <3>3. /\ Len(Wire!Written') = Len(Wire!Written) + 1
              /\ Wire!Written'[Len(Wire!Written')] = m
              /\ Wire!Written' = Append(Wire!Written, m)
            BY <2>5, <2>7, <2>8 DEF q
        <3> QED
            BY <1>2, <3>1, <3>2, <3>3 DEF Wire!Promise!Send
    <2> QED
        BY <2>9
<1> QED
    BY <1>11, <1>12

LEMMA CutLoses ==
    ASSUME WireAssumption, WireInv, Wire!Reset
    PROVE  Wire!Promise!Lose
<1>1. /\ gone' = "reset" /\ buf' = buf /\ received' = received /\ ended' = ended
    BY DEF Wire!Reset
<1>2. PICK k \in 0..Len(sock) : sock' = SubSeq(sock, 1, k)
    BY DEF Wire!Reset
<1> DEFINE x == SubSeq(sock, 1, k)  y == SubSeq(sock, k + 1, Len(sock))
           q == Wire!Ended(buf \o x)  r == Wire!Ended(y)
<1>3. buf \in Seq(Octet) /\ sock \in Seq(Octet)
    BY WrittenIn
<1>4. x \in Seq(Octet) /\ y \in Seq(Octet) /\ x \o y = sock /\ sock' = x
    BY <1>2, <1>3, SplitAt
<1> HIDE DEF x, y
<1>5. Wire!Written' = q
    BY <1>1, <1>4 DEF Wire!Written
<1>s. buf \in Seq(Octet) /\ x \in Seq(Octet) /\ y \in Seq(Octet)
    BY ONLY <1>3, <1>4
<1>6. buf \o x \in Seq(Octet)
    BY ONLY <1>s, Joined, ZenonT(60)
<1>7. (buf \o x) \o y = buf \o sock
    <2>1. (buf \o x) \o y = buf \o (x \o y)
        BY ONLY <1>s, Regroup, ZenonT(60)
    <2> QED
        BY <1>4, <2>1
<1>8. Wire!Written = q \o r
    BY <1>4, <1>6, <1>7, EndedConcat DEF Wire!Written
<1>9. q \in Seq(Framed) /\ r \in Seq(Framed)
    BY <1>4, <1>6, EndedIn
<1> HIDE DEF q, r
<1>10. q = SubSeq(Wire!Written, 1, Len(q)) /\ Len(q) \in 0..Len(Wire!Written)
    <2> DEFINE t == q \o r
    <2>1. t \in Seq(Framed) /\ Len(t) = Len(q) + Len(r) /\ Len(q) \in Nat /\ Len(r) \in Nat
        BY <1>9, ConcatProperties
    <2>2. \A i \in 1..Len(q) : t[i] = q[i] /\ t[i] \in Framed
        <3> SUFFICES ASSUME NEW i \in 1..Len(q) PROVE t[i] = q[i] /\ t[i] \in Framed
            OBVIOUS
        <3>1. t[i] = q[i]
            BY <1>9
        <3> QED
            BY <1>9, <3>1, ElementOfSeq
    <2> HIDE DEF t
    <2>3. /\ SubSeq(t, 1, Len(q)) \in Seq(Framed) /\ Len(SubSeq(t, 1, Len(q))) = Len(q)
          /\ \A i \in 1..Len(q) : SubSeq(t, 1, Len(q))[i] = t[i]
        BY <2>1, <2>2
    <2>4. SubSeq(t, 1, Len(q)) = q
        <3> DEFINE s == SubSeq(t, 1, Len(q))
        <3>1. s \in Seq(Framed) /\ Len(s) = Len(q) /\ \A i \in 1..Len(s) : s[i] = q[i]
            BY <2>2, <2>3
        <3> HIDE DEF s
        <3>2. s = q
            BY <1>9, <3>1, SeqEqual
        <3> QED
            BY <3>2 DEF s
    <2> QED
        BY <1>8, <2>1, <2>4 DEF t
<1>11. Wire!Gone' = "lost"
    BY <1>1 DEF Wire!Gone
<1> QED
    BY <1>1, <1>5, <1>10, <1>11 DEF Wire!Promise!Lose

LEMMA DeathShutsOrLoses ==
    ASSUME WireAssumption, WireInv, Wire!Dies
    PROVE  Wire!Promise!Shut \/ Wire!Promise!Lose
<1>1. /\ gone = "no" /\ gone' = IF out[1].at = 1 THEN "closed" ELSE "torn"
      /\ buf' = buf /\ sock' = sock /\ received' = received /\ ended' = ended
    BY DEF Wire!Dies
<1>2. Wire!Written' = Wire!Written
    BY <1>1, Kept
<1>3. CASE out[1].at = 1
    BY <1>1, <1>2, <1>3 DEF Wire!Promise!Shut, Wire!Gone
<1>4. CASE out[1].at # 1
    <2>1. Wire!Gone' = "lost"
        BY <1>1, <1>4 DEF Wire!Gone
    <2> DEFINE q == Wire!Written
    <2>2. q \in Seq(Framed)
        BY WrittenIn
    <2> HIDE DEF q
    <2>3. Len(q) \in 0..Len(q) /\ q = SubSeq(q, 1, Len(q))
        BY <2>2, SubSeqFull
    <2> QED
        BY <1>1, <1>2, <2>1, <2>3 DEF Wire!Promise!Lose, q
<1> QED
    BY <1>3, <1>4

LEMMA EndIsHonest ==
    ASSUME WireAssumption, WireInv, Wire!ReadEnd
    PROVE  Wire!Promise!End
<1>1. /\ ended = "open" /\ Len(buf) < Wire!Need /\ sock = <<>> /\ gone # "no"
      /\ ended' = Wire!AfterEnd /\ gone' = gone /\ buf' = buf /\ sock' = sock
      /\ received' = received
    BY DEF Wire!ReadEnd
<1>2. Wire!Written' = Wire!Written /\ Wire!Gone' = Wire!Gone
    BY <1>1, Kept DEF Wire!Gone
<1>n. Len(buf) \in Nat /\ Wire!Need \in Nat /\ ReadBefore \in Nat
    BY Pieces DEF WireInv, WireTypes
<1>3. Wire!Ended(buf) = <<>>
    BY <1>1, <1>n, PieceEnds
<1>4. Wire!Written = <<>>
    <2>1. sock \in Seq(Octet) /\ Len(sock) = 0
        BY <1>1, WrittenIn, EmptySeq
    <2>2. \A i \in 1..Len(sock) : ~ IsLast(sock[i])
        BY <2>1
    <2>3. Wire!Ended(sock) = <<>>
        BY <2>1, <2>2, EndedNone
    <2>4. <<>> \o <<>> = <<>>
        OBVIOUS
    <2> QED
        BY <1>3, <2>3, <2>4, WrittenIn
<1>5. out = <<>> /\ Coming = buf
    <2>1. out = <<>>
        BY <1>1 DEF WireInv, Ending
    <2>2. buf \o <<>> = buf
        BY WrittenIn, ConcatEmptySeq
    <2> QED
        BY <1>1, <2>1, <2>2 DEF Coming
<1>6. buf # <<>> => ~ AtEnd(Coming)
    <2> SUFFICES ASSUME buf # <<>> PROVE ~ AtEnd(Coming)
        OBVIOUS
    <2>1. Len(buf) \in 1..Len(buf)
        BY <1>n, WrittenIn, EmptySeq
    <2>2. /\ buf[Len(buf)].of = Coming[1].of /\ buf[Len(buf)].at = ReadBefore + Len(buf)
          /\ Coming[1].of \in Framed
          /\ ReadBefore + Wire!Need <= Wire!Size(Coming[1].of)
        BY <1>5, <2>1, HasRead DEF WireInv
    <2>3. Wire!Size(Coming[1].of) \in Nat
        BY <2>2, Messages
    <2>4. buf[Len(buf)].at # Wire!Size(buf[Len(buf)].of)
        BY <1>1, <1>n, <2>2, <2>3
    <2> QED
        BY <1>5, <2>4 DEF AtEnd
<1>7. gone = "closed" <=> (gone # "reset" /\ Wire!AtBoundary)
    BY <1>1, <1>5, <1>6 DEF WireInv, Ending, WireTypes, Wire!AtBoundary
<1>8. CASE gone = "closed"
    <2>1. ended' = "clean" /\ Wire!Gone = "closed"
        BY <1>1, <1>7, <1>8 DEF Wire!AfterEnd, Wire!Gone
    <2> QED
        BY <1>1, <1>2, <1>4, <2>1 DEF Wire!Promise!End
<1>9. CASE gone # "closed"
    <2>1. ended' = "broken" /\ Wire!Gone = "lost"
        BY <1>1, <1>7, <1>9 DEF Wire!AfterEnd, Wire!Gone, WireInv, WireTypes
    <2> QED
        BY <1>1, <1>2, <1>4, <2>1 DEF Wire!Promise!End
<1> QED
    BY <1>8, <1>9

LEMMA ParseReceives ==
    ASSUME WireAssumption, WireInv, Wire!Parse
    PROVE  Wire!Promise!Receive \/ UNCHANGED Wire!Promise!chanVars
<1> DEFINE m == Coming[1].of
<1>1. /\ UNCHANGED <<sentN, out, sock, gone>> /\ ended = "open"
      /\ Len(buf) = Wire!Need /\ m \in Framed
      /\ \/ stage = "header" /\ Wire!Turn(IF m.kind = "pong" THEN "pong" ELSE "fixed", m)
         \/ stage = "pong" /\ msg = m /\ Wire!Take(m, rxNextSrc)
         \/ stage = "fixed" /\ msg = m /\ Wire!Turn("payload", m)
         \/ stage = "payload" /\ msg = m /\ Wire!Take(m, m.track + m.frames)
    BY ParseCases
<1>2. stage \in {"header", "fixed"} => Wire!Ended(buf) = <<>>
    BY PieceEnds
<1>3. stage \in {"pong", "payload"} => Wire!Ended(buf) = <<m>>
    BY <1>1, PieceEnds
<1> HIDE DEF m
<1> DEFINE r == Wire!Ended(sock)
<1>4. r \in Seq(Framed) /\ Wire!Written = Wire!Ended(buf) \o r /\ sock \in Seq(Octet)
    BY WrittenIn, EndedIn
<1>5. buf' = <<>> => Wire!Written' = r
    <2>1. <<>> \o sock = sock
        BY <1>4, ConcatEmptySeq
    <2> QED
        BY <1>1, <2>1 DEF Wire!Written
<1>6. Wire!Gone' = Wire!Gone
    BY <1>1 DEF Wire!Gone
<1> HIDE DEF r
<1>7. CASE stage \in {"header", "fixed"}
    <2>1. buf' = <<>> /\ received' = received /\ ended' = ended
        BY <1>1, <1>7 DEF Wire!Turn
    <2>2. Wire!Written' = Wire!Written
        BY <1>2, <1>4, <1>5, <1>7, <2>1, ConcatEmptySeq
    <2> QED
        BY <1>6, <2>1, <2>2 DEF Wire!Promise!chanVars
<1>8. CASE stage \in {"pong", "payload"}
    <2>1. buf' = <<>> /\ received' = m /\ ended' = ended
        BY <1>1, <1>8 DEF Wire!Take
    <2>2. Wire!Written = <<m>> \o r /\ Wire!Written' = r
        BY <1>3, <1>4, <1>5, <1>8, <2>1
    <2> DEFINE q == <<m>> \o r
    <2>3. q \in Seq(Framed) /\ q # <<>> /\ q[1] = m /\ Len(q) = Len(r) + 1
        BY <1>1, <1>4
    <2>4. Head(q) = m /\ Tail(q) = r
        <3>1. \A i \in 1..Len(r) : q[i + 1] = r[i]
            BY <1>1, <1>4
        <3> HIDE DEF q
        <3>2. /\ Tail(q) \in Seq(Framed) /\ Len(Tail(q)) = Len(r)
              /\ \A i \in 1..Len(Tail(q)) : Tail(q)[i] = q[i + 1]
            BY <1>4, <2>3, HeadTailProperties
        <3>3. Tail(q) = r
            BY <1>4, <3>1, <3>2, SeqEqual
        <3> QED
            BY <2>3, <3>3
    <2> HIDE DEF q
    <2>5. Wire!Written = q
        BY <2>2 DEF q
    <2> QED
        BY <1>1, <1>6, <2>1, <2>2, <2>3, <2>4, <2>5 DEF Wire!Promise!Receive
<1> QED
    BY <1>1, <1>7, <1>8

LEMMA ChannelStep ==
    ASSUME WireAssumption, WireInv, Source, Wire!WireNext
    PROVE  Wire!Promise!ChanNext \/ UNCHANGED Wire!Promise!chanVars
<1>1. CASE Wire!SendAudio \/ Wire!SendPong
    <2>1. PICK m \in Framed : Wire!Begin(m)
        BY <1>1, SendStep
    <2>2. /\ gone' = gone /\ buf' = buf /\ sock' = sock /\ received' = received
          /\ ended' = ended
        BY <2>1 DEF Wire!Begin
    <2>3. Wire!Written' = Wire!Written
        BY <2>2, Kept
    <2> QED
        BY <2>2, <2>3 DEF Wire!Promise!chanVars, Wire!Gone
<1>2. CASE Wire!WriteSome
    BY <1>2, WriteSends DEF Wire!Promise!ChanNext
<1>3. CASE Wire!CloseWire
    <2>1. /\ gone = "no" /\ gone' = "closed" /\ buf' = buf /\ sock' = sock
          /\ received' = received /\ ended' = ended
        BY <1>3 DEF Wire!CloseWire
    <2>2. Wire!Written' = Wire!Written
        BY <2>1, Kept
    <2> QED
        BY <2>1, <2>2 DEF Wire!Promise!ChanNext, Wire!Promise!Shut, Wire!Gone
<1>4. CASE Wire!Dies
    BY <1>4, DeathShutsOrLoses DEF Wire!Promise!ChanNext
<1>5. CASE Wire!Reset
    BY <1>5, CutLoses DEF Wire!Promise!ChanNext
<1>6. CASE Wire!ReadSome
    <2>1. gone' = gone /\ received' = received /\ ended' = ended
        BY <1>6 DEF Wire!ReadSome
    <2>2. buf' \o sock' = buf \o sock
        BY <1>6, ReadStep
    <2>3. Wire!Written' = Wire!Written
        BY <2>2, Kept
    <2> QED
        BY <2>1, <2>3 DEF Wire!Promise!chanVars, Wire!Gone
<1>7. CASE Wire!ReadEnd
    BY <1>7, EndIsHonest DEF Wire!Promise!ChanNext
<1>8. CASE Wire!Parse
    BY <1>8, ParseReceives DEF Wire!Promise!ChanNext
<1>9. CASE Wire!Skip
    <2>1. /\ gone' = gone /\ buf' = buf /\ sock' = sock /\ received' = received
          /\ ended' = ended
        BY <1>9 DEF Wire!Skip
    <2>2. Wire!Written' = Wire!Written
        BY <2>1, Kept
    <2> QED
        BY <2>1, <2>2 DEF Wire!Promise!chanVars, Wire!Gone
<1> QED
    BY <1>1, <1>2, <1>3, <1>4, <1>5, <1>6, <1>7, <1>8, <1>9 DEF Wire!WireNext, Wire!Player

-----------------------------------------------------------------------------
(* The source's count of frames, message by message. *)
LEMMA FirstOfAll ==
    ASSUME WireAssumption, WireInv
    PROVE  /\ Coming \in Seq(Octet) /\ Len(Coming) \in Nat
           /\ Coming # <<>> => 1 \in 1..Len(Coming) /\ Len(Coming) \in 1..Len(Coming)
           /\ \A i \in 1..Len(Coming) : /\ Coming[i].of \in Framed
                                        /\ Coming[i].of.n \in Nat
                                        /\ Coming[i].of.n <= sentN
<1>1. Coming \in Seq(Octet) /\ Len(Coming) \in Nat
    BY HasRead DEF WireInv
<1>2. Coming # <<>> => 1 \in 1..Len(Coming) /\ Len(Coming) \in 1..Len(Coming)
    BY <1>1, EmptySeq
<1>3. ASSUME NEW i \in 1..Len(Coming)
      PROVE  Coming[i].of \in Framed /\ Coming[i].of.n \in Nat /\ Coming[i].of.n <= sentN
    <2>1. Coming[i] \in Octet
        BY <1>1, ElementOfSeq
    <2>2. Coming[i].of \in Framed
        BY <2>1 DEF Octet
    <2>3. Coming[i].of.n \in Nat
        BY <2>2, Messages
    <2> QED
        BY <2>2, <2>3 DEF WireInv, Stream, Begun
<1> QED
    BY <1>1, <1>2, <1>3

LEMMA CountOn ==
    ASSUME WireAssumption, WireInv, Source, Indexed, NEW m \in Framed, m.n = sentN + 1,
           Coming' = Coming \o Wire!Bytes(m), gone = "no", out = <<>>,
           sentN' = sentN + 1, Heard' = Heard + FramesOf(m), rxNextSrc' = rxNextSrc,
           fanned' = fanned, OfTrack(m, Heard)
    PROVE  Indexed'
<1>1. PICK idx \in [Nat -> Nat] : Counts(idx)
    BY DEF Indexed
<1> DEFINE c == Coming  b == Wire!Bytes(m)  z == Wire!Size(m)  n == Len(c)  t == c \o b
<1>2. /\ b \in Seq(Octet) /\ Len(b) = z /\ z \in Nat \ {0} /\ \A i \in 1..z : b[i].of = m
    <2>1. /\ b \in Seq(Octet) /\ Len(b) = z /\ z \in Nat \ {0}
          /\ \A i \in 1..z : b[i] = [of |-> m, at |-> i]
        BY BytesOf
    <2> HIDE DEF b, z
    <2>2. \A i \in 1..z : b[i].of = m
        BY ONLY <2>1, SMTT(30)
    <2> QED
        BY <2>1, <2>2
<1>s. sentN \in Nat
    BY DEF WireInv, WireTypes, WireAssumption
<1>3. /\ c \in Seq(Octet) /\ n \in Nat /\ sentN \in Nat
      /\ \A i \in 1..n : c[i].of.n \in Nat /\ c[i].of.n <= sentN
    BY <1>s, FirstOfAll
<1>4. Heard \in Nat /\ FramesOf(m) \in Nat /\ Heard' \in Nat
    <2>2. Heard \in Nat
        BY DEF Source, Heard
    <2>3. FramesOf(m) \in Nat
        <3>1. m.kind = "audio" => m.frames \in 1..ChunkFrames /\ m.missed \in Nat
            BY Messages
        <3>2. ChunkFrames \in Nat
            BY DEF WireAssumption
        <3> QED
            BY <3>1, <3>2, SMTT(30) DEF FramesOf
    <2>4. Heard' = Heard + FramesOf(m)
        OBVIOUS
    <2> QED
        BY ONLY <2>2, <2>3, <2>4
<1>5. /\ \A i \in 1..n : /\ OfTrack(c[i].of, idx[c[i].of.n])
                         /\ idx[c[i].of.n + 1] = idx[c[i].of.n] + FramesOf(c[i].of)
      /\ idx[sentN + 1] = Heard
      /\ c # <<>> => rxNextSrc = idx[c[1].of.n]
      /\ c = <<>> => rxNextSrc = Heard
    BY <1>1 DEF Counts
<1>6. Coming' = t
    OBVIOUS
<1> HIDE DEF c, b, z, n
<1>7. /\ \A i \in 1..n : t[i] = c[i]
      /\ \A i \in (n + 1)..(n + z) : t[i].of = m
      /\ t # <<>> /\ (c = <<>> <=> n = 0)
    <2>1. \A i \in 1..n : t[i] = c[i]
        BY <1>2, <1>3 DEF n
    <2>2. \A i \in (n + 1)..(n + z) : t[i].of = m
        <3> SUFFICES ASSUME NEW i \in (n + 1)..(n + z) PROVE t[i].of = m
            OBVIOUS
        <3>1. i - n \in 1..z
            BY <1>2, <1>3
        <3>2. t[i] = b[i - n]
            <4>1. /\ c \in Seq(Octet) /\ b \in Seq(Octet) /\ Len(c) = n /\ Len(b) = z
                  /\ n \in Nat /\ z \in Nat
                BY <1>2, <1>3 DEF n
            <4>2. i \in 1..(Len(c) + Len(b)) /\ ~ (i <= Len(c))
                BY ONLY <4>1, i \in (n + 1)..(n + z)
            <4>3. (c \o b)[i] = b[i - Len(c)]
                BY ONLY <4>1, <4>2, ConcatProperties
            <4> QED
                BY <4>1, <4>3
        <3> QED
            BY <1>2, <3>1, <3>2
    <2>3. Len(c \o b) = n + z
        <3>1. b \in Seq(Octet) /\ c \in Seq(Octet)
            BY <1>2, <1>3
        <3>2. Len(c \o b) = Len(c) + Len(b)
            BY ONLY <3>1, Joined, Zenon
        <3> QED
            BY <1>2, <3>2 DEF n
    <2>4. t # <<>>
        <3>1. n + z # 0
            BY <1>2, <1>3
        <3> QED
            BY <2>3, <3>1
    <2>5. c = <<>> <=> n = 0
        BY <1>3, EmptySeq DEF n
    <2> QED
        BY <2>1, <2>2, <2>4, <2>5
<1>8. Len(t) = n + z
    <2>1. b \in Seq(Octet) /\ c \in Seq(Octet)
        BY <1>2, <1>3
    <2>2. Len(c \o b) = Len(c) + Len(b)
        BY ONLY <2>1, Joined, Zenon
    <2> QED
        BY <1>2, <2>2 DEF n
<1> HIDE DEF t
<1>9. PICK new \in [Nat -> Nat] : /\ new[sentN + 2] = Heard'
                                 /\ \A j \in Nat : j # sentN + 2 => new[j] = idx[j]
    <2> DEFINE f == [idx EXCEPT ![sentN + 2] = Heard']
    <2>1. /\ f \in [Nat -> Nat] /\ f[sentN + 2] = Heard'
          /\ \A j \in Nat : j # sentN + 2 => f[j] = idx[j]
        BY ONLY <1>s, <1>4, idx \in [Nat -> Nat]
    <2> HIDE DEF f
    <2> QED
        BY <2>1
<1>10. \A i \in 1..n : /\ new[c[i].of.n] = idx[c[i].of.n]
                       /\ new[c[i].of.n + 1] = idx[c[i].of.n + 1]
    <2> SUFFICES ASSUME NEW i \in 1..n
                 PROVE  /\ new[c[i].of.n] = idx[c[i].of.n]
                        /\ new[c[i].of.n + 1] = idx[c[i].of.n + 1]
        OBVIOUS
    <2> DEFINE j == c[i].of.n
    <2>1. j \in Nat /\ j <= sentN
        BY <1>3
    <2> HIDE DEF j
    <2>2. j # sentN + 2 /\ j + 1 # sentN + 2 /\ j + 1 \in Nat
        BY ONLY <1>s, <2>1
    <2>3. new[j] = idx[j] /\ new[j + 1] = idx[j + 1]
        BY <1>9, <2>1, <2>2
    <2> QED
        BY <2>3 DEF j
<1>11. new[sentN + 1] = Heard /\ new[sentN + 2] = Heard + FramesOf(m)
    BY <1>3, <1>5, <1>9
<1>12. \A i \in 1..Len(t) : /\ OfTrack(t[i].of, new[t[i].of.n])
                            /\ new[t[i].of.n + 1] = new[t[i].of.n] + FramesOf(t[i].of)
    <2> SUFFICES ASSUME NEW i \in 1..Len(t)
                 PROVE  /\ OfTrack(t[i].of, new[t[i].of.n])
                        /\ new[t[i].of.n + 1] = new[t[i].of.n] + FramesOf(t[i].of)
        OBVIOUS
    <2>1. CASE i <= n
        <3>1. i \in 1..n
            BY <1>3, <2>1
        <3>2. t[i] = c[i]
            BY <1>7, <3>1
        <3> DEFINE u == c[i].of
        <3>3. /\ OfTrack(u, idx[u.n])
              /\ idx[u.n + 1] = idx[u.n] + FramesOf(u)
              /\ new[u.n] = idx[u.n] /\ new[u.n + 1] = idx[u.n + 1]
            BY <1>5, <1>10, <3>1
        <3>4. t[i].of = u
            BY <3>2
        <3> HIDE DEF u
        <3> QED
            BY ONLY <3>3, <3>4
    <2>2. CASE ~ (i <= n)
        <3>1. i \in (n + 1)..(n + z)
            BY <1>2, <1>3, <1>8, <2>2
        <3>2. t[i].of = m
            BY <1>7, <3>1
        <3>3. m.n + 1 = sentN + 2
            BY <1>3
        <3> QED
            BY <1>11, <3>2, <3>3
    <2> QED
        BY <2>1, <2>2
<1>13. rxNextSrc = new[t[1].of.n]
    <2>1. CASE n = 0
        <3>1. 1 \in (n + 1)..(n + z)
            BY <1>2, <2>1
        <3>2. t[1].of = m
            BY <1>7, <3>1
        <3> QED
            BY <1>5, <1>7, <1>11, <2>1, <3>2
    <2>2. CASE n # 0
        <3>1. 1 \in 1..n
            BY <1>3, <2>2
        <3> QED
            BY <1>5, <1>7, <1>10, <2>2, <3>1
    <2> QED
        BY <2>1, <2>2
<1>14. Counts(new)'
    <2>1. sentN' + 1 = sentN + 2
        BY <1>3
    <2> QED
        BY <1>6, <1>7, <1>9, <1>12, <1>13, <2>1 DEF Counts, OfTrack
<1> QED
    BY <1>9, <1>14 DEF Indexed

LEMMA CountLess ==
    ASSUME WireInv, Indexed, UNCHANGED <<fanned, Heard, sentN, rxNextSrc>>, gone' # "no",
           \A i \in 1..Len(Coming') : i \in 1..Len(Coming) /\ Coming'[i] = Coming[i],
           Coming' # <<>> => Coming # <<>> /\ 1 \in 1..Len(Coming')
    PROVE  Indexed'
<1>1. PICK idx \in [Nat -> Nat] : Counts(idx)
    BY DEF Indexed
<1>2. Counts(idx)'
    BY <1>1 DEF Counts, OfTrack
<1> QED
    BY <1>1, <1>2 DEF Indexed

LEMMA CountSame ==
    ASSUME Indexed, UNCHANGED <<fanned, Heard, sentN, rxNextSrc>>, Coming' = Coming,
           gone' = gone \/ gone' # "no"
    PROVE  Indexed'
<1>1. PICK idx \in [Nat -> Nat] : Counts(idx)
    BY DEF Indexed
<1>2. Counts(idx)'
    BY <1>1 DEF Counts, OfTrack
<1> QED
    BY <1>1, <1>2 DEF Indexed

(* A chunk taken is as far beyond the count as the player was not sent. *)
CarriesOn == received' # received /\ received'.kind = "audio" =>
                 /\ received'.track = rxNextSrc + received'.missed
                 /\ received'.missed > 0 => fanned

LEMMA CountParsed ==
    ASSUME WireAssumption, WireInv, WireInv', Indexed, Wire!Parse
    PROVE  Indexed' /\ CarriesOn
<1> DEFINE m == Coming[1].of  r == (<<>> \o sock) \o out  k == Wire!Need  c == Coming
<1>1. /\ UNCHANGED <<sentN, out, sock, gone>> /\ Len(buf) = Wire!Need /\ m \in Framed
      /\ \/ stage = "header" /\ Wire!Turn(IF m.kind = "pong" THEN "pong" ELSE "fixed", m)
         \/ stage = "pong" /\ msg = m /\ Wire!Take(m, rxNextSrc)
         \/ stage = "fixed" /\ msg = m /\ Wire!Turn("payload", m)
         \/ stage = "payload" /\ msg = m /\ Wire!Take(m, m.track + m.frames)
    BY ParseCases
<1>2. PICK idx \in [Nat -> Nat] : Counts(idx)
    BY DEF Indexed
<1>3. /\ c # <<>> /\ r \in Seq(Octet)
      /\ r # <<>> =>
                /\ ReadBefore + k < Wire!Size(m) => r[1].of = m
                /\ ReadBefore + k = Wire!Size(m) => r[1].of.n = m.n + 1
      /\ r = <<>> => c[Len(c)].of = m
      /\ \A i \in 1..Len(r) : k + i \in 1..Len(c) /\ r[i] = c[k + i]
    <2>1. r = (<<>> \o sock) \o out /\ m = c[1].of
        OBVIOUS
    <2> HIDE DEF r, m, c, k
    <2>2. Len(buf) = Wire!Need
        BY <1>1
    <2>3. /\ Coming # <<>> /\ r \in Seq(Octet)
          /\ r # <<>> =>
                /\ ReadBefore + Wire!Need < Wire!Size(m) => r[1].of = m
                /\ ReadBefore + Wire!Need = Wire!Size(m) => r[1].of.n = m.n + 1
          /\ r = <<>> => Coming[Len(Coming)].of = m
          /\ \A i \in 1..Len(r) : Wire!Need + i \in 1..Len(Coming) /\ r[i] = Coming[Wire!Need + i]
        <3>1. m = Coming[1].of
            BY <2>1 DEF c
        <3>2. /\ Coming # <<>> /\ r \in Seq(Octet)
              /\ r # <<>> =>
                /\ ReadBefore + Wire!Need < Wire!Size(m) =>
                      r[1].of = m /\ r[1].at = ReadBefore + Wire!Need + 1
                /\ ReadBefore + Wire!Need = Wire!Size(m) =>
                      r[1].at = 1 /\ r[1].of.n = m.n + 1
                /\ r[Len(r)] = Coming[Len(Coming)]
              /\ r = <<>> => /\ Coming[Len(Coming)].of = m
                             /\ Coming[Len(Coming)].at = ReadBefore + Wire!Need
            BY ONLY <2>1, <2>2, <3>1, WireAssumption, WireInv, AfterPiece, ZenonT(60)
        <3>3. ASSUME NEW i \in 1..Len(r)
              PROVE  Wire!Need + i \in 1..Len(Coming) /\ r[i] = Coming[Wire!Need + i]
            BY ONLY <2>1, <2>2, <3>1, <3>3, WireAssumption, WireInv, AfterPiece, ZenonT(60)
        <3> QED
            BY ONLY <3>2, <3>3
    <2> QED
        BY <2>3 DEF c, k
<1>4. buf' = <<>> /\ Coming' = r
    BY <1>1 DEF Wire!Turn, Wire!Take, Coming
<1>5. 1 \in 1..Len(c) /\ m.n \in Nat /\ sentN \in Nat
    <2>1. 1 \in 1..Len(c)
        BY <1>3, FirstOfAll
    <2>2. m.n \in Nat
        BY <2>1, FirstOfAll
    <2>3. sentN \in Nat
        BY DEF WireInv, WireTypes, WireAssumption
    <2> QED
        BY <2>1, <2>2, <2>3
<1>6. /\ \A i \in 1..Len(c) : /\ OfTrack(c[i].of, idx[c[i].of.n])
                              /\ idx[c[i].of.n + 1] = idx[c[i].of.n] + FramesOf(c[i].of)
      /\ idx[sentN + 1] = Heard /\ rxNextSrc = idx[m.n]
    BY <1>2, <1>3 DEF Counts
<1>7. OfTrack(m, idx[m.n]) /\ idx[m.n + 1] = idx[m.n] + FramesOf(m)
    BY <1>5, <1>6
<1>8. r = <<>> /\ gone = "no" => stage' = "header" /\ m.n = sentN
    <2> SUFFICES ASSUME r = <<>>, gone = "no" PROVE stage' = "header" /\ m.n = sentN
        OBVIOUS
    <2>1. stage' = "header"
        BY <1>1, <1>4 DEF WireInv, Ending
    <2>2. c[Len(c)].of.n = sentN
        BY <1>3 DEF WireInv, Ending
    <2> QED
        BY <1>3, <2>1, <2>2
<1>9. /\ stage \in {"header", "fixed"} =>
            ReadBefore + k < Wire!Size(m) /\ rxNextSrc' = rxNextSrc /\ stage' # "header"
      /\ stage \in {"pong", "payload"} =>
            ReadBefore + k = Wire!Size(m) /\ rxNextSrc' = idx[m.n + 1]
    <2>1. CASE stage = "header"
        BY <1>1, <2>1, Pieces DEF Wire!Turn, WireInv
    <2>2. CASE stage = "fixed"
        BY <1>1, <2>2, Pieces DEF Wire!Turn, WireInv
    <2>3. CASE stage = "pong"
        <3>1. m.kind = "pong" /\ idx[m.n] \in Nat
            BY <1>1, <1>5, <2>3 DEF WireInv, WireTypes
        <3>2. idx[m.n + 1] = idx[m.n]
            BY <1>7, <3>1 DEF FramesOf
        <3>3. rxNextSrc' = rxNextSrc
            BY <1>1, <2>3 DEF Wire!Take
        <3> QED
            BY <1>1, <1>6, <2>3, <3>2, <3>3, Pieces DEF WireInv
    <2>4. CASE stage = "payload"
        <3>1. m.kind = "audio"
            BY <1>1, <2>4 DEF WireInv, WireTypes
        <3>2. idx[m.n + 1] = m.track + m.frames
            <4>1. m.track = idx[m.n] + m.missed /\ idx[m.n + 1] = idx[m.n] + (m.missed + m.frames)
                BY <1>7, <3>1 DEF FramesOf, OfTrack
            <4>2. m.missed \in Int /\ m.frames \in Int /\ idx[m.n] \in Int
                <5>1. m.missed \in Nat /\ m.frames \in 1..ChunkFrames /\ m.n \in Nat
                    BY <1>1, <1>5, <3>1, Messages
                <5>2. ChunkFrames \in Nat
                    BY DEF WireAssumption
                <5> HIDE DEF m
                <5> QED
                    BY ONLY <5>1, <5>2, idx \in [Nat -> Nat]
            <4> QED
                BY <4>1, <4>2
        <3>3. rxNextSrc' = m.track + m.frames
            BY <1>1, <2>4 DEF Wire!Take
        <3> QED
            BY <1>1, <2>4, <3>2, <3>3, Pieces DEF WireInv
    <2> QED
        BY <2>1, <2>2, <2>3, <2>4
<1>10. stage \in {"header", "pong", "fixed", "payload"}
    BY DEF WireInv, WireTypes
<1>11. CarriesOn
    <2>1. CASE stage \in {"header", "fixed"}
        BY <1>1, <2>1 DEF Wire!Turn, CarriesOn
    <2>2. CASE stage \in {"pong", "payload"}
        <3>1. received' = m
            BY <1>1, <2>2 DEF Wire!Take
        <3> QED
            BY <1>6, <1>7, <3>1 DEF CarriesOn, OfTrack
    <2> QED
        BY <1>10, <2>1, <2>2
<1> HIDE DEF m, r, k, c
<1>12. \A i \in 1..Len(r) : /\ OfTrack(r[i].of, idx[r[i].of.n])
                            /\ idx[r[i].of.n + 1] = idx[r[i].of.n] + FramesOf(r[i].of)
    BY <1>3, <1>6, ZenonT(60)
<1>13. r # <<>> => rxNextSrc' = idx[r[1].of.n]
    BY <1>3, <1>6, <1>9, <1>10
<1>14. r = <<>> /\ gone = "no" => rxNextSrc' = Heard
    BY <1>6, <1>8, <1>9, <1>10
<1>15. Counts(idx)'
    <2>1. UNCHANGED <<fanned, Heard>>
        BY DEF Wire!Parse, Wire!source, Heard
    <2> QED
        BY <1>1, <1>4, <1>6, <1>12, <1>13, <1>14, <2>1 DEF Counts, OfTrack
<1> QED
    BY <1>11, <1>15 DEF Indexed

LEMMA CountStep ==
    ASSUME WireAssumption, WireInv, WireInv', Source, Indexed, Wire!WireNext
    PROVE  Indexed' /\ CarriesOn
<1>1. CASE Wire!SendAudio \/ Wire!SendPong
    <2>1. PICK m \in Framed : /\ Coming' = Coming \o Wire!Bytes(m)
                              /\ m.n = sentN + 1 /\ Wire!Begin(m)
                              /\ fanned' = fanned /\ Heard' = Heard + FramesOf(m)
                              /\ OfTrack(m, Heard)
        BY <1>1, SendStep
    <2>2. /\ gone = "no" /\ out = <<>> /\ sentN' = sentN + 1 /\ rxNextSrc' = rxNextSrc
          /\ received' = received
        BY <2>1 DEF Wire!Begin
    <2>3. Indexed'
        BY <2>1, <2>2, CountOn
    <2> QED
        BY <2>2, <2>3 DEF CarriesOn
<1>2. CASE Wire!WriteSome
    <2>1. /\ UNCHANGED <<fanned, Heard, sentN, rxNextSrc>> /\ received' = received
          /\ gone' = gone
        BY <1>2 DEF Wire!WriteSome, Wire!source, Heard
    <2>2. Coming' = Coming
        BY <1>2, WriteStep
    <2> QED
        BY <2>1, <2>2, CountSame DEF CarriesOn
<1>3. CASE Wire!CloseWire
    <2>1. /\ UNCHANGED <<fanned, Heard, sentN, rxNextSrc>> /\ received' = received
          /\ gone' # "no"
        BY <1>3 DEF Wire!CloseWire, Wire!source, Heard
    <2>2. Coming' = Coming
        BY <1>3, CloseStep
    <2> QED
        BY <2>1, <2>2, CountSame DEF CarriesOn
<1>4. CASE Wire!Dies \/ Wire!Reset
    <2>1. /\ UNCHANGED <<fanned, Heard, sentN, stage, msg, buf, ended, rxNextSrc>>
          /\ received' = received /\ gone' # "no" /\ out' = <<>>
        BY <1>4 DEF Wire!Dies, Wire!Reset, Wire!source, Heard
    <2>2. \E k \in 0..Len(sock) : sock' = SubSeq(sock, 1, k)
        <3>1. CASE Wire!Reset
            BY <3>1 DEF Wire!Reset
        <3>2. CASE Wire!Dies
            <4>1. sock' = sock /\ sock \in Seq(Octet)
                BY <3>2 DEF Wire!Dies, WireInv, WireTypes
            <4>2. Len(sock) \in 0..Len(sock) /\ SubSeq(sock, 1, Len(sock)) = sock
                BY <4>1
            <4> QED
                BY <4>1, <4>2
        <3> QED
            BY <1>4, <3>1, <3>2
    <2>3. PICK k \in 0..Len(sock) : sock' = SubSeq(sock, 1, k)
        BY <2>2
    <2>4. \A i \in 1..Len(Coming') : i \in 1..Len(Coming) /\ Coming'[i] = Coming[i]
        BY ONLY WireAssumption, WireInv, <2>1, <2>3, CutStep
    <2>5. Coming' \in Seq(Octet)
        BY ONLY WireAssumption, WireInv, <2>1, <2>3, CutStep
    <2> DEFINE t == Coming'
    <2>6. t # <<>> => 1 \in 1..Len(t)
        <3>1. t \in Seq(Octet)
            BY <2>5
        <3> HIDE DEF t
        <3> QED
            BY <3>1, EmptySeq
    <2>7. Coming' # <<>> => Coming # <<>> /\ 1 \in 1..Len(Coming')
        <3>1. Coming = <<>> => Len(Coming) = 0
            OBVIOUS
        <3> QED
            BY <2>4, <2>6, <3>1
    <2> QED
        BY <2>1, <2>4, <2>7, CountLess DEF CarriesOn
<1>5. CASE Wire!ReadSome
    <2>1. /\ UNCHANGED <<fanned, Heard, sentN, rxNextSrc>> /\ received' = received
          /\ gone' = gone
        BY <1>5 DEF Wire!ReadSome, Wire!source, Heard
    <2>2. Coming' = Coming
        BY <1>5, ReadStep
    <2> QED
        BY <2>1, <2>2, CountSame DEF CarriesOn
<1>6. CASE Wire!ReadEnd
    <2>1. /\ UNCHANGED <<fanned, Heard, sentN, rxNextSrc>> /\ received' = received
          /\ gone' = gone
        BY <1>6 DEF Wire!ReadEnd, Wire!source, Heard
    <2>2. Coming' = Coming
        BY <1>6, EndStep
    <2> QED
        BY <2>1, <2>2, CountSame DEF CarriesOn
<1>7. CASE Wire!Parse
    BY <1>7, CountParsed
<1>8. CASE Wire!Skip
    <2>1. UNCHANGED <<sentN, rxNextSrc>> /\ received' = received /\ gone' = gone
        BY <1>8 DEF Wire!Skip
    <2>2. Coming' = Coming /\ Heard' = Heard /\ fanned' = fanned
        BY <1>8, SkipStep
    <2> QED
        BY <2>1, <2>2, CountSame DEF CarriesOn
<1> QED
    BY <1>1, <1>2, <1>3, <1>4, <1>5, <1>6, <1>7, <1>8 DEF Wire!WireNext, Wire!Player

LEMMA InitIndexed ==
    ASSUME WireAssumption, Wire!WireInit
    PROVE  Indexed /\ Source
<1>1. Coming = <<>> /\ rxNextSrc = 0 /\ sentN = 0
    BY InitWire DEF Wire!WireInit
<1>4. Source /\ missed = wireTrack
    BY DEF Wire!WireInit, Wire!Opens, Source, WireAssumption
<1>5. Heard = 0
    BY <1>4 DEF Heard, Source
<1> DEFINE idx == [j \in Nat |-> 0]
<1>2. idx \in [Nat -> Nat] /\ idx[sentN + 1] = 0
    BY <1>1
<1> HIDE DEF idx
<1>3. Counts(idx)
    BY <1>1, <1>2, <1>5 DEF Counts
<1> QED
    BY <1>2, <1>3, <1>4 DEF Indexed

LEMMA StepOfWire == [StreamsNext]_allVars => Wire!WireNext \/ UNCHANGED wireState
BY DEF StreamsNext, allVars, ClockStep, RingStep, CodecStep, PlayStep, WireStep, RsStep,
       HsStep, PaceStep, SchedStep

WireInvariant == WireInv /\ Source /\ Indexed

LEMMA WireKeeps == WireAssumption => (StreamsSpec => []WireInvariant)
<1> SUFFICES ASSUME WireAssumption PROVE StreamsSpec => []WireInvariant
    OBVIOUS
<1>1. StreamsInit => WireInvariant
    BY InitWire, InitIndexed DEF StreamsInit, WireInvariant
<1>2. WireInvariant /\ [StreamsNext]_allVars => WireInvariant'
    <2> SUFFICES ASSUME WireInv, Source, Indexed, [StreamsNext]_allVars
                 PROVE  WireInv' /\ Source' /\ Indexed'
        BY DEF WireInvariant
    <2>1. CASE Wire!WireNext
        <3>1. WireInv'
            BY <2>1, WireStepInv
        <3> QED
            BY <2>1, <3>1, SourceKept, CountStep
    <2>2. CASE UNCHANGED wireState
        <3>1. UNCHANGED <<fanned, Heard, sentN, rxNextSrc>> /\ gone' = gone
            BY <2>2 DEF wireState, Heard
        <3>2. WireInv' /\ Coming' = Coming
            BY <2>2, IdleStep
        <3>3. Source'
            BY <2>2 DEF wireState, Source
        <3> QED
            BY <3>1, <3>2, <3>3, CountSame
    <2> QED
        BY <2>1, <2>2, StepOfWire
<1> QED
    BY <1>1, <1>2, PTL DEF StreamsSpec

(* For messages, pieces and sockets of any size and any number of messages: however the
   bytes are split and delayed and wherever the source dies or the connection is reset,
   every step of the wire is one of the channel, which gives the player whole messages
   in order and a clean end only if none is missing. *)
THEOREM PromisedTheorem == WireAssumption => (StreamsSpec => Promised)
<1> SUFFICES ASSUME WireAssumption PROVE StreamsSpec => Promised
    OBVIOUS
<1>1. StreamsInit => Wire!Promise!ChanInit
    <2> SUFFICES ASSUME StreamsInit PROVE Wire!Promise!ChanInit
        OBVIOUS
    <2>1. /\ sock = <<>> /\ buf = <<>> /\ gone = "no" /\ received = Wire!NoMsg /\ ended = "open"
        BY DEF StreamsInit, Wire!WireInit
    <2>2. <<>> \in Seq(Octet) /\ buf \o sock = <<>>
        BY <2>1
    <2>3. Wire!Written = <<>>
        <3>1. \A i \in 1..Len(<<>>) : ~ IsLast(<<>>[i])
            OBVIOUS
        <3> QED
            BY <2>2, <3>1, EndedNone DEF Wire!Written
    <2> QED
        BY <2>1, <2>3 DEF Wire!Promise!ChanInit, Wire!Promise!NoMessage, Wire!NoMsg, Wire!Gone
<1>2. WireInvariant /\ [StreamsNext]_allVars =>
          [Wire!Promise!ChanNext]_(Wire!Promise!chanVars)
    <2> SUFFICES ASSUME WireInv, Source, [StreamsNext]_allVars
                 PROVE  Wire!Promise!ChanNext \/ UNCHANGED Wire!Promise!chanVars
        BY DEF WireInvariant
    <2>1. CASE Wire!WireNext
        BY <2>1, ChannelStep
    <2>2. CASE UNCHANGED wireState
        <3>1. /\ gone' = gone /\ buf' = buf /\ sock' = sock /\ received' = received
              /\ ended' = ended
            BY <2>2 DEF wireState
        <3>2. Wire!Written' = Wire!Written
            BY <3>1, Kept
        <3> QED
            BY <3>1, <3>2 DEF Wire!Promise!chanVars, Wire!Gone
    <2> QED
        BY <2>1, <2>2, StepOfWire
<1>3. StreamsSpec => []WireInvariant
    BY WireKeeps
<1>4. StreamsSpec => Wire!Promise!ChanSpec
    BY <1>1, <1>2, <1>3, PTL DEF StreamsSpec, Wire!Promise!ChanSpec
<1> QED
    BY <1>4 DEF Promised

(* The index the player counts on to is short of the one the next chunk carries by what
   the source did not send it in between, and by nothing if the source is no fan-out:
   whatever PONGs come in between, whether frames are counted or bytes, and wherever in
   the track the player joined. *)
THEOREM ContiguousTheorem == WireAssumption => (StreamsSpec => Contiguous)
<1> SUFFICES ASSUME WireAssumption PROVE StreamsSpec => Contiguous
    OBVIOUS
<1>1. WireInvariant /\ WireInvariant' /\ [StreamsNext]_allVars => [CarriesOn]_wireState
    <2> SUFFICES ASSUME WireInv, Source, Indexed, WireInv', [StreamsNext]_allVars
                 PROVE  CarriesOn \/ UNCHANGED wireState
        BY DEF WireInvariant
    <2> QED
        BY StepOfWire, CountStep
<1>2. StreamsSpec => []WireInvariant
    BY WireKeeps
<1>3. StreamsSpec => [][CarriesOn]_wireState
    BY <1>1, <1>2, PTL DEF StreamsSpec
<1> QED
    BY <1>3 DEF Contiguous, CarriesOn
=============================================================================
