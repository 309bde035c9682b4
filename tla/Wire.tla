-------------------------------- MODULE Wire --------------------------------
(***************************************************************************)
(* One direction of a replaynet connection, from the source that frames    *)
(* chunks and PONGs to the player that reads them, over a byte stream that *)
(* splits and delays anything (write_full, read_full).  A message is the   *)
(* run of its bytes; a byte knows which message it is of and where it      *)
(* stands in it, and nothing else.  The source is a fan-out, of which this *)
(* is one member's connection, or the standalone source with its one peer. *)
(*                                                                         *)
(* External, as the program uses them: TCP, and libFLAC, which gives back  *)
(* what it was given, in more or fewer bytes, or fails to encode.          *)
(***************************************************************************)
EXTENDS Integers, Sequences

CONSTANTS ChunkFrames,  \* RN_CHUNK_FRAMES
          FrameBytes,   \* RN_FRAME_BYTES
          HeaderLen,    \* RN_HDR_SIZE
          FixedLen,     \* RN_AUDIO_FIXED
          PongLen,      \* RN_PONG_SIZE
          Slack,        \* RN_MAX_PAYLOAD - RN_CHUNK_BYTES
          SockMax,      \* bytes the socket buffers hold
          MaxSent,      \* bound: messages of a connection
          MaxIndex      \* bound: frames of the source's track

VARIABLES fanned,  \* whether the source is a fan-out
          track,   \* track_samples of the source
          missed,  \* history: frames of the track since the last that this peer was sent
          sentN,   \* messages begun
          out,     \* bytes write_full has still to write
          sock,    \* bytes on their way
          gone,    \* the stream's end: "no", "closed", "torn" inside a message, "reset"
          stage,   \* what the player reads: "header", "pong", "fixed", "payload"
          msg,     \* the message whose header it has read
          buf,     \* bytes of that piece read so far
          rxNextSrc, \* rx_next_src
          received, ended \* the last message it took; how its stream ended

source == <<fanned, track, missed>>
wireVars == <<fanned, track, missed, sentN, out, sock, gone, stage, msg, buf, rxNextSrc, received, ended>>

NoMsg == [kind |-> "none"]
ChunkBytes == ChunkFrames * FrameBytes
MaxPayload == ChunkBytes + Slack

Audio == [kind : {"audio"}, n : 1..MaxSent, track : 0..MaxIndex, missed : 0..MaxIndex,
          frames : 1..ChunkFrames, plen : 1..MaxPayload, codec : {"raw", "flac"}]
Message == Audio \cup [kind : {"pong"}, n : 1..MaxSent]

Size(m) == HeaderLen + IF m.kind = "pong" THEN PongLen ELSE FixedLen + m.plen
Bytes(m) == [k \in 1..Size(m) |-> [of |-> m, at |-> k]]

(* A peer of the standalone source hears it from the first frame; a member joins a
   fan-out in mid-stream. *)
Opens == /\ fanned \in BOOLEAN
         /\ track \in IF fanned THEN 0..MaxIndex ELSE {0}
         /\ missed = track

WireInit ==
    /\ Opens /\ sentN = 0 /\ out = <<>> /\ sock = <<>> /\ gone = "no"
    /\ stage = "header" /\ msg = NoMsg /\ buf = <<>>
    /\ rxNextSrc = 0 /\ received = NoMsg /\ ended = "open"

-----------------------------------------------------------------------------
(* The source. *)

(* read_upto: whole frames of what came before the end; the rest is dropped. *)
Whole(bytes) == bytes \div FrameBytes

(* rn_flac_encode: any length that fits the output buffer, or a failure. *)
Encodings == {-1} \cup 1..MaxPayload

(* FLAC only from a fan-out, and if it shrank the chunk; raw otherwise. *)
Shrunk(frames) == {e \in Encodings : e > 0 /\ e < frames * FrameBytes}
Payloads(frames) ==
    {<<"raw", frames * FrameBytes>>}
    \cup {<<"flac", e>> : e \in IF fanned THEN Shrunk(frames) ELSE {}}

(* A chunk that is not whole is the standalone source's last; a fan-out reopens its
   FIFO and goes on. *)
HasMore == ~fanned => track % ChunkFrames = 0

(* A fan-out sends to a socket that takes something; it skips one that is not empty
   and does not.  When the socket counts as writable in between is the kernel's. *)
Writable == fanned => Len(sock) < SockMax
Lagging == fanned /\ sock # <<>>

Begin(m) == /\ out = <<>> /\ gone = "no" /\ sentN < MaxSent
            /\ sentN' = sentN + 1 /\ out' = Bytes(m)
            /\ UNCHANGED <<sock, gone, stage, msg, buf, rxNextSrc, received, ended>>

SendAudio == \E bytes \in 0..ChunkBytes :
    /\ Whole(bytes) > 0 /\ track + Whole(bytes) <= MaxIndex
    /\ HasMore /\ Writable
    /\ \E p \in Payloads(Whole(bytes)) :
          Begin([kind |-> "audio", n |-> sentN + 1, track |-> track, missed |-> missed,
                 frames |-> Whole(bytes), plen |-> p[2], codec |-> p[1]])
    /\ track' = track + Whole(bytes) /\ missed' = 0 /\ UNCHANGED fanned

(* The track moves on for all; what this peer misses it is never sent. *)
Skip == \E bytes \in 0..ChunkBytes :
    /\ Whole(bytes) > 0 /\ track + Whole(bytes) <= MaxIndex
    /\ Lagging /\ out = <<>> /\ gone = "no"
    /\ track' = track + Whole(bytes) /\ missed' = missed + Whole(bytes)
    /\ UNCHANGED <<fanned, sentN, out, sock, gone, stage, msg, buf, rxNextSrc, received, ended>>

SendPong == HasMore /\ Begin([kind |-> "pong", n |-> sentN + 1]) /\ UNCHANGED source

(* write_full: as much as the socket takes, and again. *)
WriteSome ==
    /\ out # <<>> /\ gone = "no"
    /\ \E w \in 1..Len(out) :
        /\ Len(sock) + w <= SockMax
        /\ sock' = sock \o SubSeq(out, 1, w)
        /\ out' = SubSeq(out, w + 1, Len(out))
    /\ UNCHANGED <<source, sentN, gone, stage, msg, buf, rxNextSrc, received, ended>>

CloseWire ==
    /\ out = <<>> /\ gone = "no" /\ gone' = "closed"
    /\ UNCHANGED <<source, sentN, out, sock, stage, msg, buf, rxNextSrc, received, ended>>

(* The source's process dies; what it wrote still arrives. *)
Dies ==
    /\ gone = "no" /\ out # <<>>
    /\ gone' = IF out[1].at = 1 THEN "closed" ELSE "torn"
    /\ out' = <<>>
    /\ UNCHANGED <<source, sentN, sock, stage, msg, buf, rxNextSrc, received, ended>>

(* The connection is reset: bytes on their way may be lost. *)
Reset ==
    /\ gone # "reset" /\ gone' = "reset" /\ out' = <<>>
    /\ \E k \in 0..Len(sock) : sock' = SubSeq(sock, 1, k)
    /\ UNCHANGED <<source, sentN, stage, msg, buf, rxNextSrc, received, ended>>

-----------------------------------------------------------------------------
(* The player. *)

Need == CASE stage = "header" -> HeaderLen
          [] stage = "pong" -> PongLen
          [] stage = "fixed" -> FixedLen
          [] stage = "payload" -> msg.plen

(* read_full: as much as there is, and again; EINTR changes nothing. *)
ReadSome ==
    /\ ended = "open" /\ Len(buf) < Need
    /\ \E r \in 1..(Need - Len(buf)) :
        /\ r <= Len(sock)
        /\ buf' = buf \o SubSeq(sock, 1, r)
        /\ sock' = SubSeq(sock, r + 1, Len(sock))
    /\ UNCHANGED <<source, sentN, out, gone, stage, msg, rxNextSrc, received, ended>>

(* The end of the stream: clean only before the first byte of a message. *)
NothingRead == buf = <<>>                                             \* fault
AtBoundary == buf = <<>> /\ stage = "header"

AfterEnd == IF gone # "reset" /\ AtBoundary THEN "clean" ELSE "broken"

ReadEnd ==
    /\ ended = "open" /\ Len(buf) < Need /\ sock = <<>> /\ gone # "no"
    /\ ended' = AfterEnd
    /\ UNCHANGED <<source, sentN, out, sock, gone, stage, msg, buf, rxNextSrc, received>>

(* hdr_unpack, and the checks on what it found. *)
IsHeader(b) == \A i \in 1..HeaderLen : b[i].at = i /\ b[i].of = b[1].of
Fits(m) == m.kind = "audio" => m.plen <= MaxPayload /\ m.frames <= ChunkFrames
                               /\ (m.codec = "raw" => m.plen <= ChunkBytes)

(* rn_flac_decode gives back the frames; the index counts frames, not bytes. *)
WireFrames(m) == m.plen \div FrameBytes                               \* fault
Decoded(m) == IF m.codec = "flac" THEN m.frames ELSE m.plen \div FrameBytes

Turn(next, m) == /\ stage' = next /\ msg' = m /\ buf' = <<>>
                 /\ UNCHANGED <<rxNextSrc, received, ended>>
Take(m, next) == /\ stage' = "header" /\ msg' = NoMsg /\ buf' = <<>>
                 /\ received' = m /\ rxNextSrc' = next
                 /\ UNCHANGED ended
Fail == ended' = "broken" /\ UNCHANGED <<stage, msg, buf, rxNextSrc, received>>

ParseHeader ==
    /\ stage = "header"
    /\ IF IsHeader(buf)
       THEN Turn(IF buf[1].of.kind = "pong" THEN "pong" ELSE "fixed", buf[1].of)
       ELSE Fail

ParseBody ==
    \/ stage = "pong" /\ Take(msg, rxNextSrc)
    \/ stage = "fixed" /\ IF Fits(msg) THEN Turn("payload", msg) ELSE Fail
    \/ stage = "payload" /\ Take(msg, msg.track + Decoded(msg))

Parse ==
    /\ ended = "open" /\ Len(buf) = Need
    /\ ParseHeader \/ ParseBody
    /\ UNCHANGED <<source, sentN, out, sock, gone>>

Player == ReadSome \/ ReadEnd \/ Parse

WireNext == SendAudio \/ Skip \/ SendPong \/ WriteSome \/ CloseWire \/ Dies \/ Reset
            \/ Player
WireSpec == WireInit /\ [][WireNext]_wireVars /\ WF_wireVars(Player)

-----------------------------------------------------------------------------
(* The channel a player sees: what is sent is what has been written to the
   last byte. *)
Ended(bytes) ==
    LET upto[i \in 0..Len(bytes)] ==
            IF i = 0 THEN <<>>
            ELSE IF bytes[i].at = Size(bytes[i].of) THEN Append(upto[i - 1], bytes[i].of)
            ELSE upto[i - 1]
    IN upto[Len(bytes)]

Written == Ended(buf \o sock)
Gone == IF gone \in {"torn", "reset"} THEN "lost" ELSE gone

Promise == INSTANCE Channel WITH
    queue <- Written, shut <- Gone, got <- received, end <- ended
=============================================================================
