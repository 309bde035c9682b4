------------------------------- MODULE Numbers -------------------------------
(***************************************************************************)
(* The arithmetic under replaynet's audio path, which the other modules    *)
(* take for granted: integers as bytes on the wire (be16_put ..., le16_get *)
(* ...), the cubic interpolation of the resampler, and the drift           *)
(* controller of the file sink.  Widths are constants, so that TLC can try *)
(* every value: Base for a byte's 256, One for Q16's 65536, Peak for       *)
(* 32768.                                                                  *)
(***************************************************************************)
EXTENDS Integers, Sequences

CONSTANTS Base,      \* values of a byte
          One,       \* 1 as a fixed-point fraction
          Peak,      \* samples are in -Peak..Peak-1
          Deadband,  \* RN_DRIFT_DEADBAND_FRAMES
          MaxStepAt  \* RN_DRIFT_MAX_STEP_FRAMES

(* A sample is two bytes, and a fraction is as fine as a sample. *)
NumbersAssumption ==
    /\ Base \in Nat /\ Base >= 4 /\ One = Base * Base
    /\ Peak \in Nat /\ One = 2 * Peak
    /\ Deadband \in Nat /\ MaxStepAt \in Nat

Saturated(x, low, high) == IF x < low THEN low ELSE IF x > high THEN high ELSE x

-----------------------------------------------------------------------------
(* Big endian, the wire; 64 bits are two halves. *)
Power(n) == LET p[i \in 0..n] == IF i = 0 THEN 1 ELSE Base * p[i - 1] IN p[n]

Put(v, n) == [i \in 1..n |-> (v \div Power(n - i)) % Base]
Put64(v) == Put(v \div Power(4), 4) \o Put(v % Power(4), 4)

Get(b) == LET sum[i \in 0..Len(b)] == IF i = 0 THEN 0 ELSE sum[i - 1] * Base + b[i]
          IN sum[Len(b)]
Get64(b) == Get(SubSeq(b, 1, 4)) * Power(4) + Get(SubSeq(b, 5, 8))

(* A header: magic, version, type, reserved, seq, body_len. *)
Magic == Power(4) - 2
Version == 1
HdrPack(type, seq, len) ==
    Put(Magic, 4) \o <<Version, type>> \o Put(0, 2) \o Put(seq, 4) \o Put(len, 4)

BadHdr == [type |-> -1, seq |-> -1, len |-> -1]
HdrUnpack(b) ==
    IF Get(SubSeq(b, 1, 4)) # Magic \/ b[5] # Version THEN BadHdr
    ELSE [type |-> b[6], seq |-> Get(SubSeq(b, 9, 12)), len |-> Get(SubSeq(b, 13, 16))]

(* A message of fields is read as it was written, in every width, and a header
   with another magic or version is no header. *)
WireKept ==
    /\ \A v \in 0..(Power(2) - 1) : Get(Put(v, 2)) = v
    /\ \A v \in 0..(Power(8) - 1) : Get64(Put64(v)) = v /\ Get(Put64(v)) = v
    /\ \A type \in 0..(Base - 1), seq \in 0..(Power(4) - 1) :
           LET len == Power(4) - 1 - seq
           IN HdrUnpack(HdrPack(type, seq, len)) = [type |-> type, seq |-> seq, len |-> len]
    /\ \A i \in 1..5, d \in 1..(Base - 1) :
           LET b == HdrPack(1, 0, 0)
           IN HdrUnpack([b EXCEPT ![i] = (@ + d) % Base]) = BadHdr

-----------------------------------------------------------------------------
(* Samples: two bytes, in the order of the host or little endian.  The machine
   word of a negative sample is its complement. *)
HostPut(v, big) == LET w == v % (2 * Peak)
                   IN IF big THEN <<w \div Base, w % Base>> ELSE <<w % Base, w \div Base>>
Signed(w) == IF w >= Peak THEN w - 2 * Peak ELSE w
Le16Unsigned(b) == b[1] + b[2] * Base                                 \* fault
Le16Get(b) == Signed(b[1] + b[2] * Base)
Le16Put(v) == HostPut(v, FALSE)

(* pcm_host_to_le: pairs are swapped on a big-endian host; an odd byte stays. *)
HostToLe(b, big) ==
    [i \in 1..Len(b) |-> IF big /\ (i < Len(b) \/ Len(b) % 2 = 0)
                         THEN b[IF i % 2 = 1 THEN i + 1 ELSE i - 1] ELSE b[i]]

(* Whatever the byte order of the host that reads the pipe, the sink gets the
   samples that were meant, in their order; and the resampler's own bytes too. *)
SamplesKept ==
    \A v, w \in -Peak..(Peak - 1), big \in BOOLEAN :
        LET le == HostToLe(HostPut(v, big) \o HostPut(w, big) \o <<0>>, big)
        IN /\ Le16Get(SubSeq(le, 1, 2)) = v /\ Le16Get(SubSeq(le, 3, 4)) = w
           /\ le[5] = 0 /\ Le16Get(Le16Put(v)) = v

-----------------------------------------------------------------------------
(* cubic_q16: between y1 and y2 at f / One, with floors where the code shifts. *)
Shift(x, f) == (x * f) \div One
Cubic(y0, y1, y2, y3, f) ==
    LET c1 == y2 - y0
        c2 == 2*y0 - 5*y1 + 4*y2 - y3
        c3 == 3*(y1 - y2) + y3 - y0
    IN Saturated(y1 + Shift(c1 + Shift(c2 + Shift(c3, f), f), f) \div 2, -Peak, Peak - 1)

Span(S) == CHOOSE n \in 0..(2 * Peak) :
    (\E x, y \in S : x - y = n) /\ \A x, y \in S : x - y <= n

(* No click: the curve starts at y1 and runs into y2 without a jump larger than
   its slope there explains; silence and a straight line stay what they are. *)
Smooth ==
    \A y0, y1, y2, y3 \in -Peak..(Peak - 1) :
        LET at(f) == Cubic(y0, y1, y2, y3, f)
            seam == at(One - 1) - y2
        IN /\ at(0) = y1
           /\ seam * 2 * One <= Saturated(y1 - y3, 0, 2 * Peak) + 4 * One
           /\ -seam * 2 * One <= Saturated(y3 - y1, 0, 2 * Peak) + 4 * One
           /\ y1 - y0 = y2 - y1 /\ y2 - y1 = y3 - y2 =>
                \A f \in 0..(One - 1) : at(f) = y1 + Shift(y2 - y1, f)

-----------------------------------------------------------------------------
(* rn_drift_decide: frames to drop, or to insert if negative. *)
Correction(err) ==
    CASE err > Deadband -> Saturated(err - Deadband, 0, MaxStepAt)
      [] err < -Deadband -> -Saturated(-err - Deadband, 0, MaxStepAt)
      [] OTHER -> 0

(* run_sink's account of the corrections it issued, chasing the drift it measures. *)
Chased(total, cum) == cum + Correction(total - cum)

(* The controller neither hunts nor loses the schedule: from anywhere in the
   deadband, and however the clocks drift by up to its largest step, one decision
   brings the error back into it and not past the edge it came over. *)
Steady ==
    \A err \in -Deadband..Deadband, drift \in -MaxStepAt..MaxStepAt :
        LET now == err + drift
            then == now - Chased(now, 0)
        IN /\ then \in -Deadband..Deadband
           /\ Correction(now) # 0 => then = Saturated(now, -Deadband, Deadband)
=============================================================================
