-------------------------------- MODULE Codec --------------------------------
(***************************************************************************)
(* The adaptive choice of the fan-out's transport codec (rn_codec_decide): *)
(* raw until chunks are skipped too often, then FLAC until none has been   *)
(* for long.  One step is one chunk of run_fanout.                         *)
(***************************************************************************)
EXTENDS Integers

CONSTANTS
    Degrade,  \* RN_CODEC_DEGRADE_X1000
    Recover,  \* RN_CODEC_RECOVER_CHUNKS
    Mode      \* g_codec_mode: "off", "flac" or "adaptive"

CodecAssumption ==
    /\ Degrade \in 1..1000 /\ Recover \in Nat \ {0}
    /\ Mode \in {"off", "flac", "adaptive"}

VARIABLES
    ema,    \* ema_x1000
    clean,  \* clean_chunks
    codec   \* group_codec, "raw" or "flac"

vars == <<ema, clean, codec>>

Init == ema = 0 /\ clean = 0 /\ codec = "raw"

(* x / 8 in C rounds towards zero. *)
Quarter(x) == IF x >= 0 THEN x \div 4 ELSE -((-x) \div 4)   \* fault: too eager
Eighth(x) == IF x >= 0 THEN x \div 8 ELSE -((-x) \div 8)

Folded(skipped) == ema + Eighth((IF skipped THEN 1000 ELSE 0) - ema)

Streak(skipped) == IF skipped THEN 0 ELSE IF clean <= Recover THEN clean + 1 ELSE clean

(* The codec of the next chunk. *)
Choice(average, streak) ==
    CASE Mode = "off" -> "raw"
      [] Mode = "flac" -> "flac"
      [] Mode = "adaptive" /\ codec = "raw" -> IF average >= Degrade THEN "flac" ELSE "raw"
      [] Mode = "adaptive" /\ codec = "flac" -> IF streak >= Recover THEN "raw" ELSE "flac"

Chunk(skipped) ==
    /\ ema' = Folded(skipped)
    /\ clean' = Streak(skipped)
    /\ codec' = Choice(ema', clean')

Next == \E skipped \in BOOLEAN : Chunk(skipped)

Spec == Init /\ [][Next]_vars

-----------------------------------------------------------------------------
TypeOK == ema \in 0..1000 /\ clean \in 0..(Recover + 1) /\ codec \in {"raw", "flac"}

(* "A lone skip must NOT flip (no flap)": whatever residue the truncating
   average keeps, the group goes to FLAC only on a skip that has another one
   among the seven chunks before it. *)
NeverOnALoneSkip == [][codec = "raw" /\ codec' = "flac" => clean' = 0 /\ clean < 7]_vars

(* Recovery is slow: back to raw only when the whole window was clean, so a
   room that cannot keep up bounces the group at most once a window. *)
RecoversSlowly == [][codec = "flac" /\ codec' = "raw" => clean' = Recover]_vars
=============================================================================
