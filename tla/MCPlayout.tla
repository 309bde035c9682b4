------------------------------ MODULE MCPlayout ------------------------------
(***************************************************************************)
(* The properties of the playout, for TLC.                                 *)
(***************************************************************************)
EXTENDS Playout

TypeOK ==
    /\ track \in 0..MaxTrack /\ epoch \in 0..MaxEpoch /\ closed \in BOOLEAN
    /\ net \in Seq([src : 0..MaxTrack, epoch : 0..MaxEpoch]) /\ Len(net) <= NetMax
    /\ pc \in {"lock", "drain", "period", "done"}
    /\ ring \in Seq(0..MaxTrack) /\ Len(ring) <= RingMax
    /\ rxNext \in 0..MaxTrack /\ rxEpoch \in 0..MaxEpoch
    /\ anchored \in BOOLEAN /\ anchorEpoch \in 0..MaxEpoch /\ reanchor \in BOOLEAN
    /\ played \in 0..MaxTrack /\ havePlayed \in BOOLEAN
    /\ eof \in BOOLEAN /\ clean \in BOOLEAN

(* The label the servo steers by is the source index of the frame at the head
   of the ring. *)
Labelled == havePlayed /\ ring # <<>> => played = ring[1]

(* While nothing is lost the label is true: through the cap on the prebuffer,
   gaps of the source, re-anchoring and the servo's own drops, and although it
   was taken from the newest chunk and the ring's length, not from a frame. *)
LabelTrue == clean => Labelled

(* "Every sink steers so source sample S is audible at ...", "its schedule
   servo rides the gap": the label is true although chunks were skipped. *)
GapsRidden == Labelled

(* A playout whose source has gone away comes to an end, and so lets the node
   respawn a player that listens. *)
Finishes == closed ~> pc = "done"
=============================================================================
