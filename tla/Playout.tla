------------------------------- MODULE Playout -------------------------------
(***************************************************************************)
(* One sink's playout (run_sink_alsa, drop/insert servo): chunks arrive    *)
(* over TCP, wait in a ring, and leave for the DAC a period at a time.     *)
(* The sink labels the frame at the head of the ring with a source sample  *)
(* index, played_src, ONCE per anchor, and from then on only counts; the   *)
(* servo steers by that label.  Does the label stay true?                  *)
(*                                                                         *)
(* A chunk and a period are one unit of audio, and a unit is represented   *)
(* by its source index, which the sink itself never sees in the ring.      *)
(* What the clock and the DAC queue say (err) may be anything.             *)
(***************************************************************************)
EXTENDS Integers, Sequences

CONSTANTS
    NetMax,    \* units the socket buffers hold (set_big_bufs)
    RingMax,   \* RN_RING_BYTES, in units
    Buffer,    \* RN_BUFFER_NS, in units
    Floor,     \* RN_SYNC_FLOOR, in units
    MaxStep,   \* RN_SYNC_MAXSTEP, in units
    MaxTrack,  \* bound on the units the source sends
    MaxEpoch   \* bound on the gaps of the source

PlayoutAssumption ==
    /\ NetMax \in Nat \ {0} /\ RingMax \in Nat \ {0}
    /\ Buffer \in Nat /\ Floor \in Nat /\ MaxStep \in Nat
    /\ MaxTrack \in Nat /\ MaxEpoch \in Nat

VARIABLES
    track,       \* the source's track_samples, the index of its next chunk
    epoch,       \* the source's epoch
    closed,      \* the source has closed the connection
    net,         \* chunks sent and not yet read: [src, epoch]
    pc,          \* "lock" (phase 1), "drain" or "period" (phase 2), "done"
    ring,        \* source indices of the units in the ring
    rxNext,      \* rx_next_src
    rxEpoch,     \* epoch of the newest chunk read
    anchored,    \* have_anchor
    anchorEpoch, \* anchor_epoch
    reanchor,    \* start_reanchor
    played,      \* played_src
    havePlayed,  \* have_played
    eof,
    clean        \* history: nothing was lost since played was last set

source == <<track, epoch, closed>>
rx == <<ring, rxNext, rxEpoch>>
label == <<anchored, anchorEpoch, reanchor, played, havePlayed>>
vars == <<source, net, pc, rx, label, eof, clean>>

Init ==
    /\ track = 0 /\ epoch = 0 /\ closed = FALSE /\ net = <<>>
    /\ pc = "lock"
    /\ ring = <<>> /\ rxNext = 0 /\ rxEpoch = 0
    /\ anchored = FALSE /\ anchorEpoch = 0 /\ reanchor = TRUE
    /\ played = 0 /\ havePlayed = FALSE /\ eof = FALSE
    /\ clean = TRUE

(* rb_drop of all but the newest n units. *)
Newest(r, n) == IF Len(r) > n THEN SubSeq(r, Len(r) - n + 1, Len(r)) ELSE r

(* rb_drop of the d oldest units *)
DroppedNewest(r, d) == SubSeq(r, 1, Len(r) - d)               \* fault: the wrong end
Dropped(r, d) == SubSeq(r, d + 1, Len(r))

-----------------------------------------------------------------------------
(* run_fanout, as far as one sink sees it. *)

(* A chunk is written if the socket takes it now and skipped otherwise; the
   source's index counts it either way. *)
SendChunk ==
    /\ ~ closed /\ track < MaxTrack
    /\ track' = track + 1
    /\ \/ /\ Len(net) < NetMax
          /\ net' = Append(net, [src |-> track, epoch |-> epoch])
          /\ UNCHANGED clean
       \/ /\ Len(net) = NetMax
          /\ clean' = FALSE
          /\ UNCHANGED net
    /\ UNCHANGED <<epoch, closed, pc, rx, label, eof>>

(* The FIFO's writer went away and came back. *)
Gap ==
    /\ ~ closed /\ epoch < MaxEpoch
    /\ epoch' = epoch + 1
    /\ UNCHANGED <<track, closed, net, pc, rx, label, eof, clean>>

CloseSource ==
    /\ ~ closed /\ closed' = TRUE
    /\ UNCHANGED <<track, epoch, net, pc, rx, label, eof, clean>>

-----------------------------------------------------------------------------
Fits(r) == Len(r) < RingMax

(* alsa_read_msg: what does not fit in the ring is dropped, yet counted. *)
ReadMsg ==
    /\ net # <<>>
    /\ net' = Tail(net)
    /\ rxNext' = Head(net).src + 1
    /\ rxEpoch' = Head(net).epoch
    /\ \/ Fits(ring) /\ ring' = Append(ring, Head(net).src) /\ UNCHANGED clean
       \/ ~ Fits(ring) /\ clean' = FALSE /\ UNCHANGED ring

(* Phase 1: read on; anchor at the first chunk after the clock is locked. *)
Prebuffer ==
    /\ pc = "lock"
    /\ ReadMsg
    /\ \/ UNCHANGED label
       \/ /\ ~ anchored
          /\ anchored' = TRUE /\ anchorEpoch' = rxEpoch'
          /\ UNCHANGED <<reanchor, played, havePlayed>>
    /\ UNCHANGED <<source, pc, eof>>

(* The anchor's presentation time arrives. *)
StartPlayout ==
    /\ pc = "lock" /\ anchored
    /\ pc' = "drain"
    /\ ring' = Newest(ring, Buffer)
    /\ UNCHANGED <<source, net, rxNext, rxEpoch, label, eof, clean>>

ClosedEarly ==
    /\ pc = "lock" /\ closed /\ net = <<>>
    /\ pc' = "done"
    /\ UNCHANGED <<source, net, rx, label, eof, clean>>

-----------------------------------------------------------------------------
(* Phase 2: every iteration first reads all there is. *)

Drain ==
    /\ pc = "drain" /\ ~ eof
    /\ ReadMsg
    /\ UNCHANGED <<source, pc, label, eof>>

EofUnnoticed == eof                       \* fault
EofSeen == eof \/ closed

Drained ==
    /\ pc = "drain" /\ (net = <<>> \/ eof)
    /\ pc' = "period"
    /\ eof' = EofSeen
    /\ UNCHANGED <<source, net, rx, label, clean>>

(* Nothing is missing between the head of the ring and the source. *)
Whole(r) ==
    LET all == r \o [i \in DOMAIN net |-> net[i].src]
    IN  /\ \A i \in DOMAIN all : all[i] = track - Len(all) + i - 1
        /\ rxNext = track - Len(net)

(* Re-anchor upon a new epoch, label the head of the ring if it has no label,
   let the servo drop up to MaxStep units (or insert silence, which touches
   neither ring nor label), and play a period; a ring that runs dry after the
   source closed ends the playout. *)
Period ==
    /\ pc = "period"
    /\ LET again == rxEpoch # anchorEpoch \/ reanchor
           kept  == IF again THEN Newest(ring, Buffer) ELSE ring
           set   == (again \/ ~ havePlayed) /\ kept # <<>>
           head  == IF set THEN rxNext - Len(kept) ELSE played
           has   == set \/ (havePlayed /\ ~ again)
       IN  \E d \in 0..MaxStep :
            /\ d > 0 => has /\ d <= Len(kept) - Floor
            /\ LET left == Dropped(kept, d)
               IN  IF left # <<>>
                   THEN ring' = Tail(left) /\ played' = head + d + 1 /\ pc' = "drain"
                   ELSE /\ ring' = left /\ played' = head + d
                        /\ pc' = IF eof THEN "done" ELSE "drain"
            /\ havePlayed' = has
            /\ anchorEpoch' = (IF again THEN rxEpoch ELSE anchorEpoch)
            /\ clean' = IF set THEN Whole(kept) ELSE clean
    /\ reanchor' = FALSE
    /\ UNCHANGED <<source, net, rxNext, rxEpoch, anchored, eof>>

(* alsa_open, a read or a write fails: whatever the state, the playout is over,
   and the node starts the next. *)
Breaks ==
    /\ pc # "done" /\ pc' = "done"
    /\ UNCHANGED <<source, net, rx, label, eof, clean>>

Next ==
    \/ SendChunk \/ Gap \/ CloseSource
    \/ Prebuffer \/ StartPlayout \/ ClosedEarly
    \/ Drain \/ Drained \/ Period \/ Breaks

Spec == Init /\ [][Next]_vars

FairSpec ==
    /\ Spec
    /\ WF_vars(Prebuffer) /\ WF_vars(StartPlayout) /\ WF_vars(ClosedEarly)
    /\ WF_vars(Drain) /\ WF_vars(Drained) /\ WF_vars(Period)
=============================================================================
