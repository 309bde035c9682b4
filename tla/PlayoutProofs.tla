---------------------------- MODULE PlayoutProofs ----------------------------
(***************************************************************************)
(* The label of the playout is true while nothing is lost, for sockets,    *)
(* rings and buffers of any size and any number of gaps of the source: it  *)
(* is taken once from the newest chunk and the length of the ring, and     *)
(* from then on only counted.  Lost chunks or not, it is an index that was *)
(* sent (RangeInv).                                                        *)
(***************************************************************************)
EXTENDS MCPlayout, SequenceTheorems, WellFoundedInduction, TLAPS

Chunk == [src : Int, epoch : Nat]

Types ==
    /\ track \in Nat /\ epoch \in Nat /\ net \in Seq(Chunk) /\ ring \in Seq(Int) /\ rxNext \in Int
    /\ played \in Int /\ clean \in BOOLEAN /\ havePlayed \in BOOLEAN

(* r, then what the socket holds, run on to the source's next chunk. *)
RunsTo(r, next) == \A i \in 1..Len(r) : r[i] = next - Len(r) + i - 1
InFlight == \A i \in 1..Len(net) : net[i].src = track - Len(net) + i - 1

Chain == rxNext = track - Len(net) /\ InFlight /\ RunsTo(ring, rxNext)

LabelInv ==
    /\ Types
    /\ pc = "lock" => ~ havePlayed
    /\ clean => Chain /\ (havePlayed => played = rxNext - Len(ring))

-----------------------------------------------------------------------------
LEMMA DroppedRuns ==
    ASSUME NEW r \in Seq(Int), NEW next \in Int, NEW d \in 0..Len(r)
    PROVE  /\ Dropped(r, d) \in Seq(Int) /\ Len(Dropped(r, d)) = Len(r) - d
           /\ RunsTo(r, next) => RunsTo(Dropped(r, d), next)
<1>1. Dropped(r, d) \in Seq(Int) /\ Len(Dropped(r, d)) = Len(r) - d
  BY DEF Dropped
<1>2. \A i \in 1..Len(r)-d : Dropped(r, d)[i] = r[d + i]
  BY DEF Dropped
<1>3. ASSUME RunsTo(r, next), NEW i \in 1..Len(Dropped(r, d))
      PROVE  Dropped(r, d)[i] = next - Len(Dropped(r, d)) + i - 1
  <2>1. Len(r) \in Nat /\ d \in Nat /\ i \in 1..Len(r)-d /\ d + i \in 1..Len(r)
    BY <1>1
  <2>2. r[d + i] = next - Len(r) + (d + i) - 1
    BY <1>3, <2>1 DEF RunsTo
  <2> QED
    BY <1>1, <1>2, <2>1, <2>2
<1> QED
  BY <1>1, <1>3 DEF RunsTo

LEMMA NewestRuns ==
    ASSUME PlayoutAssumption, NEW r \in Seq(Int), NEW next \in Int
    PROVE  /\ Newest(r, Buffer) \in Seq(Int)
           /\ RunsTo(r, next) => RunsTo(Newest(r, Buffer), next)
<1>0. Buffer \in Nat
  BY DEF PlayoutAssumption
<1>1. Buffer \in Nat /\ Len(r) \in Nat
  BY <1>0
<1>2. CASE Len(r) > Buffer
  <2>1. Newest(r, Buffer) = Dropped(r, Len(r) - Buffer) /\ Len(r) - Buffer \in 0..Len(r)
    BY <1>1, <1>2 DEF Newest, Dropped
  <2> QED
    BY <2>1, DroppedRuns
<1>3. CASE ~ (Len(r) > Buffer)
  BY <1>3 DEF Newest
<1> QED
  BY <1>2, <1>3

LEMMA TailRuns ==
    ASSUME NEW r \in Seq(Int), r # <<>>, NEW next \in Int
    PROVE  /\ Tail(r) \in Seq(Int) /\ Len(Tail(r)) = Len(r) - 1 /\ Len(r) \in Nat
           /\ RunsTo(r, next) => RunsTo(Tail(r), next)
<1>1. Tail(r) \in Seq(Int) /\ Len(Tail(r)) = Len(r) - 1 /\ Len(r) \in Nat /\ Len(r) > 0
  OBVIOUS
<1>2. \A i \in 1..Len(r)-1 : Tail(r)[i] = r[i + 1]
  OBVIOUS
<1>3. ASSUME RunsTo(r, next), NEW i \in 1..Len(Tail(r))
      PROVE  Tail(r)[i] = next - Len(Tail(r)) + i - 1
  <2>1. i \in 1..Len(r)-1 /\ i + 1 \in 1..Len(r) /\ i \in Nat
    BY <1>1
  <2>2. r[i + 1] = next - Len(r) + (i + 1) - 1
    BY <1>3, <2>1 DEF RunsTo
  <2> QED
    BY <1>1, <1>2, <2>1, <2>2
<1> QED
  BY <1>1, <1>3 DEF RunsTo

(* Whole is the chain, said of the ring and the socket at once. *)
LEMMA WholeIsChain ==
    ASSUME Types, NEW r \in Seq(Int), Whole(r)
    PROVE  rxNext = track - Len(net) /\ InFlight /\ RunsTo(r, rxNext)
<1> DEFINE sent == [i \in DOMAIN net |-> net[i].src]
           all == r \o sent
<1>1. /\ net \in Seq(Chunk) /\ Len(net) \in Nat /\ DOMAIN net = 1..Len(net)
      /\ Len(r) \in Nat /\ track \in Nat
  BY DEF Types
<1>2. \A i \in 1..Len(net) : net[i].src \in Int
  <2> TAKE i \in 1..Len(net)
  <2>1. net[i] \in Chunk
    BY <1>1
  <2> QED
    BY <2>1 DEF Chunk
<1>3. sent \in Seq(Int) /\ Len(sent) = Len(net)
  BY <1>1, <1>2
<1>4. \A i \in 1..Len(net) : sent[i] = net[i].src
  BY <1>1
<1>5. (\A i \in DOMAIN all : all[i] = track - Len(all) + i - 1) /\ rxNext = track - Len(net)
  BY DEF Whole
<1> HIDE DEF sent
<1>6. Len(all) = Len(r) + Len(net) /\ DOMAIN all = 1..Len(r) + Len(net)
  <2>1. all \in Seq(Int) /\ Len(all) = Len(r) + Len(sent)
    BY <1>3
  <2>2. DOMAIN all = 1..Len(all)
    BY <2>1
  <2> QED
    BY <1>3, <2>1, <2>2
<1>7. \A i \in 1..Len(r) : all[i] = r[i]
  BY <1>1, <1>3
<1>8. \A i \in 1..Len(net) : all[Len(r) + i] = sent[i]
  BY <1>1, <1>3
<1> HIDE DEF all
<1>9. ASSUME NEW i \in 1..Len(r) PROVE r[i] = rxNext - Len(r) + i - 1
  <2>1. i \in 1..Len(r) + Len(net) /\ i \in Nat
    BY <1>1
  <2>2. all[i] = track - (Len(r) + Len(net)) + i - 1
    BY <1>5, <1>6, <2>1
  <2> QED
    BY <1>1, <1>5, <1>7, <2>1, <2>2
<1>10. ASSUME NEW i \in 1..Len(net) PROVE net[i].src = track - Len(net) + i - 1
  <2>1. Len(r) + i \in 1..Len(r) + Len(net) /\ i \in Nat
    BY <1>1
  <2>2. all[Len(r) + i] = track - (Len(r) + Len(net)) + (Len(r) + i) - 1
    BY <1>5, <1>6, <2>1
  <2> QED
    BY <1>1, <1>4, <1>8, <2>1, <2>2
<1> QED
  BY <1>5, <1>9, <1>10 DEF RunsTo, InFlight

-----------------------------------------------------------------------------
LEMMA InitLabel == Init => LabelInv
<1> SUFFICES ASSUME Init PROVE LabelInv
  OBVIOUS
<1>1. /\ net = <<>> /\ ring = <<>> /\ track = 0 /\ epoch = 0 /\ rxNext = 0 /\ played = 0
      /\ clean = TRUE /\ havePlayed = FALSE
  BY DEF Init
<1>2. net \in Seq(Chunk) /\ ring \in Seq(Int) /\ Len(net) = 0 /\ Len(ring) = 0
  BY <1>1
<1>3. Types
  <2>1. clean \in BOOLEAN /\ havePlayed \in BOOLEAN
    BY <1>1
  <2>2. track \in Nat /\ epoch \in Nat /\ rxNext \in Int /\ played \in Int
    BY <1>1
  <2> QED
    BY <1>2, <2>1, <2>2 DEF Types
<1>4. Chain
  <2>1. 1..Len(net) = {} /\ 1..Len(ring) = {}
    BY <1>2
  <2>2. rxNext = track - Len(net)
    <3>1. track = 0 /\ rxNext = 0
      BY <1>1
    <3>2. Len(net) = 0
      BY <1>2
    <3> QED
      BY <3>1, <3>2
  <2> QED
    BY <2>1, <2>2 DEF Chain, InFlight, RunsTo
<1> QED
  BY <1>1, <1>3, <1>4 DEF LabelInv

(* The source numbers the chunk it sends as the one after those in the socket. *)
LEMMA SendStep == LabelInv /\ SendChunk => LabelInv'
<1> SUFFICES ASSUME LabelInv, SendChunk PROVE LabelInv'
  OBVIOUS
<1> USE DEF LabelInv, rx, label
<1>1. /\ track \in Nat /\ epoch \in Nat /\ net \in Seq(Chunk) /\ Len(net) \in Nat
      /\ track' = track + 1 /\ UNCHANGED <<epoch, ring, rxNext, played, havePlayed, pc>>
  BY DEF Types, SendChunk
<1>2. CASE net' = Append(net, [src |-> track, epoch |-> epoch]) /\ clean' = clean
  <2> DEFINE chunk == [src |-> track, epoch |-> epoch]
  <2>1. chunk \in Chunk /\ chunk.src = track
    BY <1>1 DEF Chunk
  <2> HIDE DEF chunk
  <2>2. net' = Append(net, chunk)
    BY <1>2 DEF chunk
  <2>3. net' \in Seq(Chunk) /\ Len(net') = Len(net) + 1
    BY <1>1, <2>1, <2>2
  <2>4. Types'
    BY <1>1, <1>2, <2>3 DEF Types
  <2>5. ASSUME clean, NEW i \in 1..Len(net') PROVE net'[i].src = track' - Len(net') + i - 1
    <3>1. CASE i \in 1..Len(net)
      <4>1. net'[i] = net[i] /\ net[i].src = track - Len(net) + i - 1
        BY <1>1, <2>1, <2>2, <2>5, <3>1 DEF Chain, InFlight
      <4> QED
        BY <1>1, <2>3, <3>1, <4>1
    <3>2. CASE i = Len(net) + 1
      <4>1. net'[i] = chunk
        BY <1>1, <2>1, <2>2, <3>2
      <4> QED
        BY <1>1, <2>1, <2>3, <3>2, <4>1
    <3> QED
      BY <1>1, <2>3, <3>1, <3>2
  <2>6. clean => Chain'
    BY <1>1, <2>3, <2>5 DEF Chain, InFlight, RunsTo
  <2> QED
    BY <1>1, <1>2, <2>4, <2>6
<1>3. CASE clean' = FALSE /\ net' = net
  <2>1. clean' \in BOOLEAN /\ havePlayed' \in BOOLEAN
    BY <1>1, <1>3 DEF Types
  <2>2. track' \in Nat /\ epoch' \in Nat /\ net' \in Seq(Chunk)
    BY <1>1, <1>3
  <2>3. ring' \in Seq(Int) /\ rxNext' \in Int /\ played' \in Int
    BY <1>1 DEF Types
  <2> QED
    BY <1>1, <1>3, <2>1, <2>2, <2>3 DEF Types
<1> QED
  BY <1>2, <1>3 DEF SendChunk

(* The sink reads the next chunk and counts it, whether or not it fits. *)
LEMMA ReadStep ==
    ASSUME LabelInv, ReadMsg, UNCHANGED <<track, epoch, played, havePlayed, pc>>
    PROVE  LabelInv'
<1> USE DEF LabelInv
<1> DEFINE src == Head(net).src
<1>1. /\ track \in Nat /\ net \in Seq(Chunk) /\ Len(net) \in Nat /\ net # <<>>
      /\ net' = Tail(net) /\ rxNext' = src + 1
      /\ ring \in Seq(Int) /\ Len(ring) \in Nat
  BY DEF Types, ReadMsg
<1>2. Head(net) \in Chunk /\ Head(net) = net[1] /\ 1 \in 1..Len(net)
  BY <1>1
<1>3. src \in Int
  BY <1>2 DEF Chunk
<1>4. /\ net' \in Seq(Chunk) /\ Len(net') = Len(net) - 1
      /\ \A i \in 1..Len(net') : net'[i] = net[i + 1]
  BY <1>1
<1>5. clean => src = rxNext /\ rxNext = track - Len(net) /\ rxNext \in Int
  <2>1. clean => net[1].src = track - Len(net) + 1 - 1
    BY <1>2 DEF Chain, InFlight
  <2> QED
    BY <1>1, <1>2, <2>1 DEF Chain, Types
<1>6. clean => InFlight'
  <2> SUFFICES ASSUME clean, NEW i \in 1..Len(net')
               PROVE  net'[i].src = track - Len(net') + i - 1
    BY DEF InFlight
  <2>1. i + 1 \in 1..Len(net) /\ i \in Nat
    BY <1>1, <1>4
  <2>2. net[i + 1].src = track - Len(net) + (i + 1) - 1
    BY <2>1 DEF Chain, InFlight
  <2> QED
    BY <1>1, <1>4, <2>1, <2>2
<1> HIDE DEF src
<1>7. CASE ring' = Append(ring, src) /\ clean' = clean
  <2>1. ring' \in Seq(Int) /\ Len(ring') = Len(ring) + 1
    BY <1>1, <1>3, <1>7
  <2>2. Types'
    <3>1. rxNext' \in Int
      BY <1>1, <1>3
    <3> QED
      BY <1>4, <1>7, <2>1, <3>1 DEF Types
  <2>3. clean => RunsTo(ring', rxNext')
    <3> SUFFICES ASSUME clean, NEW i \in 1..Len(ring')
                 PROVE  ring'[i] = rxNext' - Len(ring') + i - 1
      BY DEF RunsTo
    <3>1. CASE i \in 1..Len(ring)
      <4>1. ring'[i] = ring[i] /\ ring[i] = rxNext - Len(ring) + i - 1
        BY <1>1, <1>3, <1>7, <3>1 DEF Chain, RunsTo
      <4> QED
        BY <1>1, <1>5, <2>1, <3>1, <4>1
    <3>2. CASE i = Len(ring) + 1
      <4>1. ring'[i] = src
        BY <1>1, <1>3, <1>7, <3>2
      <4> QED
        BY <1>1, <1>3, <2>1, <3>2, <4>1
    <3> QED
      BY <1>1, <2>1, <3>1, <3>2
  <2>4. clean => rxNext' = track' - Len(net')
    BY <1>1, <1>4, <1>5
  <2>5. clean /\ havePlayed => played = rxNext' - Len(ring')
    BY <1>1, <1>5, <2>1
  <2> QED
    BY <1>6, <1>7, <2>2, <2>3, <2>4, <2>5 DEF Chain, RunsTo
<1>8. CASE ring' = ring /\ clean' = FALSE
  <2>1. rxNext' \in Int
    BY <1>1, <1>3
  <2> QED
    BY <1>4, <1>8, <2>1 DEF Types
<1> QED
  BY <1>7, <1>8 DEF ReadMsg, src

(* The cap on the prebuffer takes whole units off the head, before any label. *)
LEMMA StartStep ==
    ASSUME PlayoutAssumption, LabelInv, StartPlayout
    PROVE  LabelInv'
<1> USE DEF LabelInv, StartPlayout, source, label
<1>1. Newest(ring, Buffer) \in Seq(Int)
  BY NewestRuns DEF Types
<1>2. clean => RunsTo(Newest(ring, Buffer), rxNext)
  BY NewestRuns DEF Types, Chain
<1>3. ring' = Newest(ring, Buffer) /\ rxNext' = rxNext /\ pc' # "lock" /\ ~ havePlayed
  OBVIOUS
<1> HIDE DEF StartPlayout
<1>4. UNCHANGED <<track, epoch, net, played, clean, havePlayed>>
  BY DEF StartPlayout
<1>5. Types'
  BY <1>1, <1>3, <1>4 DEF Types
<1> QED
  BY <1>2, <1>3, <1>4, <1>5 DEF Chain, InFlight, RunsTo

(* A period: what the servo drops and what it plays move head and label alike. *)
LEMMA PeriodStep ==
    ASSUME PlayoutAssumption, LabelInv, Period
    PROVE  LabelInv'
<1> DEFINE again == rxEpoch # anchorEpoch \/ reanchor
           kept  == IF again THEN Newest(ring, Buffer) ELSE ring
           set   == (again \/ ~ havePlayed) /\ kept # <<>>
           head  == IF set THEN rxNext - Len(kept) ELSE played
           has   == set \/ (havePlayed /\ ~ again)
<1>1. PICK d \in 0..MaxStep :
          /\ d > 0 => has /\ d <= Len(kept) - Floor
          /\ LET left == Dropped(kept, d)
             IN  IF left # <<>>
                 THEN ring' = Tail(left) /\ played' = head + d + 1 /\ pc' = "drain"
                 ELSE /\ ring' = left /\ played' = head + d
                      /\ pc' = IF eof THEN "done" ELSE "drain"
          /\ havePlayed' = has
          /\ clean' = IF set THEN Whole(kept) ELSE clean
  BY DEF Period
<1> DEFINE left == Dropped(kept, d)
<1>2. /\ Types /\ UNCHANGED <<track, epoch, net, rxNext>>
  BY DEF LabelInv, Period, source
<1>3. kept \in Seq(Int) /\ Len(kept) \in Nat
  <2>1. ring \in Seq(Int) /\ Newest(ring, Buffer) \in Seq(Int)
    BY <1>2, NewestRuns DEF Types
  <2> QED
    BY <2>1
<1>4. clean' => rxNext = track - Len(net) /\ InFlight /\ RunsTo(kept, rxNext)
  <2>1. CASE set
    BY <1>1, <1>2, <1>3, <2>1, WholeIsChain
  <2>2. CASE ~ set
    <3>1. clean' => Chain
      BY <1>1, <2>2 DEF LabelInv
    <3>2. Chain => RunsTo(kept, rxNext)
      BY <1>2, NewestRuns DEF Chain, Types
    <3> QED
      BY <3>1, <3>2 DEF Chain
  <2> QED
    BY <2>1, <2>2
<1>5. clean' /\ has => head = rxNext - Len(kept)
  <2> SUFFICES ASSUME clean', has, ~ set PROVE played = rxNext - Len(kept)
    OBVIOUS
  <2>1. havePlayed /\ ~ again /\ kept = ring /\ clean
    BY <1>1
  <2> QED
    BY <2>1 DEF LabelInv
<1>6. head \in Int
  BY <1>2, <1>3 DEF Types
<1>7. d \in 0..Len(kept)
  <2>1. d \in Nat /\ (d > 0 => d <= Len(kept) - Floor) /\ Floor \in Nat
    BY <1>1 DEF PlayoutAssumption
  <2> HIDE DEF kept
  <2> QED
    BY <1>3, <2>1
<1>8. /\ IF left # <<>> THEN ring' = Tail(left) /\ played' = head + d + 1
                        ELSE ring' = left /\ played' = head + d
      /\ pc' # "lock" /\ havePlayed' = has
  BY <1>1
<1>9. has \in BOOLEAN /\ clean' \in BOOLEAN
  <2>1. Whole(kept) \in BOOLEAN
    BY DEF Whole
  <2> QED
    BY <1>1, <1>2, <2>1 DEF Types
<1> HIDE DEF kept, head, has, set, again
<1>10. /\ left \in Seq(Int) /\ Len(left) = Len(kept) - d
       /\ RunsTo(kept, rxNext) => RunsTo(left, rxNext)
  BY <1>2, <1>3, <1>7, DroppedRuns DEF Types
<1> HIDE DEF left
<1>11. /\ ring' \in Seq(Int) /\ played' \in Int
       /\ RunsTo(left, rxNext) => RunsTo(ring', rxNext)
       /\ head = rxNext - Len(kept) => played' = rxNext - Len(ring')
  <2>1. d \in Nat /\ d \in Int /\ rxNext \in Int /\ Len(kept) \in Nat
    BY <1>2, <1>3, <1>7 DEF Types
  <2>2. CASE left # <<>>
    <3>1. ring' = Tail(left) /\ played' = head + d + 1
      BY <1>8, <2>2
    <3>2. /\ Tail(left) \in Seq(Int) /\ Len(Tail(left)) = Len(left) - 1
          /\ RunsTo(left, rxNext) => RunsTo(Tail(left), rxNext)
      BY <1>10, <2>1, <2>2, TailRuns
    <3>3. Len(ring') = Len(kept) - d - 1
      BY <1>10, <3>1, <3>2
    <3>4. played' \in Int
      BY <1>6, <2>1, <3>1
    <3>5. head = rxNext - Len(kept) => played' = rxNext - Len(ring')
      <4>1. played' = head + d + 1
        BY <3>1
      <4> QED
        BY <1>6, <2>1, <3>3, <4>1
    <3> QED
      BY <3>1, <3>2, <3>4, <3>5
  <2>3. CASE left = <<>>
    <3>1. ring' = left /\ played' = head + d
      BY <1>8, <2>3
    <3>2. played' \in Int
      BY <1>6, <2>1, <3>1
    <3>3. head = rxNext - Len(kept) => played' = rxNext - Len(ring')
      BY <1>10, <2>1, <3>1
    <3> QED
      BY <1>10, <3>1, <3>2, <3>3
  <2> QED
    BY <2>2, <2>3
<1>12. Types'
  BY <1>2, <1>8, <1>9, <1>11 DEF Types
<1>13. clean' => Chain'
  BY <1>2, <1>4, <1>10, <1>11 DEF Chain, InFlight, RunsTo
<1>14. clean' /\ havePlayed' => played' = rxNext' - Len(ring')
  BY <1>2, <1>5, <1>8, <1>11
<1> QED
  BY <1>8, <1>12, <1>13, <1>14 DEF LabelInv

LEMMA LabelStep == PlayoutAssumption /\ LabelInv /\ [Next]_vars => LabelInv'
<1> SUFFICES ASSUME PlayoutAssumption, LabelInv, [Next]_vars PROVE LabelInv'
  OBVIOUS
<1> USE DEF source, rx, label
<1>1. CASE SendChunk
  BY <1>1, SendStep
<1>2. CASE Gap
  <2>1. /\ UNCHANGED <<track, net, pc, ring, rxNext, played, havePlayed, clean>>
        /\ epoch' = epoch + 1
    BY <1>2 DEF Gap
  <2>2. Types'
    BY <2>1 DEF LabelInv, Types
  <2> QED
    BY <2>1, <2>2 DEF LabelInv, Chain, InFlight, RunsTo
<1>3. CASE Prebuffer
  BY <1>3, ReadStep DEF Prebuffer
<1>4. CASE Drain
  BY <1>4, ReadStep DEF Drain
<1>5. CASE StartPlayout
  BY <1>5, StartStep
<1>6. CASE Period
  BY <1>6, PeriodStep
<1>7. CASE CloseSource \/ ClosedEarly \/ Drained \/ Breaks \/ UNCHANGED vars
  <2>1. /\ UNCHANGED <<track, epoch, net, ring, rxNext, played, havePlayed, clean>>
        /\ pc' = "lock" => pc = "lock"
    BY <1>7 DEF CloseSource, ClosedEarly, Drained, Breaks, vars
  <2>2. Types'
    BY <2>1 DEF LabelInv, Types
  <2> QED
    BY <2>1, <2>2 DEF LabelInv, Chain, InFlight, RunsTo
<1> QED
  BY <1>1, <1>2, <1>3, <1>4, <1>5, <1>6, <1>7 DEF Next

LEMMA LabelOfHead == LabelInv => LabelTrue
<1> SUFFICES ASSUME LabelInv, clean, havePlayed, ring # <<>> PROVE played = ring[1]
  BY DEF LabelTrue, Labelled
<1>1. 1 \in 1..Len(ring) /\ Len(ring) \in Nat /\ rxNext \in Int
  BY DEF LabelInv, Types
<1>2. ring[1] = rxNext - Len(ring) + 1 - 1 /\ played = rxNext - Len(ring)
  BY <1>1 DEF LabelInv, Chain, RunsTo
<1> QED
  BY <1>1, <1>2

(* While nothing is lost, the label the servo steers by is the source index of
   the frame at the head of the ring: through the cap on the prebuffer, gaps of
   the source, re-anchoring and the servo's own drops. *)
THEOREM LabelTheorem == PlayoutAssumption => (Spec => []LabelTrue)
<1> SUFFICES ASSUME PlayoutAssumption PROVE Spec => []LabelTrue
  OBVIOUS
<1>1. LabelInv => LabelTrue
  BY LabelOfHead
<1>2. LabelInv /\ [Next]_vars => LabelInv'
  BY LabelStep
<1> QED
  BY <1>1, <1>2, InitLabel, PTL DEF Spec

-----------------------------------------------------------------------------
(* Ranges.  Chunks come with rising indices, so what is read grows at least as fast as
   the ring, and the label, counted or taken from the ring's length, stays among the
   indices: also where chunks were skipped and the label is not true. *)
Rising == \A i \in 1..Len(net) : rxNext + i - 1 <= net[i].src /\ net[i].src < track
Climbing == \A i \in 1..(Len(net) - 1) : net[i].src < net[i + 1].src

RangeInv ==
    /\ TypeOK /\ Rising /\ Climbing
    /\ rxNext <= track /\ Len(ring) <= rxNext /\ played <= rxNext
    /\ havePlayed => played + Len(ring) <= rxNext

(* Induction along a sequence. *)
LEMMA Upwards ==
    ASSUME NEW n \in Nat, NEW S, 0 \in S,
           \A m \in 0..n-1 : m \in S => m + 1 \in S
    PROVE  \A m \in 0..n : m \in S
<1> SUFFICES ASSUME NEW x \in 0..n, x \notin S
             PROVE  FALSE
    OBVIOUS
<1> DEFINE Bad == {m \in 0..n : m \notin S}
           B == OpToRel(<, Nat)
<1>1. IsWellFoundedOn(B, Nat)
    BY NatLessThanWellFounded
<1>2. Bad \subseteq Nat /\ Bad # {}
    OBVIOUS
<1>3. \A a, b \in Nat : a < b => <<a, b>> \in B
    BY DEF OpToRel
<1> HIDE DEF B
<1>4. PICK k \in Bad : \A m \in Bad : ~ (<<m, k>> \in B)
    BY <1>1, <1>2, WFMin
<1>5. k \in 1..n /\ k - 1 \in 0..n-1 /\ k - 1 < k /\ k \in Nat /\ k - 1 \in Nat
    BY <1>4
<1>6. k - 1 \in S
    <2>1. k - 1 \notin Bad
        BY <1>3, <1>4, <1>5
    <2> QED
        BY <1>5, <2>1
<1> QED
    BY <1>4, <1>5, <1>6

Sent == [src : 0..MaxTrack, epoch : 0..MaxEpoch]

LEMMA SentSrc ==
    ASSUME NEW s \in Seq(Sent), NEW i \in 1..Len(s)
    PROVE  s[i].src \in 0..MaxTrack /\ s[i].src \in Int
<1>1. s[i] \in Sent
    OBVIOUS
<1>2. s[i].src \in 0..MaxTrack
    BY <1>1 DEF Sent
<1> QED
    BY <1>2

LEMMA InitRange == PlayoutAssumption /\ Init => RangeInv
<1> SUFFICES ASSUME PlayoutAssumption, Init PROVE RangeInv
    OBVIOUS
<1>1. /\ NetMax \in Nat /\ RingMax \in Nat /\ MaxTrack \in Nat /\ MaxEpoch \in Nat
    BY DEF PlayoutAssumption
<1>2. /\ track = 0 /\ epoch = 0 /\ net = <<>> /\ ring = <<>> /\ rxNext = 0 /\ rxEpoch = 0
      /\ anchorEpoch = 0 /\ played = 0
    BY DEF Init
<1>3. Len(net) = 0 /\ Len(ring) = 0 /\ net \in Seq(Sent) /\ ring \in Seq(0..MaxTrack)
    BY <1>2
<1>4. closed = FALSE /\ pc = "lock" /\ anchored = FALSE /\ reanchor = TRUE /\ havePlayed = FALSE
      /\ eof = FALSE /\ clean = TRUE
    BY DEF Init
<1>5. TypeOK
    <2>1. track \in 0..MaxTrack /\ rxNext \in 0..MaxTrack /\ played \in 0..MaxTrack
          /\ epoch \in 0..MaxEpoch /\ rxEpoch \in 0..MaxEpoch /\ anchorEpoch \in 0..MaxEpoch
        BY <1>1, <1>2
    <2>2. Len(net) <= NetMax /\ Len(ring) <= RingMax
        BY <1>1, <1>3
    <2>3. /\ closed \in BOOLEAN /\ pc \in {"lock", "drain", "period", "done"} /\ anchored \in BOOLEAN
          /\ reanchor \in BOOLEAN /\ havePlayed \in BOOLEAN /\ eof \in BOOLEAN /\ clean \in BOOLEAN
        BY <1>4
    <2>4. net \in Seq([src : 0..MaxTrack, epoch : 0..MaxEpoch]) /\ ring \in Seq(0..MaxTrack)
        BY <1>3 DEF Sent
    <2> QED
        BY ONLY <2>1, <2>2, <2>3, <2>4 DEF TypeOK
<1>6. Rising /\ Climbing
    BY <1>3 DEF Rising, Climbing
<1> QED
    BY <1>2, <1>3, <1>4, <1>5, <1>6 DEF RangeInv

LEMMA SendRange == PlayoutAssumption /\ RangeInv /\ SendChunk => RangeInv'
<1> SUFFICES ASSUME PlayoutAssumption, RangeInv, SendChunk PROVE RangeInv'
    OBVIOUS
<1>1. /\ track \in 0..MaxTrack /\ track < MaxTrack /\ MaxTrack \in Nat /\ epoch \in 0..MaxEpoch
      /\ NetMax \in Nat /\ net \in Seq(Sent) /\ Len(net) \in Nat /\ Len(net) <= NetMax
      /\ rxNext \in 0..MaxTrack /\ rxNext <= track /\ track' = track + 1
      /\ Rising /\ Climbing
    BY DEF PlayoutAssumption, RangeInv, TypeOK, SendChunk, Sent
<1>2. /\ epoch' = epoch /\ closed' = closed /\ pc' = pc /\ ring' = ring /\ rxNext' = rxNext
      /\ rxEpoch' = rxEpoch /\ anchored' = anchored /\ anchorEpoch' = anchorEpoch
      /\ reanchor' = reanchor /\ played' = played /\ havePlayed' = havePlayed /\ eof' = eof
    BY DEF SendChunk, rx, label
<1>3. clean' \in BOOLEAN
    BY DEF SendChunk, RangeInv, TypeOK
<1>4. net' \in Seq(Sent) /\ Len(net') <= NetMax /\ Rising' /\ Climbing'
    <2> DEFINE chunk == [src |-> track, epoch |-> epoch]
    <2>1. CASE Len(net) < NetMax /\ net' = Append(net, chunk)
        <3>1. chunk \in Sent /\ chunk.src = track
            BY <1>1 DEF Sent
        <3> HIDE DEF chunk
        <3>2. /\ net' \in Seq(Sent) /\ Len(net') = Len(net) + 1
              /\ (\A i \in 1..Len(net) : net'[i] = net[i]) /\ net'[Len(net) + 1] = chunk
            BY <1>1, <2>1, <3>1
        <3>3. \A i \in 1..Len(net) : rxNext + i - 1 <= net[i].src /\ net[i].src < track
            BY <1>1 DEF Rising
        <3>4. rxNext + (Len(net) + 1) - 1 <= track
            <4>1. CASE Len(net) = 0
                BY <1>1, <4>1
            <4>2. CASE Len(net) # 0
                <5>1. Len(net) \in 1..Len(net)
                    BY <1>1, <4>2
                <5>2. net[Len(net)].src \in 0..MaxTrack
                    BY <1>1, <5>1, SentSrc
                <5> QED
                    BY <1>1, <3>3, <5>1, <5>2
            <4> QED
                BY <4>1, <4>2
        <3>5. ASSUME NEW i \in 1..Len(net') PROVE rxNext' + i - 1 <= net'[i].src /\ net'[i].src < track'
            <4>1. CASE i = Len(net) + 1
                BY <1>1, <1>2, <3>1, <3>2, <3>4, <4>1
            <4>2. CASE i # Len(net) + 1
                <5>1. i \in 1..Len(net)
                    BY <1>1, <3>2, <4>2
                <5>2. net[i].src \in 0..MaxTrack
                    BY <1>1, <5>1, SentSrc
                <5> QED
                    BY <1>1, <1>2, <3>2, <3>3, <5>1, <5>2
            <4> QED
                BY <4>1, <4>2
        <3>6. ASSUME NEW i \in 1..(Len(net') - 1) PROVE net'[i].src < net'[i + 1].src
            <4>1. i \in 1..Len(net) /\ net'[i] = net[i]
                BY <1>1, <3>2
            <4>2. CASE i = Len(net)
                BY <1>1, <3>1, <3>2, <3>3, <4>1, <4>2
            <4>3. CASE i # Len(net)
                <5>1. i \in 1..(Len(net) - 1) /\ i + 1 \in 1..Len(net)
                    BY <1>1, <4>1, <4>3
                <5> QED
                    BY <1>1, <3>2, <4>1, <5>1 DEF Climbing
            <4> QED
                BY <4>2, <4>3
        <3> QED
            BY <1>1, <2>1, <3>2, <3>5, <3>6 DEF Rising, Climbing
    <2>2. CASE net' = net
        <3>1. Rising'
            <4> SUFFICES ASSUME NEW i \in 1..Len(net)
                         PROVE  rxNext + i - 1 <= net[i].src /\ net[i].src < track + 1
                BY <1>1, <1>2, <2>2 DEF Rising
            <4>1. net[i].src \in 0..MaxTrack
                BY <1>1, SentSrc
            <4> QED
                BY <1>1, <4>1 DEF Rising
        <3> QED
            BY <1>1, <2>2, <3>1 DEF Climbing
    <2> QED
        BY <2>1, <2>2 DEF SendChunk
<1>5. track' \in 0..MaxTrack /\ rxNext' <= track'
    BY <1>1, <1>2
<1> QED
    BY <1>2, <1>3, <1>4, <1>5 DEF RangeInv, TypeOK, Sent

(* What reading a message does to the ring and the ranges. *)
LEMMA ReadRange ==
    ASSUME PlayoutAssumption, RangeInv, ReadMsg
    PROVE  /\ net' \in Seq(Sent) /\ Len(net') <= NetMax
           /\ ring' \in Seq(0..MaxTrack) /\ Len(ring') <= RingMax
           /\ rxNext' \in 0..MaxTrack /\ rxEpoch' \in 0..MaxEpoch /\ clean' \in BOOLEAN
           /\ rxNext' <= track /\ Len(ring') <= rxNext' /\ played <= rxNext'
           /\ havePlayed => played + Len(ring') <= rxNext'
           /\ track' = track => Rising' /\ Climbing'
<1> DEFINE src == Head(net).src
<1>1. /\ net \in Seq(Sent) /\ net # <<>> /\ Len(net) \in Nat /\ Len(net) <= NetMax /\ NetMax \in Nat
      /\ ring \in Seq(0..MaxTrack) /\ Len(ring) <= RingMax /\ Len(ring) \in Nat /\ RingMax \in Nat
      /\ track \in 0..MaxTrack /\ rxNext \in 0..MaxTrack /\ MaxTrack \in Nat /\ MaxEpoch \in Nat
      /\ played \in 0..MaxTrack /\ played <= rxNext /\ Len(ring) <= rxNext
      /\ (havePlayed => played + Len(ring) <= rxNext) /\ clean \in BOOLEAN
      /\ Rising /\ Climbing
    BY DEF PlayoutAssumption, RangeInv, TypeOK, ReadMsg, Sent
<1>2. /\ net' = Tail(net) /\ rxNext' = src + 1 /\ rxEpoch' = Head(net).epoch
    BY DEF ReadMsg
<1>3. /\ Head(net) = net[1] /\ 1 \in 1..Len(net) /\ net[1] \in Sent
      /\ net' \in Seq(Sent) /\ Len(net') = Len(net) - 1
      /\ \A i \in 1..(Len(net) - 1) : net'[i] = net[i + 1]
    BY <1>1, <1>2
<1>4. src \in 0..MaxTrack /\ Head(net).epoch \in 0..MaxEpoch
    BY <1>3 DEF Sent
<1>5. rxNext <= src /\ src < track
    <2>1. rxNext + 1 - 1 <= net[1].src /\ net[1].src < track
        BY <1>1, <1>3 DEF Rising
    <2> QED
        BY <1>1, <1>3, <2>1
<1> HIDE DEF src
<1>6. /\ rxNext' \in 0..MaxTrack /\ rxNext' <= track /\ rxNext' >= rxNext + 1
    BY <1>1, <1>2, <1>4, <1>5
<1>7. /\ ring' \in Seq(0..MaxTrack) /\ Len(ring') <= RingMax
      /\ Len(ring') \in {Len(ring), Len(ring) + 1}
    <2>1. CASE Fits(ring) /\ ring' = Append(ring, src)
        <3>1. Len(ring) < RingMax
            BY <2>1 DEF Fits
        <3>2. ring' \in Seq(0..MaxTrack) /\ Len(ring') = Len(ring) + 1
            BY <1>1, <1>4, <2>1
        <3> QED
            BY <1>1, <3>1, <3>2
    <2>2. CASE ring' = ring
        BY <1>1, <2>2
    <2> QED
        BY <2>1, <2>2 DEF ReadMsg, src
<1>8. clean' \in BOOLEAN
    BY <1>1 DEF ReadMsg
<1>9. \A i \in 1..Len(net) : net[i].src \in 0..MaxTrack /\ net[i].src \in Int
    BY <1>1, SentSrc
<1>10. net[1].src = src
    BY <1>3 DEF src
(* Indices rise: the i-th after the first is at least i above it. *)
<1>11. track' = track => Rising'
    <2> SUFFICES ASSUME track' = track, NEW i \in 1..(Len(net) - 1)
                 PROVE  src + i <= net[i + 1].src /\ net[i + 1].src < track
        <3>1. \A i \in 1..Len(net') : /\ i \in 1..(Len(net) - 1) /\ net'[i] = net[i + 1]
                                      /\ rxNext' + i - 1 = src + i
            BY <1>1, <1>2, <1>3, <1>4
        <3> QED
            BY <3>1 DEF Rising
    <2> DEFINE S == {k \in 0..(Len(net) - 1) : src + k <= net[k + 1].src}
    <2>1. 0 \in S
        <3>1. 0 \in 0..(Len(net) - 1) /\ 0 + 1 = 1 /\ src + 0 = src
            BY <1>1, <1>3, <1>4
        <3> QED
            BY <1>4, <1>10, <3>1
    <2>2. ASSUME NEW k \in 0..(Len(net) - 1) - 1, k \in S PROVE k + 1 \in S
        <3>1. k + 1 \in 1..(Len(net) - 1) /\ k + 1 \in 1..Len(net) /\ (k + 1) + 1 \in 1..Len(net)
              /\ k + 1 \in 0..(Len(net) - 1)
            BY <1>1
        <3>2. net[k + 1].src < net[(k + 1) + 1].src
            BY <1>1, <3>1 DEF Climbing
        <3>3. src + k <= net[k + 1].src
            BY <2>2
        <3>4. src + (k + 1) <= net[(k + 1) + 1].src
            <4> DEFINE a == net[k + 1].src
                       b == net[(k + 1) + 1].src
            <4>1. a \in Int /\ b \in Int /\ src \in Int /\ k \in Int
                BY <1>4, <1>9, <3>1
            <4>2. a < b /\ src + k <= a
                BY <3>2, <3>3
            <4> HIDE DEF a, b
            <4>3. src + (k + 1) <= b
                BY <4>1, <4>2
            <4> QED
                BY <4>3 DEF b
        <3> QED
            BY <3>1, <3>4
    <2>3. Len(net) - 1 \in Nat
        BY <1>1, <1>3
    <2>4. \A k \in 0..(Len(net) - 1) : k \in S
        <3> HIDE DEF S
        <3> QED
            BY ONLY <2>1, <2>2, <2>3, Upwards
    <2>5. i \in S /\ i + 1 \in 1..Len(net)
        BY <1>1, <2>4
    <2> QED
        BY <1>1, <2>5 DEF Rising
<1>12. Climbing'
    <2> SUFFICES ASSUME NEW i \in 1..(Len(net') - 1) PROVE net'[i].src < net'[i + 1].src
        BY DEF Climbing
    <2>1. /\ i \in 1..(Len(net) - 1) /\ i + 1 \in 1..(Len(net) - 1)
        BY <1>1, <1>3
    <2>2. net'[i] = net[i + 1] /\ net'[i + 1] = net[(i + 1) + 1]
        BY <1>3, <2>1
    <2> QED
        BY <1>1, <2>1, <2>2 DEF Climbing
<1>13. /\ played <= rxNext' /\ Len(ring') <= rxNext'
       /\ havePlayed => played + Len(ring') <= rxNext'
    BY <1>1, <1>6, <1>7
<1> QED
    BY <1>1, <1>2, <1>3, <1>4, <1>6, <1>7, <1>8, <1>11, <1>12, <1>13

LEMMA DrainRange == PlayoutAssumption /\ RangeInv /\ (Prebuffer \/ Drain) => RangeInv'
<1> SUFFICES ASSUME PlayoutAssumption, RangeInv, Prebuffer \/ Drain PROVE RangeInv'
    OBVIOUS
<1>1. ReadMsg /\ track' = track /\ epoch' = epoch /\ closed' = closed /\ pc' = pc /\ eof' = eof
    BY DEF Prebuffer, Drain, source
<1>2. /\ net' \in Seq(Sent) /\ Len(net') <= NetMax
      /\ ring' \in Seq(0..MaxTrack) /\ Len(ring') <= RingMax
      /\ rxNext' \in 0..MaxTrack /\ rxEpoch' \in 0..MaxEpoch /\ clean' \in BOOLEAN
      /\ rxNext' <= track /\ Len(ring') <= rxNext' /\ played <= rxNext'
      /\ (havePlayed => played + Len(ring') <= rxNext') /\ Rising' /\ Climbing'
    BY <1>1, ReadRange
<1>3. /\ reanchor' = reanchor /\ played' = played /\ havePlayed' = havePlayed
      /\ anchored' \in BOOLEAN /\ anchorEpoch' \in 0..MaxEpoch
    BY <1>2 DEF Prebuffer, Drain, label, RangeInv, TypeOK
<1> QED
    BY <1>1, <1>2, <1>3 DEF RangeInv, TypeOK, Sent

LEMMA DroppedLength ==
    ASSUME NEW r \in Seq(0..MaxTrack), NEW d \in 0..Len(r)
    PROVE  Dropped(r, d) \in Seq(0..MaxTrack) /\ Len(Dropped(r, d)) = Len(r) - d
<1>1. Len(r) \in Nat /\ d \in Nat /\ d <= Len(r)
    OBVIOUS
<1> DEFINE m == d + 1
           n == Len(r)
<1>2. m \in Int /\ n \in Int /\ \A i \in m..n : i \in 1..Len(r)
    BY <1>1
<1> HIDE DEF m, n
<1>3. ASSUME NEW i \in m..n PROVE r[i] \in 0..MaxTrack
    <2>1. i \in 1..Len(r)
        BY <1>2
    <2> QED
        BY <2>1, ElementOfSeq
<1>4. SubSeq(r, m, n) \in Seq(0..MaxTrack) /\ Len(SubSeq(r, m, n)) = IF m <= n THEN n - m + 1 ELSE 0
    BY ONLY <1>2, <1>3, SubSeqProperties
<1>5. Len(SubSeq(r, m, n)) = Len(r) - d
    BY <1>1, <1>4 DEF m, n
<1> QED
    BY <1>4, <1>5 DEF Dropped, m, n

LEMMA NewestLength ==
    ASSUME PlayoutAssumption, NEW r \in Seq(0..MaxTrack)
    PROVE  Newest(r, Buffer) \in Seq(0..MaxTrack) /\ Len(Newest(r, Buffer)) <= Len(r)
<1>1. Buffer \in Nat /\ Len(r) \in Nat
    BY DEF PlayoutAssumption
<1>2. CASE Len(r) > Buffer
    <2>1. Newest(r, Buffer) = Dropped(r, Len(r) - Buffer) /\ Len(r) - Buffer \in 0..Len(r)
        BY <1>1, <1>2 DEF Newest, Dropped
    <2> QED
        BY <1>1, <2>1, DroppedLength, SMTT(30)
<1>3. CASE ~ (Len(r) > Buffer)
    BY <1>1, <1>3 DEF Newest
<1> QED
    BY <1>2, <1>3

LEMMA StartRange == PlayoutAssumption /\ RangeInv /\ StartPlayout => RangeInv'
<1> SUFFICES ASSUME PlayoutAssumption, RangeInv, StartPlayout PROVE RangeInv'
    OBVIOUS
<1>1. /\ ring \in Seq(0..MaxTrack) /\ Len(ring) \in Nat /\ Len(ring) <= RingMax /\ RingMax \in Nat
      /\ Len(ring) <= rxNext /\ played \in 0..MaxTrack /\ rxNext \in 0..MaxTrack /\ MaxTrack \in Nat
      /\ (havePlayed => played + Len(ring) <= rxNext)
    BY DEF RangeInv, TypeOK, PlayoutAssumption
<1>2. ring' \in Seq(0..MaxTrack) /\ Len(ring') <= Len(ring) /\ Len(ring') \in Nat
    BY <1>1, NewestLength DEF StartPlayout
<1>3. /\ Len(ring') <= RingMax /\ Len(ring') <= rxNext
      /\ (havePlayed => played + Len(ring') <= rxNext)
    BY <1>1, <1>2
<1>4. /\ track' = track /\ epoch' = epoch /\ closed' = closed /\ net' = net /\ pc' = "drain"
      /\ rxNext' = rxNext /\ rxEpoch' = rxEpoch /\ anchored' = anchored
      /\ anchorEpoch' = anchorEpoch /\ reanchor' = reanchor /\ played' = played
      /\ havePlayed' = havePlayed /\ eof' = eof /\ clean' = clean
    BY DEF StartPlayout, source, label
<1> QED
    BY <1>2, <1>3, <1>4 DEF RangeInv, TypeOK, Rising, Climbing

LEMMA PeriodRange == PlayoutAssumption /\ RangeInv /\ Period => RangeInv'
<1> SUFFICES ASSUME PlayoutAssumption, RangeInv, Period PROVE RangeInv'
    OBVIOUS
<1> DEFINE again == rxEpoch # anchorEpoch \/ reanchor
           kept  == IF again THEN Newest(ring, Buffer) ELSE ring
           set   == (again \/ ~ havePlayed) /\ kept # <<>>
           head  == IF set THEN rxNext - Len(kept) ELSE played
           has   == set \/ (havePlayed /\ ~ again)
<1>1. /\ ring \in Seq(0..MaxTrack) /\ Len(ring) \in Nat /\ Len(ring) <= RingMax /\ RingMax \in Nat
      /\ Len(ring) <= rxNext /\ played \in 0..MaxTrack /\ rxNext \in 0..MaxTrack /\ MaxTrack \in Nat
      /\ (havePlayed => played + Len(ring) <= rxNext) /\ played <= rxNext
      /\ MaxStep \in Nat /\ Floor \in Nat
    BY DEF RangeInv, TypeOK, PlayoutAssumption
<1>2. PICK d \in 0..MaxStep :
          /\ d > 0 => has /\ d <= Len(kept) - Floor
          /\ LET left == Dropped(kept, d)
             IN  IF left # <<>>
                 THEN ring' = Tail(left) /\ played' = head + d + 1 /\ pc' = "drain"
                 ELSE /\ ring' = left /\ played' = head + d
                      /\ pc' = IF eof THEN "done" ELSE "drain"
          /\ havePlayed' = has
          /\ anchorEpoch' = (IF again THEN rxEpoch ELSE anchorEpoch)
          /\ clean' = IF set THEN Whole(kept) ELSE clean
    BY DEF Period
<1>3. kept \in Seq(0..MaxTrack) /\ Len(kept) \in Nat /\ Len(kept) <= Len(ring)
    BY <1>1, NewestLength
<1>4. anchorEpoch' \in 0..MaxEpoch /\ pc' \in {"drain", "done"}
    BY <1>2 DEF RangeInv, TypeOK
<1>5. clean' \in BOOLEAN
    BY <1>2 DEF Whole, RangeInv, TypeOK
<1>6. has \in BOOLEAN /\ havePlayed' \in BOOLEAN
    BY <1>2 DEF RangeInv, TypeOK
<1>7. head \in 0..MaxTrack /\ head <= rxNext /\ (has => head + Len(kept) <= rxNext)
    <2>1. CASE set
        <3>1. head = rxNext - Len(kept)
            BY <2>1
        <3> HIDE DEF head, kept, set, has
        <3> QED
            BY <1>1, <1>3, <3>1
    <2>2. CASE ~ set
        <3>1. head = played /\ (has => havePlayed /\ ~ again)
            BY <2>2
        <3>2. has => Len(kept) = Len(ring) /\ havePlayed
            BY <3>1
        <3> QED
            BY <1>1, <3>1, <3>2
    <2> QED
        BY <2>1, <2>2
<1>8. kept # <<>> => has
    BY <1>6 DEF RangeInv, TypeOK
<1> DEFINE left == Dropped(kept, d)
<1>9. d \in 0..Len(kept) /\ (d > 0 => has)
    BY <1>1, <1>2, <1>3
<1>10. left \in Seq(0..MaxTrack) /\ Len(left) = Len(kept) - d
    BY <1>3, <1>9, DroppedLength
<1> HIDE DEF again, kept, set, head, has
<1>11. /\ ring' \in Seq(0..MaxTrack) /\ Len(ring') \in Nat /\ Len(ring') <= Len(kept)
       /\ played' \in Int /\ 0 <= played' /\ played' <= rxNext
       /\ (havePlayed' => played' + Len(ring') <= rxNext)
    <2>1. CASE left # <<>>
        <3>1. ring' = Tail(left) /\ played' = head + d + 1 /\ havePlayed' = has
            BY <1>2, <2>1
        <3>2. ring' \in Seq(0..MaxTrack) /\ Len(ring') = Len(kept) - d - 1 /\ Len(kept) - d >= 1
            BY <1>10, <2>1, <3>1
        <3>3. kept # <<>>
            <4>1. Len(kept) # 0
                BY <1>3, <1>9, <3>2
            <4> QED
                BY <4>1
        <3>4. head + Len(kept) <= rxNext
            BY <1>7, <1>8, <3>3
        <3>5. head \in Nat /\ d \in Nat /\ rxNext \in Nat /\ Len(kept) \in Nat
            BY <1>1, <1>3, <1>7
        <3>6. Len(ring') \in Nat /\ Len(ring') <= Len(kept)
            BY <3>2, <3>5
        <3>7. /\ head + d + 1 \in Int /\ 0 <= head + d + 1 /\ head + d + 1 <= rxNext
              /\ head + d + 1 + Len(ring') <= rxNext
            BY <3>2, <3>4, <3>5
        <3> QED
            BY <3>1, <3>2, <3>6, <3>7
    <2>2. CASE left = <<>>
        <3>1. ring' = left /\ played' = head + d /\ havePlayed' = has
            BY <1>2, <2>2
        <3>2. ring' \in Seq(0..MaxTrack) /\ Len(ring') = 0 /\ Len(kept) = d
            <4>1. Len(left) = 0
                BY <2>2
            <4> QED
                BY <1>3, <1>9, <1>10, <3>1, <4>1
        <3>3. d > 0 => head + d <= rxNext
            BY <1>7, <1>9, <3>2
        <3> QED
            BY <1>1, <1>3, <1>7, <1>9, <3>1, <3>2, <3>3
    <2> QED
        BY <2>1, <2>2
<1>12. played' \in 0..MaxTrack /\ Len(ring') <= RingMax /\ Len(ring') <= rxNext
    BY <1>1, <1>3, <1>11
<1>13. /\ track' = track /\ epoch' = epoch /\ closed' = closed /\ net' = net
       /\ rxNext' = rxNext /\ rxEpoch' = rxEpoch /\ anchored' = anchored /\ eof' = eof
       /\ reanchor' = FALSE
    BY DEF Period, source
<1> QED
    BY <1>4, <1>5, <1>6, <1>11, <1>12, <1>13 DEF RangeInv, TypeOK, Rising, Climbing

LEMMA RangeStep == PlayoutAssumption /\ RangeInv /\ [Next]_vars => RangeInv'
<1> SUFFICES ASSUME PlayoutAssumption, RangeInv, [Next]_vars PROVE RangeInv'
    OBVIOUS
<1>1. CASE Gap
    <2>1. epoch' \in 0..MaxEpoch
        BY <1>1 DEF Gap, RangeInv, TypeOK, PlayoutAssumption
    <2>2. /\ track' = track /\ closed' = closed /\ net' = net /\ pc' = pc /\ ring' = ring
          /\ rxNext' = rxNext /\ rxEpoch' = rxEpoch /\ anchored' = anchored
          /\ anchorEpoch' = anchorEpoch /\ reanchor' = reanchor /\ played' = played
          /\ havePlayed' = havePlayed /\ eof' = eof /\ clean' = clean
        BY <1>1 DEF Gap, rx, label
    <2> QED
        BY <2>1, <2>2 DEF RangeInv, TypeOK, Rising, Climbing
<1>2. CASE CloseSource
    <2>1. /\ track' = track /\ epoch' = epoch /\ closed' = TRUE /\ net' = net /\ pc' = pc /\ ring' = ring
          /\ rxNext' = rxNext /\ rxEpoch' = rxEpoch /\ anchored' = anchored
          /\ anchorEpoch' = anchorEpoch /\ reanchor' = reanchor /\ played' = played
          /\ havePlayed' = havePlayed /\ eof' = eof /\ clean' = clean
        BY <1>2 DEF CloseSource, rx, label
    <2> QED
        BY <2>1 DEF RangeInv, TypeOK, Rising, Climbing
<1>3. CASE ClosedEarly \/ Breaks \/ Drained
    <2>1. /\ track' = track /\ epoch' = epoch /\ closed' = closed /\ net' = net /\ ring' = ring
          /\ rxNext' = rxNext /\ rxEpoch' = rxEpoch /\ anchored' = anchored
          /\ anchorEpoch' = anchorEpoch /\ reanchor' = reanchor /\ played' = played
          /\ havePlayed' = havePlayed /\ clean' = clean
        BY <1>3 DEF ClosedEarly, Breaks, Drained, source, rx, label
    <2>2. pc' \in {"done", "period"} /\ eof' \in BOOLEAN
        BY <1>3 DEF ClosedEarly, Breaks, Drained, EofSeen, RangeInv, TypeOK
    <2> QED
        BY <2>1, <2>2 DEF RangeInv, TypeOK, Rising, Climbing
<1>4. CASE UNCHANGED vars
    BY <1>4 DEF vars, source, rx, label, RangeInv, TypeOK, Rising, Climbing
<1> QED
    BY <1>1, <1>2, <1>3, <1>4, SendRange, DrainRange, StartRange, PeriodRange DEF Next
=============================================================================
