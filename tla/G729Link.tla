------------------------------ MODULE G729Link ------------------------------
(***************************************************************************)
(* A G.729 stream between two FreeSWITCH codec handles: mod_bcg729.c,      *)
(* which packs the frames of a packet and walks a received one, and the    *)
(* frame control of the codec below it (encoder.c, decoder.c, dtx.c,       *)
(* cng.c): which frames are sent in silence, when the decoder plays        *)
(* comfort noise, and the pseudo random state the two sides keep in step.  *)
(*                                                                         *)
(* A packet is a sequence of 16-bit cells: five <<"speech", 1..5>> for a   *)
(* speech frame and one <<"sid", gain>> for a SID frame.  A pseudo random  *)
(* seed is the number of noise frames drawn from it since its reset (every *)
(* noise frame draws the same number of values).  Open: the voice activity *)
(* decision, the change of the spectrum, and the gain of a SID frame.      *)
(***************************************************************************)
EXTENDS Integers, Sequences, SequencesExt

CONSTANTS
  PacketSizes,   \* 10 ms frames in a packet, of the streams considered
  SidGains,      \* gains of the SID codebook a SID frame may carry
  MaxPackets,    \* bound on the packets of a stream
  MaxReopens     \* bound on re-created codec handles

VARIABLES
  vad,           \* globals.use_vad
  perPacket,     \* frames in a packet
  coder,         \* encoder: [voice, count, seed, gain, smooth]
  player,        \* decoder: [active, seed, gain, smooth]
  wire,          \* the packet on its way
  sids,          \* per frame of that packet, "speech", "sid" or "none"
  played,        \* frames the last decode returned, -1 when it failed
  taken,         \* the frames it recognised: <<cells taken, taken as SID>>
  inStep,        \* history: no silence has been misheard since both spoke
  packets, reopens

linkVars == <<vad, perPacket, coder, player, wire, sids, played, taken, inStep,
              packets, reopens>>

Nothing == <<<<"nothing", 0>>>>  \* no packet on its way
Refused == <<<<"refused", 0>>>>  \* the encoder returned an error

SpeechCells == [k \in 1..5 |-> <<"speech", k>>]
InitialEncoder == [voice |-> TRUE, count |-> 0, seed |-> 0, gain |-> 0, smooth |-> 0]
InitialDecoder == [active |-> TRUE, seed |-> 0, gain |-> 0, smooth |-> 0]

LinkInit ==
  /\ vad \in BOOLEAN
  /\ perPacket \in PacketSizes
  /\ coder = InitialEncoder /\ player = InitialDecoder
  /\ wire = Nothing /\ sids = <<>> /\ played = perPacket /\ taken = <<>>
  /\ inStep = TRUE /\ packets = 0 /\ reopens = 0

(* The gain of a noise frame: the first one of a silence takes the         *)
(* transmitted gain, a later one moves an eighth of the way to it.         *)
Smoothed(first, smooth, gain) ==
  IF first THEN gain ELSE smooth - smooth \div 8 + gain \div 8

(* computeComfortNoiseExcitationVector: one more noise frame from a seed. *)
NextSeed(seed) == seed + 1

(* encodeSIDFrame, and bcg729Encoder around it: the type of a frame and    *)
(* the encoder after it.  A frame is [voice, changed, gain].               *)
FrameCount(e) == IF e.voice THEN e.count ELSE IF e.count < 2 THEN e.count + 1 ELSE 3
IsSid(e, f) == e.voice \/ (FrameCount(e) = 3 /\ f.changed)
FrameType(e, f) ==
  IF ~vad \/ f.voice THEN "speech" ELSE IF IsSid(e, f) THEN "sid" ELSE "none"
EncodeFrame(e, f) ==
  LET type == FrameType(e, f)
      gain == IF type = "sid" THEN f.gain ELSE e.gain
  IN  IF type = "speech" THEN [e EXCEPT !.voice = TRUE, !.seed = 0]
      ELSE [voice |-> FALSE,
            count |-> IF type = "sid" THEN 0 ELSE FrameCount(e),
            seed |-> NextSeed(e.seed),
            gain |-> gain,
            smooth |-> Smoothed(e.voice, e.smooth, gain)]
FrameCells(type, f) ==
  CASE type = "speech" -> SpeechCells
    [] type = "sid" -> <<<<"sid", f.gain>>>>
    [] OTHER -> <<>>

(* switch_bcg729_encode: the frames of a packet in turn, as long as ten    *)
(* more bytes fit into the buffer of ten bytes a frame.                    *)
FitsEncoded(cells, size) == ~(2 * Len(cells) + 10 > size)
EncodePacket(frames) ==
  LET run[k \in 0..Len(frames)] ==
        IF k = 0 THEN [ok |-> TRUE, coder |-> coder, types |-> <<>>, cells |-> <<>>]
        ELSE LET r == run[k - 1]
                 type == FrameType(r.coder, frames[k])
             IN  IF ~r.ok \/ ~FitsEncoded(r.cells, 10 * perPacket)
                 THEN [r EXCEPT !.ok = FALSE]
                 ELSE [ok |-> TRUE, coder |-> EncodeFrame(r.coder, frames[k]),
                       types |-> Append(r.types, type),
                       cells |-> r.cells \o FrameCells(type, frames[k])]
  IN  run[Len(frames)]

Frames ==
  {[voice |-> TRUE, changed |-> FALSE, gain |-> 0]}
    \cup [voice: {FALSE}, changed: BOOLEAN, gain: SidGains]

Encode ==
  \E frames \in [1..perPacket -> Frames] :
    LET r == EncodePacket(frames)
    IN  /\ wire = Nothing /\ packets < MaxPackets
        /\ coder' = r.coder
        /\ wire' = IF r.ok THEN r.cells ELSE Refused
        /\ sids' = r.types
        /\ packets' = packets + 1
        /\ UNCHANGED <<vad, perPacket, player, played, taken, inStep, reopens>>

(* Input that is not a whole number of frames: dropped, the encoder is not *)
(* called.                                                                 *)
EncodePartial ==
  /\ wire = Nothing /\ packets < MaxPackets
  /\ wire' = <<>> /\ sids' = <<>>
  /\ packets' = packets + 1
  /\ UNCHANGED <<vad, perPacket, coder, player, played, taken, inStep, reopens>>

\* Mutant: the random seed is not reset by a speech frame.
DecodeSpeechKeepsSeed(d) == [d EXCEPT !.active = TRUE]

(* bcg729Decoder for a speech frame, for a SID frame of that gain, and for *)
(* an erased frame: noise goes on as noise, speech is concealed as speech. *)
DecodeSpeech(d) == [d EXCEPT !.active = TRUE, !.seed = 0]
DecodeSid(d, gain) ==
  [active |-> FALSE, seed |-> NextSeed(d.seed), gain |-> gain,
   smooth |-> Smoothed(d.active, d.smooth, gain)]
DecodeErased(d) == IF d.active THEN DecodeSpeech(d) ELSE DecodeSid(d, d.gain)

(* switch_bcg729_decode cuts a packet into frames: ten bytes as long as    *)
(* there are ten, then SID frames of two bytes.                            *)
FramesIn(cells) ==
  LET full == Len(cells) \div 5
  IN  [k \in 1..(full + (Len(cells) % 5)) |->
         IF k <= full THEN SubSeq(cells, 5 * k - 4, 5 * k) ELSE <<cells[4 * full + k]>>]

(* It decodes them in turn, as long as 160 more bytes fit into the buffer  *)
(* of one packet.  "guess" is the gain read from bytes that are no SID.    *)
FitsDecoded(n, size) == ~(160 * n + 160 > size)
DecodePacket(parts, guess) ==
  LET run[k \in 0..Len(parts)] ==
        IF k = 0 THEN [ok |-> TRUE, player |-> player]
        ELSE LET r == run[k - 1]
                 cell == parts[k][1]
             IN  IF ~r.ok \/ ~FitsDecoded(k - 1, 160 * perPacket) THEN [r EXCEPT !.ok = FALSE]
                 ELSE IF Len(parts[k]) = 5 THEN [r EXCEPT !.player = DecodeSpeech(r.player)]
                 ELSE [r EXCEPT !.player =
                         DecodeSid(r.player, IF cell[1] = "sid" THEN cell[2] ELSE guess)]
  IN  run[Len(parts)]

(* No bytes: concealment frames as long as one more fits. *)
ConcealPacket ==
  LET run[k \in 0..(perPacket + 1)] ==
        IF k = 0 THEN [frames |-> 0, player |-> player]
        ELSE IF FitsDecoded(k - 1, 160 * perPacket)
             THEN [frames |-> k, player |-> DecodeErased(run[k - 1].player)]
        ELSE run[k - 1]
  IN  run[perPacket + 1]

(* Both sides speak: in step.  A SID frame the decoder never saw, or one   *)
(* side in silence and the other not: out of step.                         *)
StillInStep(d, sidLost) ==
  \/ coder.voice /\ d.active
  \/ inStep /\ ~sidLost /\ coder.voice = d.active /\ sids # <<>>

(* The packet arrives; an empty one was never sent, and the core asks for  *)
(* concealment in its place.                                               *)
Deliver ==
  /\ wire \notin {Nothing, Refused, <<>>}
  /\ \E guess \in SidGains :
       LET r == DecodePacket(FramesIn(wire), guess)
       IN  /\ player' = r.player
           /\ played' = IF r.ok THEN Len(FramesIn(wire)) ELSE -1
           /\ inStep' = StillInStep(r.player, FALSE)
  /\ taken' = FramesIn(wire)
  /\ wire' = Nothing
  /\ UNCHANGED <<vad, perPacket, coder, sids, packets, reopens>>

Missing ==
  /\ wire # Nothing
  /\ player' = ConcealPacket.player
  /\ played' = ConcealPacket.frames
  /\ taken' = <<>>
  /\ inStep' = StillInStep(player', Contains(sids, "sid"))
  /\ wire' = Nothing
  /\ UNCHANGED <<vad, perPacket, coder, sids, packets, reopens>>

(* switch_bcg729_destroy and switch_bcg729_init: a side re-creates its     *)
(* handle, with fresh contexts, and the other does not know.               *)
ReopenEncoder ==
  /\ wire = Nothing /\ reopens < MaxReopens
  /\ coder' = InitialEncoder
  /\ inStep' = player.active
  /\ reopens' = reopens + 1
  /\ UNCHANGED <<vad, perPacket, player, wire, sids, played, taken, packets>>

ReopenDecoder ==
  /\ wire = Nothing /\ reopens < MaxReopens
  /\ player' = InitialDecoder
  /\ inStep' = coder.voice
  /\ reopens' = reopens + 1
  /\ UNCHANGED <<vad, perPacket, coder, wire, sids, played, taken, packets>>

LinkNext ==
  \/ Encode \/ EncodePartial \/ Deliver \/ Missing \/ ReopenEncoder \/ ReopenDecoder
LinkSpec == LinkInit /\ [][LinkNext]_linkVars

(* Without silence suppression, or with one frame in a packet, packets     *)
(* hold whole frames of one kind.                                          *)
Framed == ~vad \/ perPacket = 1

(* The two sides stay in step.  In time: the buffer of ten bytes a frame   *)
(* never refuses a packet, nor does the buffer of 160 bytes a frame, even  *)
(* for a packet cut at the wrong places, and every packet interval plays   *)
(* as many frames as it lasts.  In noise: as long as no SID frame of the   *)
(* silence was lost, both draw the same noise with the same gain, through  *)
(* untransmitted frames, which the decoder cannot tell from lost ones, and *)
(* whatever went wrong before the last time both sides spoke (dtx.c:282,   *)
(* decoder.c:206).                                                         *)
StreamInStep ==
  /\ played >= 0 /\ wire # Refused
  /\ Framed => played = perPacket
  /\ (wire = Nothing /\ Framed /\ inStep) =>
       /\ coder.seed = player.seed
       /\ coder.voice = player.active
       /\ ~coder.voice => coder.gain = player.gain /\ coder.smooth = player.smooth

(* mod_bcg729.c:214-216 says of the walk: "With fewer than a full frame    *)
(* remaining, the trailing bytes must be a SID frame."                     *)
TrailingIsSid ==
  \A k \in DOMAIN taken : Len(taken[k]) = 1 => taken[k][1][1] = "sid"

=============================================================================
