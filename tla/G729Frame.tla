----------------------------- MODULE G729Frame ------------------------------
(***************************************************************************)
(* The frame formats of the G.729 codec: the 80 bits of a speech frame and *)
(* the 15 bits of a silence description (SID) frame, as the encoder writes *)
(* them and the decoder reads them, and the codes of the four pulses of    *)
(* the fixed codebook.  bcg729/src/utils.c, dtx.c, cng.c,                  *)
(* fixedCodebookSearch.c and decodeFixedCodeVector.c.                      *)
(*                                                                         *)
(* A behaviour is one encode and one decode, for the formats have no       *)
(* memory: "sent" are the parameters the encoder quantised, "got" the ones *)
(* the decoder works with.                                                 *)
(***************************************************************************)
EXTENDS Integers

CONSTANTS
  SpeechFrames,   \* the speech frames the encoder may produce
  SidFrames,      \* the SID frames it may produce
  PulseChoices    \* the pulse positions and signs its search may choose

(* The parameters of a frame, each in the range of its codebook. *)
SpeechFrame ==
  [L0: 0..1, L1: 0..127, L2: 0..31, L3: 0..31,
   P1: 0..255, P0: 0..1, C1: 0..8191, S1: 0..15, GA1: 0..7, GB1: 0..15,
   P2: 0..31, C2: 0..8191, S2: 0..15, GA2: 0..7, GB2: 0..15]

SidFrame == [L0: 0..1, L1: 0..31, L2: 0..15, gain: 0..31]

(* A choice of the fixed codebook search: the pulse of each track, the     *)
(* fourth one on track 3 or 4 (jx), and the signs of the signal there.     *)
PulseChoice ==
  [m: [0..3 -> 0..7], jx: 0..1, positive: [0..3 -> 0..1]]

ASSUME FramesAssumption ==
  /\ SpeechFrames \subseteq SpeechFrame
  /\ SidFrames \subseteq SidFrame
  /\ PulseChoices \subseteq PulseChoice

VARIABLES kind, sent, got
frameVars == <<kind, sent, got>>

(* The bits of x at and above the bit of weight "unit", "size" values of   *)
(* them: a shift and a mask.                                               *)
Field(x, unit, size) == (x \div unit) % size

\* Mutant: the fields C2 and S2 overlap by a bit.
SpeechBytesOverlap(p) == <<
  Field(p.L0, 1, 2) * 128 + Field(p.L1, 1, 128),
  Field(p.L2, 1, 32) * 8 + Field(p.L3, 4, 8),
  Field(p.L3, 1, 4) * 64 + Field(p.P1, 4, 64),
  Field(p.P1, 1, 4) * 64 + Field(p.P0, 1, 2) * 32 + Field(p.C1, 256, 32),
  Field(p.C1, 1, 256),
  Field(p.S1, 1, 16) * 16 + Field(p.GA1, 1, 8) * 2 + Field(p.GB1, 8, 2),
  Field(p.GB1, 1, 8) * 32 + Field(p.P2, 1, 32),
  Field(p.C2, 32, 256),
  Field(p.C2, 1, 16) * 8 + Field(p.S2, 2, 8),
  Field(p.S2, 1, 2) * 128 + Field(p.GA2, 1, 8) * 16 + Field(p.GB2, 1, 16)>>

(* parametersArray2BitStream: ten bytes, the parameters in order, the most *)
(* significant bits first.                                                 *)
SpeechBytes(p) == <<
  Field(p.L0, 1, 2) * 128 + Field(p.L1, 1, 128),
  Field(p.L2, 1, 32) * 8 + Field(p.L3, 4, 8),
  Field(p.L3, 1, 4) * 64 + Field(p.P1, 4, 64),
  Field(p.P1, 1, 4) * 64 + Field(p.P0, 1, 2) * 32 + Field(p.C1, 256, 32),
  Field(p.C1, 1, 256),
  Field(p.S1, 1, 16) * 16 + Field(p.GA1, 1, 8) * 2 + Field(p.GB1, 8, 2),
  Field(p.GB1, 1, 8) * 32 + Field(p.P2, 1, 32),
  Field(p.C2, 32, 256),
  Field(p.C2, 1, 32) * 8 + Field(p.S2, 2, 8),
  Field(p.S2, 1, 2) * 128 + Field(p.GA2, 1, 8) * 16 + Field(p.GB2, 1, 16)>>

(* parametersBitStream2Array *)
SpeechParameters(b) ==
  [L0 |-> Field(b[1], 128, 2),
   L1 |-> Field(b[1], 1, 128),
   L2 |-> Field(b[2], 8, 32),
   L3 |-> Field(b[2], 1, 8) * 4 + Field(b[3], 64, 4),
   P1 |-> Field(b[3], 1, 64) * 4 + Field(b[4], 64, 4),
   P0 |-> Field(b[4], 32, 2),
   C1 |-> Field(b[4], 1, 32) * 256 + b[5],
   S1 |-> Field(b[6], 16, 16),
   GA1 |-> Field(b[6], 2, 8),
   GB1 |-> Field(b[6], 1, 2) * 8 + Field(b[7], 32, 8),
   P2 |-> Field(b[7], 1, 32),
   C2 |-> b[8] * 32 + Field(b[9], 8, 32),
   S2 |-> Field(b[9], 1, 8) * 2 + Field(b[10], 128, 2),
   GA2 |-> Field(b[10], 16, 8),
   GB2 |-> Field(b[10], 1, 16)]

(* encodeSIDFrame, the two bytes it writes.  The two most significant bits *)
(* of L2 are taken with a remainder by 3.                                  *)
SidBytes(p) == <<
  Field(p.L0, 1, 2) * 128 + Field(p.L1, 1, 32) * 4 + Field(p.L2, 4, 3),
  Field(p.L2, 1, 4) * 64 + Field(p.gain, 1, 32) * 2>>

(* decodeSIDframe, the two-byte payload. *)
SidParameters(b) ==
  [L0 |-> Field(b[1], 128, 2),
   L1 |-> Field(b[1], 4, 32),
   L2 |-> Field(b[1], 1, 4) * 4 + Field(b[2], 64, 4),
   gain |-> Field(b[2], 2, 32)]

(* The sample index of pulse t of a choice, on its track. *)
PulsePosition(c, t) == 5 * c.m[t] + t + (IF t = 3 THEN c.jx ELSE 0)

(* The end of fixedCodebookSearch: a position is divided by 5 as a         *)
(* multiplication by 0.2 in Q15.                                           *)
FifthOf(i) == (i * 6554) \div 32768
PulseCode(c) ==
  [C |-> FifthOf(PulsePosition(c, 0)) + 8 * FifthOf(PulsePosition(c, 1))
           + 64 * FifthOf(PulsePosition(c, 2))
           + 512 * (2 * FifthOf(PulsePosition(c, 3)) + c.jx),
   S |-> c.positive[0] + 2 * c.positive[1] + 4 * c.positive[2] + 8 * c.positive[3]]

(* decodeFixedCodeVector: the four samples it sets, before the pitch       *)
(* correction, as <<index, sign>>.                                         *)
Pulses(C, S) ==
  {<<Field(C, 1, 8) * 5, Field(S, 1, 2)>>,
   <<Field(C, 8, 8) * 5 + 1, Field(S, 2, 2)>>,
   <<Field(C, 64, 8) * 5 + 2, Field(S, 4, 2)>>,
   <<Field(C, 1024, 8) * 5 + 3 + Field(C, 512, 2), Field(S, 8, 2)>>}

(* The pulses fixedCodebookSearch sets in the encoder's own vector. *)
ChosenPulses(c) == {<<PulsePosition(c, t), c.positive[t]>> : t \in 0..3}

NoFrame == [none |-> 0]
FrameInit == kind = "none" /\ sent = NoFrame /\ got = NoFrame

Speech(p) ==
  /\ kind' = "speech"
  /\ sent' = p
  /\ got' = SpeechParameters(SpeechBytes(p))

Sid(p) ==
  /\ kind' = "sid"
  /\ sent' = p
  /\ got' = SidParameters(SidBytes(p))

FixedCodebook(c) ==
  /\ kind' = "pulses"
  /\ sent' = [pulses |-> ChosenPulses(c)]
  /\ got' = [pulses |-> Pulses(PulseCode(c).C, PulseCode(c).S)]

FrameNext ==
  /\ kind = "none"
  /\ \/ \E p \in SpeechFrames : Speech(p)
     \/ \E p \in SidFrames : Sid(p)
     \/ \E c \in PulseChoices : FixedCodebook(c)

FrameSpec == FrameInit /\ [][FrameNext]_frameVars

(* What the encoder meant reaches the decoder: the parameters of a speech  *)
(* frame, for utils.c packs and unpacks the same 80 bits; the pulses with  *)
(* their signs, though their code is computed from rounded divisions; of a *)
(* SID frame L0, L1, the gain and the low bits of L2, and L2 itself for    *)
(* the first twelve entries of the noise codebook.                         *)
FramesArrive ==
  IF kind = "sid"
  THEN /\ got.L0 = sent.L0 /\ got.L1 = sent.L1 /\ got.gain = sent.gain
       /\ got.L2 % 4 = sent.L2 % 4
       /\ sent.L2 < 12 => got.L2 = sent.L2
  ELSE got = sent

=============================================================================
