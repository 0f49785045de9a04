----------------------------- MODULE G729Gains ------------------------------
(***************************************************************************)
(* The gains of a G.729 subframe: the two-stage gain codebook, the moving  *)
(* average prediction of the fixed codebook gain that encoder and decoder  *)
(* keep apart from each other, and the decay of the gains while frames are *)
(* lost.  bcg729/src/gainQuantization.c, decodeGains.c, utils.c and        *)
(* codebooks.c, with their fixed-point arithmetic.  Which entry the search *)
(* of the encoder prefers depends on the signal and is left open, and so   *)
(* is the energy of the fixed codebook vector.                             *)
(***************************************************************************)
EXTENDS FixedPoint, Sequences

CONSTANTS
  GainPairs,    \* the codebook entries <<GA, GB>> the encoder may choose
  Energies,     \* the energies of the fixed codebook vector, in Q26
  MaxFrames     \* bound on the frames before the peer stops sending

VARIABLES
  half,         \* the subframe to process next, 1 or 2
  lost,         \* the frame of the last subframe did not arrive
  gone,         \* the peer has stopped sending for good
  frames,       \* frames so far
  intact,       \* subframes received in a row, counted up to 5
  encErr, decErr,   \* previousGainPredictionError of the two sides
  encGain, decGain  \* gains of the last subframe: [ga (Q14), gc (Q1)]

gainVars == <<half, lost, gone, frames, intact, encErr, decErr, encGain, decGain>>

GACodebook == <<<<0, 758>>, <<1551, 1213>>, <<1831, 2511>>, <<57, 2702>>,
  <<1921, 4646>>, <<3242, 4975>>, <<356, 7378>>, <<2678, 13581>>>>
GBCodebook == <<<<826, 1003>>, <<1994, 0>>, <<5142, 296>>, <<6160, 1197>>,
  <<8091, 2431>>, <<9120, 263>>, <<10573, 1483>>, <<11569, 598>>, <<13260, 1628>>,
  <<14194, 815>>, <<15132, 2457>>, <<15161, 7138>>, <<15434, 119>>, <<16112, 1696>>,
  <<17299, 931>>, <<18973, 2968>>>>
MAPredictionCoefficients == <<11141, 9503, 5571, 3113>>

(* The indexes are permuted on the wire; the decoder permutes them back. *)
indexMappingGA == <<5, 1, 4, 7, 3, 0, 6, 2>>
reverseIndexMappingGA == <<5, 1, 7, 4, 2, 0, 6, 3>>
indexMappingGB == <<4, 6, 0, 2, 12, 14, 8, 10, 15, 11, 9, 13, 7, 3, 1, 5>>
reverseIndexMappingGB == <<2, 14, 3, 13, 0, 15, 1, 12, 6, 10, 7, 9, 4, 11, 5, 8>>
OnWire(pair) == <<indexMappingGA[pair[1] + 1], indexMappingGB[pair[2] + 1]>>
OffWire(w) == <<reverseIndexMappingGA[w[1] + 1], reverseIndexMappingGB[w[2] + 1]>>

PairGain(pair) == GACodebook[pair[1] + 1][1] + GBCodebook[pair[2] + 1][1]
CorrectionFactor(pair) == GACodebook[pair[1] + 1][2] + GBCodebook[pair[2] + 1][2]

(* MACodeGainPrediction: the mean energy less the one of the vector, plus  *)
(* the weighted errors, then 10^(x/20).                                    *)
MACodeGainPrediction(err, energy) ==
  LET base == (8145364 + Mult32Q(-24660, Log2(energy), 13)) * 2^8
      acc == base + err[1] * MAPredictionCoefficients[1] + err[2] * MAPredictionCoefficients[2]
               + err[3] * MAPredictionCoefficients[3] + err[4] * MAPredictionCoefficients[4]
  IN  Exp2(PShr(Mult32Q(5442, Shr(acc, 2), 15), 11))

(* computeGainPredictionError: 20 log10 of the correction factor, pushed   *)
(* on the memory of the last four.                                         *)
Push(e, err) == <<e, err[1], err[2], err[3]>>
computeGainPredictionError(factor, err) ==
  Push(PShr(Mult32Q(24660, Log2(factor) - 786432, 12), 6), err)

(* gainQuantization, for the chosen entry: the encoder predicts in Q4 and  *)
(* truncates.                                                              *)
EncoderPrediction(err, energy) == Shr(MACodeGainPrediction(err, energy), 12)
EncoderGain(pair, err, energy) ==
  [ga |-> PairGain(pair),
   gc |-> Shr(MultQ(CorrectionFactor(pair), EncoderPrediction(err, energy), 14), 1)]

\* Mutant: the decoder predicts from the received pair's error alone.
DecoderGainUnpredicted(pair, err, energy) ==
  [ga |-> PairGain(pair),
   gc |-> PShr(Mult32Q(CorrectionFactor(pair),
                       MACodeGainPrediction(<<err[1], err[1], err[1], err[1]>>, energy), 12), 15)]

(* decodeGains, for received indexes: the decoder predicts in Q16 and      *)
(* rounds.                                                                 *)
DecoderGain(pair, err, energy) ==
  [ga |-> PairGain(pair),
   gc |-> PShr(Mult32Q(CorrectionFactor(pair), MACodeGainPrediction(err, energy), 12), 15)]

\* Mutant: the error of an erased frame has no lower limit.
ErasedErrorUnlimited(err) == PShr(err[1] + err[2] + err[3] + err[4], 2) - 4096

(* decodeGains, for an erased frame: attenuated gains, and an error 4 dB   *)
(* below the mean of the last four, at least -14 dB.                       *)
Attenuated(g) ==
  [ga |-> IF g.ga < 16384 THEN MultQ(g.ga, 29491, 15) ELSE 14746,
   gc |-> MultQ(g.gc, 32113, 15)]
ErasedError(err) ==
  LET mean == PShr(err[1] + err[2] + err[3] + err[4], 2)
  IN  IF mean < -10240 THEN -14336 ELSE mean - 4096

InitialErrors == <<-14336, -14336, -14336, -14336>>

GainInit ==
  /\ half = 1 /\ lost = FALSE /\ gone = FALSE /\ frames = 0 /\ intact = 0
  /\ encErr = InitialErrors /\ decErr = InitialErrors
  /\ encGain = [ga |-> 0, gc |-> 0] /\ decGain = [ga |-> 0, gc |-> 0]

(* A frame is lost as a whole: the second subframe shares the fate of the  *)
(* first.                                                                  *)
NextHalf(isLost) ==
  /\ half = 2 => lost = isLost
  /\ half' = 3 - half
  /\ lost' = isLost
  /\ frames' = IF half = 1 /\ ~gone THEN frames + 1 ELSE frames

(* The encoder's side of a subframe, then the decoder's on the indexes it  *)
(* received, or its concealment.                                           *)
EncodeGains(pair, energy) ==
  /\ encGain' = EncoderGain(pair, encErr, energy)
  /\ encErr' = computeGainPredictionError(CorrectionFactor(pair), encErr)

decodeGains(wire, energy) ==
  /\ decGain' = DecoderGain(OffWire(wire), decErr, energy)
  /\ decErr' = computeGainPredictionError(CorrectionFactor(OffWire(wire)), decErr)

ConcealGains ==
  /\ decGain' = Attenuated(decGain)
  /\ decErr' = Push(ErasedError(decErr), decErr)

Received ==
  \E pair \in GainPairs, energy \in Energies :
    /\ ~gone /\ (half = 1 => frames < MaxFrames)
    /\ NextHalf(FALSE)
    /\ EncodeGains(pair, energy)
    /\ decodeGains(OnWire(pair), energy)
    /\ intact' = IF intact < 5 THEN intact + 1 ELSE 5
    /\ UNCHANGED gone

Lost ==
  \E pair \in GainPairs, energy \in Energies :
    /\ ~gone /\ (half = 1 => frames < MaxFrames)
    /\ NextHalf(TRUE)
    /\ EncodeGains(pair, energy)
    /\ ConcealGains
    /\ intact' = 0
    /\ UNCHANGED gone

PeerStops ==
  /\ ~gone /\ half = 1
  /\ gone' = TRUE
  /\ encErr' = InitialErrors /\ encGain' = [ga |-> 0, gc |-> 0] /\ intact' = 0
  /\ UNCHANGED <<half, lost, frames, decErr, decGain>>

(* No more packets: the decoder is called for concealment only. *)
Silence ==
  /\ gone
  /\ half = 2 => lost
  /\ NextHalf(TRUE)
  /\ ConcealGains
  /\ UNCHANGED <<gone, intact, encErr, encGain>>

GainNext == Received \/ Lost \/ PeerStops \/ Silence
GainSpec == GainInit /\ [][GainNext]_gainVars

(* After two whole frames received in a row, whatever was lost before, the *)
(* two prediction memories are equal: an error the concealment put into    *)
(* the decoder's is pushed out, never fed back.                            *)
GainMemoryResync == intact >= 4 => decErr = encErr

(* From then on the decoder's fixed codebook gain is the encoder's, up to  *)
(* the rounding the encoder leaves out (2 in Q1), and never below it; the  *)
(* adaptive gain is exactly the encoder's at once.                         *)
GainsAgree ==
  /\ GainMemoryResync
  /\ intact >= 1 => decGain.ga = encGain.ga
  /\ intact = 5 => decGain.gc - encGain.gc \in 0..2

(* The predicted gain stays in the range [3, 1830] that                    *)
(* gainQuantization.c:174 relies on to keep it in 16 bits, on either side  *)
(* and after any losses.                                                   *)
PredictionInRange ==
  \A err \in {encErr, decErr}, energy \in Energies :
    EncoderPrediction(err, energy) \in (3 * 16)..(1830 * 16)

=============================================================================
