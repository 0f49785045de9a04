------------------------------ MODULE G729Lsf -------------------------------
(***************************************************************************)
(* The line spectral frequencies of a G.729 frame: the codeword that L0 to *)
(* L3 select, the moving average over the last four codewords that encoder *)
(* and decoder keep apart, the stability rules, and the concealment of a   *)
(* lost frame.  bcg729/src/LSPQuantization.c, decodeLSP.c, utils.c,        *)
(* codebooks.c and the branches of decoder.c, dtx.c and cng.c that decide  *)
(* which frames reach them.  Which codeword the search of the encoder      *)
(* prefers depends on the signal and is left open.                         *)
(***************************************************************************)
EXTENDS FixedPoint, Sequences, TLC

CONSTANTS
  SpeechEntries, \* what the quantiser may choose for a speech frame: L0 and the
                 \* sum of an L1 and an L2L3 entry
  NoiseEntries,  \* the same, from the subsets of a SID frame
  MaxLsfFrames, MaxLsfLost   \* bounds on frames, and on lost ones

VARIABLES
  encWords,   \* previousqLSF of the encoder: its last four codewords
  decWords,   \* previousLCodeWord of the decoder
  encLsf,     \* the quantised frequencies the encoder works with
  decLsf,     \* those of the decoder
  lastLsf, lastL0,   \* lastqLSF and lastValidL0 of the decoder
  active,     \* previousFrameIsActiveFlag of the decoder
  inRow,      \* frames with a codeword received in a row, up to 5
  lsfFrames, lsfLost

lsfVars == <<encWords, decWords, encLsf, decLsf, lastLsf, lastL0, active, inRow,
             lsfFrames, lsfLost>>

NB_LSP_COEFF == 10
MA_MAX_K == 4
qLSF_MIN == 40
qLSF_MAX == 25681
MIN_qLSF_DISTANCE == 321
Coefficients == 1..NB_LSP_COEFF

MAPredictor == <<
  <<<<8421, 9109, 9175, 8965, 9034, 9057, 8765, 8775, 9106, 8673>>,
    <<7018, 7189, 7638, 7307, 7444, 7379, 7038, 6956, 6930, 6868>>,
    <<5472, 4990, 5134, 5177, 5246, 5141, 5206, 5095, 4830, 5147>>,
    <<4056, 3031, 2614, 3024, 2916, 2713, 3309, 3237, 2857, 3473>>>>,
  <<<<7733, 7880, 8188, 8175, 8247, 8490, 8637, 8601, 8359, 7569>>,
    <<4210, 3031, 2552, 3473, 3876, 3853, 4184, 4154, 3909, 3968>>,
    <<3214, 1930, 1313, 2143, 2493, 2385, 2755, 2706, 2542, 2919>>,
    <<3024, 1592, 940, 1631, 1723, 1579, 2034, 2084, 1913, 2601>>>>>>
MAPredictorSum == <<
  <<7798, 8447, 8205, 8293, 8126, 8477, 8447, 8703, 9043, 8604>>,
  <<14585, 18333, 19772, 17344, 16426, 16459, 15155, 15220, 16043, 15708>>>>
invMAPredictorSum == <<
  <<17210, 15888, 16357, 16183, 16516, 15833, 15888, 15421, 14840, 15597>>,
  <<9202, 7320, 6788, 7738, 8170, 8154, 8856, 8818, 8366, 8544>>>>

(* The second predictor of SID frames; the first is the one of speech. *)
noiseMAPredictor == <<MAPredictor[1],
  <<<<8145, 8617, 8779, 8648, 8718, 8829, 8713, 8705, 8806, 8231>>,
    <<5894, 5525, 5603, 5773, 6016, 5968, 5896, 5835, 5721, 5707>>,
    <<4568, 3765, 3605, 3963, 4144, 4038, 4225, 4139, 3914, 4255>>,
    <<3643, 2455, 1944, 2466, 2438, 2259, 2798, 2775, 2479, 3124>>>>>>
noiseMAPredictorSum == <<MAPredictorSum[1],
  <<10514, 12402, 12833, 11914, 11447, 11670, 11132, 11311, 11844, 11447>>>>

(* previousLCodeWordInit, previousqLSFInit: steps of Pi/11. *)
InitialWord == <<2339, 4679, 7018, 9358, 11698, 14037, 16377, 18717, 21056, 23396>>

(* rearrangeCoefficients: two neighbours closer than J are moved apart,    *)
(* from the first pair to the last.  upper[i] is coefficient i once its    *)
(* pair with i - 1 has been treated.                                       *)
Half(x) == IF x > 1 THEN x \div 2 ELSE 0
rearrangeCoefficients(word, J) ==
  LET upper[i \in Coefficients] ==
        IF i = 1 THEN word[1]
        ELSE LET excess == upper[i - 1] - word[i] + J IN word[i] + Half(excess)
  IN  [i \in Coefficients |->
         IF i = NB_LSP_COEFF THEN upper[i] ELSE upper[i] - Half(upper[i] - word[i + 1] + J)]
Codeword == [e \in SpeechEntries \cup NoiseEntries |->
               rearrangeCoefficients(rearrangeCoefficients(e.sum, 10), 5)]

(* Equation 20: the codeword and the last four, weighted, in Q28 and back. *)
Weighted(word, words, predictor, predictorSum) ==
  [i \in Coefficients |->
     PShr(predictorSum[i] * word[i] + predictor[1][i] * words[1][i]
            + predictor[2][i] * words[2][i] + predictor[3][i] * words[3][i]
            + predictor[4][i] * words[4][i], 15)]

(* The stability rules: the frequency at index "low" is raised to the      *)
(* minimum, then each is kept at its distance from the one below, then the *)
(* last one is limited.                                                    *)
insertionSort(v) == SortSeq(v, LAMBDA a, b : a < b)
\* Mutant: a frequency is only compared with the received one below.
KeepReceivedDistance(v) ==
  [i \in Coefficients |->
     IF i > 1 /\ v[i] < v[i - 1] + MIN_qLSF_DISTANCE THEN v[i - 1] + MIN_qLSF_DISTANCE ELSE v[i]]

KeepDistance(v) ==
  LET apart[i \in Coefficients] ==
        IF i = 1 THEN v[1]
        ELSE LET least == apart[i - 1] + MIN_qLSF_DISTANCE
             IN  IF v[i] < least THEN least ELSE v[i]
  IN  apart
Stabilised(v, low) ==
  LET sorted == insertionSort(v)
      raised == [sorted EXCEPT ![low] = IF @ < qLSF_MIN THEN qLSF_MIN ELSE @]
      apart == KeepDistance(raised)
  IN  [i \in Coefficients |->
         IF i = NB_LSP_COEFF /\ apart[i] > qLSF_MAX THEN qLSF_MAX ELSE apart[i]]

(* The encoder tests the second frequency against the minimum where the    *)
(* decoder tests the first.                                                *)
EncoderLsf(raw) == Stabilised(raw, 2)
computeqLSF(raw) == Stabilised(raw, 1)

PushWord(word, words) == <<word, words[1], words[2], words[3]>>

(* Concealment in decodeLSP: the codeword that would have produced the     *)
(* last frequencies.                                                       *)
ConcealedWord(lsf, L0, words) ==
  [i \in Coefficients |->
     LET acc == lsf[i] * 2^15
                  - (MAPredictor[L0 + 1][1][i] * words[1][i] + MAPredictor[L0 + 1][2][i] * words[2][i]
                       + MAPredictor[L0 + 1][3][i] * words[3][i] + MAPredictor[L0 + 1][4][i] * words[4][i])
     IN  PShr(Mult32Q(invMAPredictorSum[L0 + 1][i], acc, 12), 15)]

LsfInit ==
  /\ encWords = [j \in 1..MA_MAX_K |-> InitialWord] /\ decWords = encWords
  /\ encLsf = InitialWord /\ decLsf = InitialWord /\ lastLsf = InitialWord
  /\ lastL0 = 0 /\ active = TRUE /\ inRow = 5
  /\ lsfFrames = 0 /\ lsfLost = 0

(* The encoder's half of a frame with a codeword: LSPQuantization, or      *)
(* noiseLSPQuantization for a SID frame, once the entries are chosen.      *)
Quantise(word, predictor, predictorSum) ==
  /\ encLsf' = EncoderLsf(Weighted(word, encWords, predictor, predictorSum))
  /\ encWords' = PushWord(word, encWords)

\* Mutant: the decoder always takes the first predictor.
DequantiseFirst(word, predictor, predictorSum) ==
  /\ decLsf' = computeqLSF(Weighted(word, decWords, MAPredictor[1], MAPredictorSum[1]))
  /\ decWords' = PushWord(word, decWords)
  /\ inRow' = IF inRow < 5 THEN inRow + 1 ELSE 5

(* The decoder's half: decodeLSP, or decodeSIDframe. *)
Dequantise(word, predictor, predictorSum) ==
  /\ decLsf' = computeqLSF(Weighted(word, decWords, predictor, predictorSum))
  /\ decWords' = PushWord(word, decWords)
  /\ inRow' = IF inRow < 5 THEN inRow + 1 ELSE 5

(* An erased frame: after a speech frame the last frequencies are used     *)
(* again and a codeword for them is pushed; after a SID frame the          *)
(* frequencies and the memory stay.                                        *)
Erased ==
  /\ inRow' = 0
  /\ IF active
     THEN /\ decLsf' = lastLsf
          /\ decWords' = PushWord(ConcealedWord(lastLsf, lastL0, decWords), decWords)
     ELSE UNCHANGED <<decLsf, decWords>>
  /\ UNCHANGED <<lastLsf, lastL0, active>>

CountFrame(isLost) ==
  /\ lsfFrames < MaxLsfFrames /\ lsfFrames' = lsfFrames + 1
  /\ isLost => lsfLost < MaxLsfLost
  /\ lsfLost' = IF isLost THEN lsfLost + 1 ELSE lsfLost

SpeechLsf ==
  \E e \in SpeechEntries, isLost \in BOOLEAN :
    /\ CountFrame(isLost)
    /\ Quantise(Codeword[e], MAPredictor[e.L0 + 1], MAPredictorSum[e.L0 + 1])
    /\ IF isLost THEN Erased
       ELSE /\ Dequantise(Codeword[e], MAPredictor[e.L0 + 1], MAPredictorSum[e.L0 + 1])
            /\ lastLsf' = decLsf' /\ lastL0' = e.L0 /\ active' = TRUE

SidLsf ==
  \E e \in NoiseEntries, isLost \in BOOLEAN :
    /\ CountFrame(isLost)
    /\ Quantise(Codeword[e], noiseMAPredictor[e.L0 + 1], noiseMAPredictorSum[e.L0 + 1])
    /\ IF isLost THEN Erased
       ELSE /\ Dequantise(Codeword[e], noiseMAPredictor[e.L0 + 1], noiseMAPredictorSum[e.L0 + 1])
            /\ active' = FALSE /\ UNCHANGED <<lastLsf, lastL0>>

LsfNext == SpeechLsf \/ SidLsf
LsfSpec == LsfInit /\ [][LsfNext]_lsfVars

(* The memories agree again after four frames with a codeword received in  *)
(* a row, speech and SID mixed, whatever the concealment had put into the  *)
(* decoder's.                                                              *)
LsfMemoryResync == inRow >= 4 => decWords = encWords

(* From then on both sides synthesise with the same frequencies, unless    *)
(* the lowest falls under the limit that only the decoder applies to it.   *)
LsfAgree ==
  /\ LsfMemoryResync
  /\ inRow = 5 => (encLsf[1] >= qLSF_MIN => decLsf = encLsf)

(* The frequencies the decoder synthesises with are in range and at their  *)
(* distance, and their cosines, in Q15, strictly decrease: the filter made *)
(* from them is stable, for received, concealed and repeated frames and    *)
(* for codewords out of order.                                             *)
DecoderStable ==
  /\ decLsf[1] >= qLSF_MIN /\ decLsf[NB_LSP_COEFF] <= qLSF_MAX
  /\ \A i \in 1..(NB_LSP_COEFF - 1) :
       decLsf[i + 1] - decLsf[i] >= MIN_qLSF_DISTANCE /\ Cos(decLsf[i + 1]) < Cos(decLsf[i])

(* encodeSIDFrame, when no roots are found for the noise filter: the last  *)
(* quantised pairs are quantised again, back through the arc cosine.       *)
FallbackLsf == [i \in Coefficients |-> Acos(Cos(encLsf[i]))]

(* That way back is exact to 24/8192 rad, less than a tenth of the least   *)
(* distance, for every frequency below the upper limit.  At the limit the  *)
(* cosine is -1 in Q15 and the arc cosine, defined on ]-1, 1[              *)
(* (g729FixedPointMath.h:304), would divide by zero.                       *)
FallbackAccurate ==
  \A i \in Coefficients :
    encLsf[i] \in qLSF_MIN..(qLSF_MAX - 1) => FallbackLsf[i] - encLsf[i] \in -24..24

=============================================================================
