----------------------------- MODULE G729Pitch ------------------------------
(***************************************************************************)
(* The pitch delay of a G.729 subframe: the encoder's search window and    *)
(* codeword (encoder.c, findOpenLoopPitchDelay.c,                          *)
(* adaptativeCodebookSearch.c), the parity bit (utils.c) and what the      *)
(* decoder makes of it when the frame is intact, damaged or erased         *)
(* (decodeAdaptativeCodeVector.c).  The correlations that the searches     *)
(* maximise are abstracted: any delay of the window may win.               *)
(*                                                                         *)
(* A delay is [t, frac]: t + frac/3 samples, frac in {-1, 0, 1}.  One step *)
(* is one subframe of 40 samples, the first or the second of its frame.    *)
(***************************************************************************)
EXTENDS Integers

VARIABLES
  sub,    \* the subframe to process next, 1 or 2
  fate,   \* what happened to the frame of the last subframe
  enc,    \* the delay the encoder chose for it, if it arrived intact
  dec,    \* the delay the decoder used for it
  prev    \* previousIntPitchDelay of the decoder

pitchVars == <<sub, fate, enc, dec, prev>>

MAXIMUM_INT_PITCH_DELAY == 143
L_PAST_EXCITATION == 154
Delay(t, f) == [t |-> t, frac |-> f]
Untracked == Delay(20, 0)   \* enc where the frame did not arrive intact

(* findOpenLoopPitchDelay: the best delay of one of three ranges; in the   *)
(* third only even delays are tried, then the neighbours of the best one.  *)
OpenLoopDelays ==
  LET even == {e \in 80..143 : e % 2 = 0}
  IN  (20..39) \cup (40..79) \cup even \cup {e + 1 : e \in even}
        \cup {e - 1 : e \in even \ {80}}

(* bcg729Encoder: the window of the closed-loop search around the          *)
(* open-loop delay.                                                        *)
FirstMin(openLoop) ==
  LET low == IF openLoop - 3 < 20 THEN 20 ELSE openLoop - 3
  IN  IF low + 6 > MAXIMUM_INT_PITCH_DELAY THEN MAXIMUM_INT_PITCH_DELAY - 6 ELSE low
FirstDelays ==
  {t \in 20..MAXIMUM_INT_PITCH_DELAY :
     \E o \in OpenLoopDelays : t \in FirstMin(o)..(FirstMin(o) + 6)}

(* adaptativeCodebookSearch: the window of the second subframe, left by    *)
(* the first one.                                                          *)
SecondMin(t) ==
  LET low == IF t - 5 < 20 THEN 20 ELSE t - 5
  IN  IF low + 9 > MAXIMUM_INT_PITCH_DELAY THEN MAXIMUM_INT_PITCH_DELAY - 9 ELSE low

(* The fractions it tries: none in a first subframe from 85 up. *)
Fractions(s, t) == IF s = 1 /\ t >= 85 THEN {0} ELSE {-1, 0, 1}

(* pitchDelayCodeword of the first and of the second subframe. *)
FirstCode(t, f) == IF t <= 85 THEN 3 * t - 58 + f ELSE t + 112
SecondCode(t1, t, f) == 3 * (t - SecondMin(t1)) + f + 2

Bit(x, weight) == (x \div weight) % 2

(* computeParity: over the six most significant bits of P1. *)
computeParity(P1) ==
  (1 + Bit(P1, 4) + Bit(P1, 8) + Bit(P1, 16) + Bit(P1, 32) + Bit(P1, 64) + Bit(P1, 128)) % 2

(* A multiplication by 1/3 in Q15. *)
ThirdOf(x) == (x * 10923) \div 32768

\* Mutant: the decoder's second window is not limited above.
SecondDelayUnlimited(t1, P2) ==
  LET tMin == IF t1 - 5 < 20 THEN 20 ELSE t1 - 5
      t == ThirdOf(P2 + 2) - 1
  IN  Delay(t + tMin, P2 - 3 * t - 2)

(* decodeAdaptativeCodeVector: the delay of P1, and of P2 after a first    *)
(* delay t1.                                                               *)
FirstDelay(P1) ==
  LET t == ThirdOf(P1 + 2) + 19
  IN  IF P1 < 197 THEN Delay(t, P1 - 3 * t + 58) ELSE Delay(P1 - 112, 0)
SecondDelay(t1, P2) ==
  LET tMin == IF t1 - 5 < 20 THEN 20 ELSE IF t1 - 5 > 134 THEN 134 ELSE t1 - 5
      t == ThirdOf(P2 + 2) - 1
  IN  Delay(t + tMin, P2 - 3 * t - 2)

(* The delay is lost: the previous one is repeated and lengthened. *)
Conceal ==
  /\ dec' = Delay(prev, 0)
  /\ prev' = IF prev + 1 > MAXIMUM_INT_PITCH_DELAY THEN MAXIMUM_INT_PITCH_DELAY ELSE prev + 1

Accept(d) == dec' = d /\ prev' = d.t

(* The decoder on a received first subframe, with parity bit P0. *)
DecodeFirst(P1, P0) ==
  IF computeParity(P1) # P0 THEN Conceal ELSE Accept(FirstDelay(P1))

PitchInit ==
  /\ sub = 1 /\ fate = "none"
  /\ enc = Untracked /\ dec = Delay(60, 0) /\ prev = 60

FirstIntact ==
  /\ sub = 1 /\ sub' = 2 /\ fate' = "intact"
  /\ \E t \in FirstDelays : \E f \in Fractions(1, t) :
       /\ enc' = Delay(t, f)
       /\ DecodeFirst(FirstCode(t, f), computeParity(FirstCode(t, f)))

(* Any codeword, from another encoder or after damage, with the parity bit *)
(* that fits it or with the other one.                                     *)
FirstDamaged ==
  /\ sub = 1 /\ sub' = 2 /\ fate' = "damaged"
  /\ Conceal \/ \E P1 \in 0..255 : DecodeFirst(P1, computeParity(P1))
  /\ enc' = Untracked

FirstErased ==
  /\ sub = 1 /\ sub' = 2 /\ fate' = "erased"
  /\ Conceal
  /\ enc' = Untracked

SecondIntact ==
  /\ sub = 2 /\ fate = "intact" /\ sub' = 1
  /\ \E t \in SecondMin(enc.t)..(SecondMin(enc.t) + 9) : \E f \in Fractions(2, t) :
       /\ enc' = Delay(t, f)
       /\ Accept(SecondDelay(dec.t, SecondCode(enc.t, t, f)))
  /\ UNCHANGED fate

SecondDamaged ==
  /\ sub = 2 /\ fate = "damaged" /\ sub' = 1
  /\ \E P2 \in 0..31 : Accept(SecondDelay(dec.t, P2))
  /\ UNCHANGED <<fate, enc>>

SecondErased ==
  /\ sub = 2 /\ fate = "erased" /\ sub' = 1
  /\ Conceal
  /\ UNCHANGED <<fate, enc>>

PitchNext ==
  \/ FirstIntact \/ FirstDamaged \/ FirstErased
  \/ SecondIntact \/ SecondDamaged \/ SecondErased

PitchSpec == PitchInit /\ [][PitchNext]_pitchVars

(* computeAdaptativeCodebookVector and generateAdaptativeCodebookVector    *)
(* read, for sample n, from n - k - 9 to n - k + 10, where k is the delay  *)
(* rounded up when its fraction is positive.                               *)
FilterDelay(d) == IF d.frac = 1 THEN d.t + 1 ELSE d.t

PitchTypeOK ==
  /\ sub \in 1..2
  /\ fate \in {"none", "intact", "damaged", "erased"}
  /\ enc \in [t: 20..143, frac: -1..1]
  /\ dec \in [t: 19..144, frac: -1..1]
  /\ prev \in 19..144

(* After an intact subframe the decoder uses exactly the delay the encoder *)
(* chose, at both ends of both search windows and although the decoder     *)
(* divides by a rounded 1/3 and recomputes the second window from its own  *)
(* first delay.                                                            *)
PitchAgree == fate = "intact" => dec = enc

(* Whatever arrives - intact, damaged or nothing, for any number of frames *)
(* - the interpolation filter of either side reads only the 154 samples of *)
(* past excitation it keeps and samples of this subframe already computed. *)
ReadsInsideBuffer ==
  \A d \in {enc, dec} :
    /\ -FilterDelay(d) - 9 >= -L_PAST_EXCITATION
    /\ -FilterDelay(d) + 10 < 0

=============================================================================
