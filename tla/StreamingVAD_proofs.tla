------------------------- MODULE StreamingVAD_proofs -------------------------
(***************************************************************************)
(* The segmentation invariants of StreamingVAD for every frame length,     *)
(* every set of thresholds, every chunking and every stream.               *)
(***************************************************************************)
EXTENDS StreamingVAD, TLAPS

\* No utterance still to come starts before this.
Frontier == IF inUtterance THEN start ELSE now - speechRun

\* The utterance in progress: its speech so far is long enough and below the
\* cap, the pause it is in is too short to close it, and its buffer holds all
\* of it but the onset.
OpenInv ==
    inUtterance =>
        /\ start + MinSpeechMs + silenceRun <= now
        /\ now - start - silenceRun < MaxUtteranceMs
        /\ silenceRun < MinSilenceMs
        /\ silenceRun < buffered
        /\ 0 <= now - start - buffered /\ now - start - buffered < MinSpeechMs

ClosedInv ==
    /\ speechRun <= now
    /\ ~inUtterance => silenceRun = 0 /\ speechRun < MinSpeechMs

\* What is claimed of one utterance by itself, and of its place in time.
GoodUtterance(u) ==
    /\ u.end - u.start >= MinSpeechMs
    /\ u.end - u.start < MaxUtteranceMs + MinSilenceMs + FrameMs
    /\ 0 <= u.end - u.start - u.samples
    /\ u.end - u.start - u.samples < MinSpeechMs

Precedes(u, t) == u.end <= t /\ (u.closedBy = "silence" => u.end + MinSilenceMs <= t)

PastInv ==
    /\ \A i \in 1..Len(emitted) : GoodUtterance(emitted[i])
    /\ \A i \in 1..Len(emitted) : Precedes(emitted[i], Frontier)
    /\ \A i, k \in 1..Len(emitted) : i < k => Precedes(emitted[i], emitted[k].start)

IInv == TypeOK /\ OpenInv /\ ClosedInv /\ PastInv

USE FrameAssumption, ThresholdAssumption, InputAssumption

-----------------------------------------------------------------------------
LEMMA EmittedTyped ==
    ASSUME TypeOK, NEW i \in 1..Len(emitted)
    PROVE  /\ emitted[i] \in Utterance
           /\ emitted[i].start \in Nat /\ emitted[i].end \in Nat
           /\ emitted[i].samples \in Nat
<1>1. emitted[i] \in Utterance
  BY DEF TypeOK
<1>2. QED
  BY <1>1 DEF Utterance

\* Handing out one more utterance, good in itself and not starting before the
\* frontier, keeps the record of the past good.
LEMMA EmitKeepsPast ==
    ASSUME TypeOK, PastInv,
           NEW u \in Utterance, GoodUtterance(u), u.start >= Frontier,
           emitted' = Append(emitted, u),
           Frontier' \in Nat, Precedes(u, Frontier')
    PROVE  PastInv' /\ emitted' \in Seq(Utterance)
<1>1. /\ emitted' \in Seq(Utterance)
      /\ Len(emitted') = Len(emitted) + 1
      /\ \A i \in 1..Len(emitted) : emitted'[i] = emitted[i]
      /\ emitted'[Len(emitted) + 1] = u
  BY DEF TypeOK
<1>2. u.start \in Nat /\ u.end \in Nat /\ u.samples \in Nat
  BY DEF Utterance
<1>3. \A i \in 1..Len(emitted) :
         emitted[i].start \in Nat /\ emitted[i].end \in Nat /\ emitted[i].samples \in Nat
  BY EmittedTyped
<1>4. Frontier \in Int
  BY DEF TypeOK, Frontier
<1>5. u.end - u.start >= MinSpeechMs
  BY DEF GoodUtterance
<1>6. Frontier' >= u.end /\ u.end >= u.start
  BY <1>2, <1>5 DEF Precedes
<1>7. \A i \in 1..Len(emitted') : GoodUtterance(emitted'[i])
  BY <1>1 DEF PastInv, TypeOK
<1>8. \A i \in 1..Len(emitted) : Precedes(emitted[i], u.start)
  BY <1>2, <1>3, <1>4 DEF PastInv, Precedes
<1>9. \A i \in 1..Len(emitted') : Precedes(emitted'[i], Frontier')
  BY <1>1, <1>2, <1>3, <1>6, <1>8 DEF Precedes, TypeOK
<1>10. \A i, k \in 1..Len(emitted') : i < k => Precedes(emitted'[i], emitted'[k].start)
  BY <1>1, <1>8 DEF PastInv, TypeOK
<1>11. QED
  BY <1>1, <1>7, <1>9, <1>10 DEF PastInv, GoodUtterance, Precedes

\* A step that hands nothing out and does not move the frontier back.
LEMMA QuietKeepsPast ==
    ASSUME TypeOK, PastInv, emitted' = emitted,
           Frontier' \in Int, Frontier <= Frontier'
    PROVE  PastInv'
<1>1. \A i \in 1..Len(emitted) : emitted[i].end \in Nat
  BY EmittedTyped
<1>2. Frontier \in Int
  BY DEF TypeOK, Frontier
<1>3. \A i \in 1..Len(emitted) : Precedes(emitted[i], Frontier')
  BY <1>1, <1>2 DEF PastInv, Precedes
<1>4. QED
  BY <1>3 DEF PastInv, GoodUtterance, Precedes

-----------------------------------------------------------------------------
LEMMA InitIInv == Init => IInv
<1> SUFFICES ASSUME Init PROVE IInv
  OBVIOUS
<1>1. emitted \in Seq(Utterance)
  BY DEF Init
<1>2. /\ pending \in Nat /\ now \in Nat /\ start \in Nat
      /\ inUtterance = FALSE /\ speechRun = 0 /\ silenceRun = 0 /\ buffered = 0
      /\ now = 0
  BY DEF Init
<1>3. TypeOK
  BY <1>1, <1>2 DEF TypeOK
<1>4. OpenInv
  BY <1>2 DEF OpenInv
<1>5. ClosedInv
  BY <1>2 DEF ClosedInv
<1>6. PastInv
  BY DEF Init, PastInv
<1>7. QED
  BY <1>3, <1>4, <1>5, <1>6 DEF IInv

LEMMA PushIInv ==
    ASSUME IInv, NEW n \in ChunkSizes, Push(n)
    PROVE  IInv'
<1>1. n \in Nat
  OBVIOUS
<1>2. TypeOK' /\ OpenInv' /\ ClosedInv'
  BY <1>1 DEF IInv, Push, TypeOK, OpenInv, ClosedInv
<1>3. Frontier' = Frontier /\ Frontier \in Int
  BY DEF IInv, Push, Frontier, TypeOK
<1>4. PastInv'
  BY <1>3, QuietKeepsPast DEF IInv, Push
<1>5. QED
  BY <1>2, <1>4 DEF IInv

LEMMA SpeechBelowOnsetIInv ==
    ASSUME IInv, SpeechBelowOnset
    PROVE  IInv'
<1> USE DEF SpeechBelowOnset, CutFrame, Run, Opens, IInv
<1>1. TypeOK' /\ OpenInv' /\ ClosedInv'
  BY DEF TypeOK, OpenInv, ClosedInv
<1>2. Frontier' = Frontier /\ Frontier \in Int
  BY DEF Frontier, TypeOK
<1>3. QED
  BY <1>1, <1>2, QuietKeepsPast

LEMMA SpeechInUtteranceIInv ==
    ASSUME IInv, SpeechInUtterance
    PROVE  IInv'
<1> USE DEF SpeechInUtterance, CutFrame, Run, Opens, StartAt, BufferedTo, AtCap, IInv
<1>1. TypeOK' /\ OpenInv' /\ ClosedInv'
  BY DEF TypeOK, OpenInv, ClosedInv
<1>2. Frontier' = Frontier /\ Frontier \in Int
  BY DEF Frontier, TypeOK, ClosedInv
<1>3. QED
  BY <1>1, <1>2, QuietKeepsPast

LEMMA SpeechAtCapIInv ==
    ASSUME IInv, SpeechAtCap
    PROVE  IInv'
<1> DEFINE u == [start |-> StartAt, end |-> now', samples |-> BufferedTo,
                 closedBy |-> "cap"]
<1> USE DEF SpeechAtCap, CutFrame, Emit, Run, Opens, StartAt, BufferedTo, AtCap, IInv
<1>1. u \in Utterance /\ u.start = Frontier
  BY DEF TypeOK, OpenInv, ClosedInv, Frontier, Utterance
<1>2. GoodUtterance(u)
  BY DEF TypeOK, OpenInv, ClosedInv, GoodUtterance
<1>3. Frontier' = now' /\ Frontier' \in Nat /\ Precedes(u, Frontier')
  BY DEF TypeOK, Frontier, Precedes
<1>4. Frontier \in Int
  BY DEF TypeOK, Frontier
<1>5. emitted' = Append(emitted, u)
  OBVIOUS
<1> HIDE DEF u
<1>6. PastInv' /\ emitted' \in Seq(Utterance)
  BY <1>1, <1>2, <1>3, <1>4, <1>5, EmitKeepsPast
<1>7. /\ pending' \in Nat /\ now' \in Nat /\ start' \in Nat
      /\ inUtterance' = FALSE /\ speechRun' = 0 /\ silenceRun' = 0 /\ buffered' = 0
  BY DEF TypeOK, OpenInv, ClosedInv
<1> HIDE DEF SpeechAtCap, CutFrame, Emit
<1>8. TypeOK'
  BY <1>6, <1>7 DEF TypeOK
<1>9. OpenInv'
  BY <1>7 DEF OpenInv
<1>10. ClosedInv'
  BY <1>7 DEF ClosedInv
<1>11. QED
  BY <1>6, <1>8, <1>9, <1>10

LEMMA SilenceOutsideIInv ==
    ASSUME IInv, SilenceOutside
    PROVE  IInv'
<1> USE DEF SilenceOutside, CutFrame, IInv
<1>1. TypeOK' /\ OpenInv' /\ ClosedInv'
  BY DEF TypeOK, OpenInv, ClosedInv
<1>2. Frontier' \in Int /\ Frontier <= Frontier'
  BY DEF Frontier, TypeOK, ClosedInv
<1>3. QED
  BY <1>1, <1>2, QuietKeepsPast

LEMMA SilenceInUtteranceIInv ==
    ASSUME IInv, SilenceInUtterance
    PROVE  IInv'
<1> USE DEF SilenceInUtterance, CutFrame, Silence, IInv
<1>1. TypeOK' /\ OpenInv' /\ ClosedInv'
  BY DEF TypeOK, OpenInv, ClosedInv
<1>2. Frontier' = Frontier /\ Frontier \in Int
  BY DEF Frontier, TypeOK
<1>3. QED
  BY <1>1, <1>2, QuietKeepsPast

LEMMA SilenceClosesIInv ==
    ASSUME IInv, SilenceCloses
    PROVE  IInv'
<1> DEFINE u == [start |-> start, end |-> now - silenceRun,
                 samples |-> buffered - silenceRun, closedBy |-> "silence"]
<1> USE DEF SilenceCloses, CutFrame, Emit, Silence, IInv
<1>1. /\ Silence < buffered + FrameMs
      /\ ~(now + FrameMs - Silence < start)
  BY DEF TypeOK, OpenInv
<1>2. emitted' = Append(emitted, u)
  BY <1>1 DEF TypeOK, OpenInv
<1>3. u \in Utterance /\ u.start = Frontier
  BY DEF TypeOK, OpenInv, Frontier, Utterance
<1>4. GoodUtterance(u)
  BY DEF TypeOK, OpenInv, GoodUtterance
<1>5. Frontier' = now' /\ Frontier' \in Nat /\ Precedes(u, Frontier')
  BY DEF TypeOK, Frontier, Precedes
<1>6. Frontier \in Int
  BY DEF TypeOK, Frontier
<1> HIDE DEF u
<1>7. PastInv' /\ emitted' \in Seq(Utterance)
  BY <1>2, <1>3, <1>4, <1>5, <1>6, EmitKeepsPast
<1>8. /\ pending' \in Nat /\ now' \in Nat /\ start' \in Nat
      /\ inUtterance' = FALSE /\ speechRun' = 0 /\ silenceRun' = 0 /\ buffered' = 0
  BY DEF TypeOK, OpenInv, ClosedInv
<1> HIDE DEF SilenceCloses, CutFrame, Emit
<1>9. TypeOK'
  BY <1>7, <1>8 DEF TypeOK
<1>10. OpenInv'
  BY <1>8 DEF OpenInv
<1>11. ClosedInv'
  BY <1>8 DEF ClosedInv
<1>12. QED
  BY <1>7, <1>9, <1>10, <1>11

LEMMA FlushIInv ==
    ASSUME IInv, Flush
    PROVE  IInv'
<1> DEFINE u == [start |-> start, end |-> now, samples |-> buffered,
                 closedBy |-> "flush"]
<1> USE DEF Flush, Emit, IInv
<1>1. emitted' = Append(emitted, u)
  OBVIOUS
<1>2. u \in Utterance /\ u.start = Frontier
  BY DEF TypeOK, Frontier, Utterance
<1>3. GoodUtterance(u)
  BY DEF TypeOK, OpenInv, GoodUtterance
<1>4. Frontier' = now /\ Frontier' \in Nat /\ Precedes(u, Frontier')
  BY DEF TypeOK, Frontier, Precedes
<1>5. Frontier \in Int
  BY DEF TypeOK, Frontier
<1> HIDE DEF u
<1>6. PastInv' /\ emitted' \in Seq(Utterance)
  BY <1>1, <1>2, <1>3, <1>4, <1>5, EmitKeepsPast
<1>7. /\ pending' \in Nat /\ now' \in Nat /\ start' \in Nat
      /\ inUtterance' = FALSE /\ speechRun' = 0 /\ silenceRun' = 0 /\ buffered' = 0
  BY DEF TypeOK, OpenInv, ClosedInv
<1> HIDE DEF Flush, Emit
<1>8. TypeOK'
  BY <1>6, <1>7 DEF TypeOK
<1>9. OpenInv'
  BY <1>7 DEF OpenInv
<1>10. ClosedInv'
  BY <1>7 DEF ClosedInv
<1>11. QED
  BY <1>6, <1>8, <1>9, <1>10

LEMMA NextIInv == IInv /\ [Next]_vadVars => IInv'
<1> SUFFICES ASSUME IInv, [Next]_vadVars
             PROVE  IInv'
  OBVIOUS
<1>1. CASE UNCHANGED vadVars
  BY <1>1 DEF vadVars, IInv, TypeOK, OpenInv, ClosedInv, PastInv, Frontier,
              GoodUtterance, Precedes
<1>2. ASSUME NEW n \in ChunkSizes, Push(n)
      PROVE  IInv'
  BY <1>2, PushIInv
<1>3. CASE ProcessFrame
  BY <1>3, SpeechBelowOnsetIInv, SpeechInUtteranceIInv, SpeechAtCapIInv,
     SilenceOutsideIInv, SilenceInUtteranceIInv, SilenceClosesIInv DEF ProcessFrame
<1>4. CASE Flush
  BY <1>4, FlushIInv
<1>5. QED
  BY <1>1, <1>2, <1>3, <1>4 DEF Next

LEMMA IInvAlways == Spec => []IInv
BY InitIInv, NextIInv, PTL DEF Spec

-----------------------------------------------------------------------------
\* The segmenter's state keeps its type: in particular the run of speech never
\* reaches back before the stream, so no start time is negative.
THEOREM TypeCorrect == Spec => []TypeOK
<1>1. IInv => TypeOK
  BY DEF IInv
<1>2. QED
  BY <1>1, IInvAlways, PTL

\* Utterances are handed out in order and without overlap.
THEOREM UtterancesNeverOverlap == Spec => []NeverOverlap
<1>1. IInv => NeverOverlap
  BY DEF IInv, PastInv, NeverOverlap, Precedes, Frontier
<1>2. QED
  BY <1>1, IInvAlways, PTL

\* Every utterance lasts at least min_speech_ms.
THEOREM UtterancesLongEnough == Spec => []LongEnough
<1>1. IInv => LongEnough
  BY DEF IInv, PastInv, LongEnough, GoodUtterance
<1>2. QED
  BY <1>1, IInvAlways, PTL

\* An utterance closed by silence is followed by min_silence_ms of none.
THEOREM SilenceSeparatesUtterances == Spec => []SilenceSeparates
<1>1. ASSUME IInv
      PROVE  SilenceSeparates
  <2>1. \A i \in 1..Len(emitted) : emitted[i].start \in Nat /\ emitted[i].end \in Nat
    BY <1>1, EmittedTyped DEF IInv
  <2>2. QED
    BY <1>1, <2>1 DEF IInv, PastInv, SilenceSeparates, Precedes
<1>2. QED
  BY <1>1, IInvAlways, PTL

\* No utterance reaches max_utterance_ms + min_silence_ms + one frame.
THEOREM UtteranceDurationBounded == Spec => []DurationBounded
<1>1. IInv => DurationBounded
  BY DEF IInv, PastInv, DurationBounded, GoodUtterance
<1>2. QED
  BY <1>1, IInvAlways, PTL

\* The onset missing from an utterance's samples is below min_speech_ms.
THEOREM UtteranceOnsetBounded == Spec => []LostOnsetBounded
<1>1. IInv => LostOnsetBounded
  BY DEF IInv, PastInv, LostOnsetBounded, GoodUtterance
<1>2. QED
  BY <1>1, IInvAlways, PTL
=============================================================================
