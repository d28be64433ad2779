---------------------------- MODULE StreamingVAD ----------------------------
(***************************************************************************)
(* StreamingVAD (audio/vad.py): cuts a stream of PCM chunks into frames    *)
(* and groups the frames into utterances with hysteresis.                  *)
(*                                                                         *)
(* Times and buffered audio are in milliseconds: all are whole frames, but *)
(* the thresholds need not be.  pending counts samples, since chunks may   *)
(* end inside a frame.  push is a loop over the frames it can cut: Push    *)
(* appends the chunk and each frame action is one turn of the loop, which  *)
(* nothing can enter until it has ended.  The verdict of the frame VAD is  *)
(* the choice between the Speech and the Silence actions.                  *)
(***************************************************************************)
EXTENDS Integers, Sequences

CONSTANTS
    FrameMs, FrameSize,   \* a frame in milliseconds and in samples
    MinSpeechMs, MinSilenceMs, MaxUtteranceMs,
    ChunkSizes,           \* sizes of the chunks pushed, in samples
    MaxStreamMs           \* bound: length of the stream

ASSUME FrameAssumption == FrameMs \in Nat \ {0} /\ FrameSize \in Nat \ {0}
ASSUME ThresholdAssumption ==
    /\ MinSpeechMs \in Nat \ {0} /\ MinSilenceMs \in Nat \ {0}
    /\ MaxUtteranceMs \in Nat /\ MinSpeechMs <= MaxUtteranceMs
ASSUME InputAssumption == ChunkSizes \subseteq Nat \ {0} /\ MaxStreamMs \in Nat

VARIABLES
    pending,       \* samples not yet cut into frames
    now,           \* _now_ms
    inUtterance,
    start,         \* _utterance_start_ms
    buffered,      \* length of _utterance
    speechRun, silenceRun,
    emitted        \* history: the utterances returned so far

vadVars == <<pending, now, inUtterance, start, buffered, speechRun,
             silenceRun, emitted>>

Utterance == [start : Nat, end : Nat, samples : Nat,
              closedBy : {"silence", "cap", "flush"}]

TypeOK ==
    /\ pending \in Nat /\ now \in Nat
    /\ inUtterance \in BOOLEAN
    /\ start \in Nat /\ buffered \in Nat
    /\ speechRun \in Nat /\ silenceRun \in Nat
    /\ emitted \in Seq(Utterance)

Init ==
    /\ pending = 0 /\ now = 0
    /\ inUtterance = FALSE
    /\ start = 0 /\ buffered = 0
    /\ speechRun = 0 /\ silenceRun = 0
    /\ emitted = <<>>

-----------------------------------------------------------------------------
\* push and flush are not entered before the loop of push has ended.
Returned == pending < FrameSize

Push(n) ==
    /\ Returned
    /\ now < MaxStreamMs
    /\ pending' = pending + n
    /\ UNCHANGED <<now, inUtterance, start, buffered, speechRun, silenceRun,
                   emitted>>

CutFrame ==
    /\ pending >= FrameSize
    /\ pending' = pending - FrameSize
    /\ now' = now + FrameMs

\* The end of an utterance in each of its forms: hand it out and reset.
Emit(from, to, length, reason) ==
    /\ emitted' = Append(emitted, [start |-> from, end |-> to,
                                   samples |-> length, closedBy |-> reason])
    /\ inUtterance' = FALSE
    /\ speechRun' = 0 /\ silenceRun' = 0
    /\ buffered' = 0

\* The run of speech that the current frame ends, and what it makes of the
\* utterance.  An utterance that opens starts where the run started, but its
\* buffer starts with the current frame.
Run == speechRun + FrameMs
Opens == ~inUtterance /\ Run >= MinSpeechMs
\* Mutant: the onset is reckoned from the start of the current frame.
StartAFrameEarly == IF Opens THEN now - Run ELSE start

StartAt == IF Opens THEN now + FrameMs - Run ELSE start
BufferedTo == (IF Opens THEN 0 ELSE buffered) + FrameMs
AtCap == now + FrameMs - StartAt >= MaxUtteranceMs

SpeechBelowOnset ==
    /\ CutFrame
    /\ ~inUtterance /\ ~Opens
    /\ speechRun' = Run /\ silenceRun' = 0
    /\ UNCHANGED <<inUtterance, start, buffered, emitted>>

SpeechInUtterance ==
    /\ CutFrame
    /\ inUtterance \/ Opens
    /\ ~AtCap
    /\ inUtterance' = TRUE
    /\ start' = StartAt /\ buffered' = BufferedTo
    /\ speechRun' = Run /\ silenceRun' = 0
    /\ UNCHANGED emitted

SpeechAtCap ==
    /\ CutFrame
    /\ inUtterance \/ Opens
    /\ AtCap
    /\ start' = StartAt
    /\ Emit(StartAt, now', BufferedTo, "cap")

SilenceOutside ==
    /\ CutFrame
    /\ ~inUtterance
    /\ speechRun' = 0
    /\ UNCHANGED <<inUtterance, start, buffered, silenceRun, emitted>>

Silence == silenceRun + FrameMs

\* Mutant: the run of silence does not grow.
SilenceForgotten ==
    /\ CutFrame
    /\ inUtterance
    /\ Silence < MinSilenceMs
    /\ speechRun' = 0 /\ silenceRun' = 0
    /\ buffered' = buffered + FrameMs
    /\ UNCHANGED <<inUtterance, start, emitted>>

\* Mutant: silent frames are not buffered.
SilenceUnbuffered ==
    /\ CutFrame
    /\ inUtterance
    /\ Silence < MinSilenceMs
    /\ speechRun' = 0 /\ silenceRun' = Silence
    /\ UNCHANGED <<inUtterance, start, buffered, emitted>>

SilenceInUtterance ==
    /\ CutFrame
    /\ inUtterance
    /\ Silence < MinSilenceMs
    /\ speechRun' = 0 /\ silenceRun' = Silence
    /\ buffered' = buffered + FrameMs
    /\ UNCHANGED <<inUtterance, start, emitted>>

\* Mutant: the trailing silence is not trimmed.
SilenceClosesUntrimmed ==
    /\ CutFrame
    /\ inUtterance
    /\ Silence >= MinSilenceMs
    /\ Emit(start, now + FrameMs, buffered + FrameMs, "silence")
    /\ UNCHANGED start

\* _close_utterance drops the trailing silence, unless that is the whole
\* buffer, and never ends an utterance before it starts.
SilenceCloses ==
    /\ CutFrame
    /\ inUtterance
    /\ Silence >= MinSilenceMs
    /\ LET length == buffered + FrameMs
           trim == IF Silence < length THEN Silence ELSE 0
           end == now + FrameMs - trim
       IN  Emit(start, IF end < start THEN start ELSE end, length - trim, "silence")
    /\ UNCHANGED start

\* End of stream: neither trimmed, nor cut short, and what is pending is lost.
Flush ==
    /\ Returned
    /\ inUtterance
    /\ Emit(start, now, buffered, "flush")
    /\ UNCHANGED <<pending, now, start>>

ProcessFrame ==
    \/ SpeechBelowOnset \/ SpeechInUtterance \/ SpeechAtCap
    \/ SilenceOutside \/ SilenceInUtterance \/ SilenceCloses

Next == (\E n \in ChunkSizes : Push(n)) \/ ProcessFrame \/ Flush

Spec == Init /\ [][Next]_vadVars

-----------------------------------------------------------------------------
\* Utterances come out in order and never overlap, so the audio of one final
\* event is not in another, however the stream is chunked, capped or flushed.
NeverOverlap ==
    /\ \A i, k \in 1..Len(emitted) : i < k => emitted[i].end <= emitted[k].start
    /\ inUtterance => \A i \in 1..Len(emitted) : emitted[i].end <= start

\* Hysteresis, onset: no utterance is shorter than min_speech_ms, however it
\* was closed, and however much of it was trimmed.
LongEnough ==
    \A i \in 1..Len(emitted) : emitted[i].end - emitted[i].start >= MinSpeechMs

\* Hysteresis, offset: an utterance closed by silence is followed by at least
\* min_silence_ms before the next one starts.
SilenceSeparates ==
    \A i, k \in 1..Len(emitted) :
        i < k /\ emitted[i].closedBy = "silence"
            => emitted[k].start - emitted[i].end >= MinSilenceMs

\* The cap that the code keeps: a pause shorter than min_silence_ms can carry
\* an utterance past max_utterance_ms, by that pause and one frame at most.
DurationBounded ==
    \A i \in 1..Len(emitted) :
        emitted[i].end - emitted[i].start < MaxUtteranceMs + MinSilenceMs + FrameMs

\* The buffer of an utterance lacks less than min_speech_ms of the audio
\* between its start and its end: the frames that made up the onset.
LostOnsetBounded ==
    \A i \in 1..Len(emitted) :
        LET lost == emitted[i].end - emitted[i].start - emitted[i].samples
        IN  0 <= lost /\ lost < MinSpeechMs

-----------------------------------------------------------------------------
(* What the documentation says, and the code does not do *)

\* audio/vad.py:28, an utterance is "a contiguous region of speech" with its
\* start, its end and its samples.  The samples of the onset are not in it.
SamplesSpanUtterance ==
    \A i \in 1..Len(emitted) :
        emitted[i].samples = emitted[i].end - emitted[i].start
=============================================================================
