---------------------------- MODULE WsTranscribe ----------------------------
(***************************************************************************)
(* One connection to /v1/ws/transcribe: ws_transcribe (api/ws.py) around a *)
(* StreamingTranscriber (stt/streaming.py), and the client at its other    *)
(* end.  Frames arrive in order; a client that goes away leaves what it    *)
(* sent, and then the disconnect, to be received.                          *)
(*                                                                         *)
(* Utterances are numbered as they are spoken.  What the VAD makes of a    *)
(* chunk is how many utterances it completes and whether one is then open  *)
(* (module StreamingVAD says how).  A send to a client that has gone is    *)
(* lost, or raises WebSocketDisconnect or another error: that depends on   *)
(* the ASGI server.                                                        *)
(*                                                                         *)
(* pc: "config" and "load" before the loop, "receive" in it, "transcribe"  *)
(* working through todo, "send" with an event to send, "finish" and        *)
(* "close" after it, "error" in the handler that answers 1011, "over".     *)
(* mode says whose generator "transcribe" and "send" are driving: feed's,  *)
(* finish's, or that of the finish in the handler of WebSocketDisconnect.  *)
(***************************************************************************)
EXTENDS Integers, Sequences, Functions

CONSTANTS
    KeyRequired,       \* whether an API key is configured
    PartialInterval,   \* partial_interval_ms, in ticks of the clock
    MaxFrames,         \* bound: frames the client sends
    MaxEnds,           \* bound: utterances completed by one chunk
    MaxTime            \* bound: ticks of the clock

ASSUME KeyAssumption == KeyRequired \in BOOLEAN
ASSUME IntervalAssumption == PartialInterval \in Nat \ {0}
ASSUME BoundAssumption == MaxFrames \in Nat /\ MaxEnds \in Nat /\ MaxTime \in Nat

VARIABLES
    inbox, sentFrames, gone, stopSent,      \* the client and the transport
    pc, mode, todo, event,                  \* the handler
    closed, open,                           \* the VAD: utterances completed, one open
    index, lastPartial, now,                \* the transcriber and its clock
    closeCode,                              \* the close code delivered, 0 if none
    finals, partials,                       \* history: what reached the client,
    finalised                               \* utterances transcribed to the end

clientVars == <<inbox, sentFrames, gone, stopSent>>
vadVars == <<closed, open>>
streamVars == <<index, lastPartial>>
historyVars == <<closeCode, finals, partials, finalised>>
vars == <<clientVars, pc, mode, todo, event, vadVars, streamVars, now, historyVars>>

\* A chunk of an odd number of bytes is no array of 16-bit samples.  "other"
\* is any JSON object that is neither a configuration nor a stop.
Frames == {"config", "badconfig", "other", "stop", "notjson", "audio", "oddaudio"}
Pcs == {"config", "load", "receive", "transcribe", "send", "finish", "close",
        "error", "over"}
Modes == {"feed", "finish", "rescue"}
NoEvent == [kind |-> "none", utterance |-> 0, index |-> 0]
Events == [kind : {"partial", "final", "none"}, utterance : Nat, index : Nat]

TypeOK ==
    /\ inbox \in Seq(Frames \cup {"disconnect"})
    /\ sentFrames \in 0..MaxFrames
    /\ gone \in BOOLEAN /\ stopSent \in BOOLEAN
    /\ pc \in Pcs /\ mode \in Modes
    /\ todo \in Seq(Nat) /\ event \in Events
    /\ closed \in Nat /\ open \in BOOLEAN
    /\ index \in Nat /\ lastPartial \in 0..MaxTime /\ now \in 0..MaxTime
    /\ closeCode \in {0, 1000, 1008, 1011}
    /\ finals \in Seq(Events) /\ partials \in Nat /\ finalised \in Seq(Nat)

Init ==
    /\ inbox = <<>> /\ sentFrames = 0 /\ gone = FALSE /\ stopSent = FALSE
    /\ pc = "config" /\ mode = "feed" /\ todo = <<>> /\ event = NoEvent
    /\ closed = 0 /\ open = FALSE
    /\ index = 0 /\ lastPartial = 0 /\ now = 0
    /\ closeCode = 0 /\ finals = <<>> /\ partials = 0 /\ finalised = <<>>

-----------------------------------------------------------------------------
(* The client, and time *)

ClientSends(f) ==
    /\ ~gone /\ closeCode = 0
    /\ sentFrames < MaxFrames
    /\ sentFrames' = sentFrames + 1
    /\ inbox' = Append(inbox, f)
    /\ stopSent' = (stopSent \/ (f = "stop" /\ sentFrames > 0))
    /\ UNCHANGED <<gone, pc, mode, todo, event, vadVars, streamVars, now, historyVars>>

ClientLeaves ==
    /\ ~gone
    /\ gone' = TRUE
    /\ inbox' = Append(inbox, "disconnect")
    /\ UNCHANGED <<sentFrames, stopSent, pc, mode, todo, event, vadVars,
                   streamVars, now, historyVars>>

\* The clock matters once the transcriber has been made.
Tick ==
    /\ pc \notin {"config", "load", "over"}
    /\ now < MaxTime
    /\ now' = now + 1
    /\ UNCHANGED <<clientVars, pc, mode, todo, event, vadVars, streamVars, historyVars>>

-----------------------------------------------------------------------------
(* Before the loop *)

Took(f) == inbox # <<>> /\ Head(inbox) = f /\ inbox' = Tail(inbox)

IsObject(f) == f \in {"config", "badconfig", "other", "stop"}
HasKey(f) == f \in {"config", "badconfig"}

CloseWith(code) ==
    /\ pc' = "over"
    /\ closeCode' = IF gone THEN 0 ELSE code

\* receive_json and the configuration.  Any JSON object will do for one.
ReadConfig ==
    /\ pc = "config"
    /\ \E f \in Frames \cup {"disconnect"} :
         /\ Took(f)
         /\ \/ /\ f = "disconnect"
               /\ pc' = "over" /\ UNCHANGED closeCode
            \/ /\ IsObject(f) /\ KeyRequired /\ ~HasKey(f)
               /\ CloseWith(1008)
            \/ /\ IsObject(f) /\ (KeyRequired => HasKey(f))
               /\ pc' = IF f = "badconfig" THEN "error" ELSE "load"
               /\ UNCHANGED closeCode
            \/ /\ f # "disconnect" /\ ~IsObject(f)
               /\ pc' = "error" /\ UNCHANGED closeCode
    /\ UNCHANGED <<sentFrames, gone, stopSent, mode, todo, event, vadVars,
                   streamVars, now, finals, partials, finalised>>

\* The engine is loaded in a thread before the transcriber is made.
LoadEngine ==
    /\ pc = "load"
    /\ pc' \in {"receive", "error"}
    /\ UNCHANGED <<clientVars, mode, todo, event, vadVars, streamVars, now, historyVars>>

-----------------------------------------------------------------------------
(* The loop *)

ReceiveAudio ==
    /\ pc = "receive"
    /\ Took("audio")
    /\ \E ends \in 0..MaxEnds :
         /\ todo' = [i \in 1..ends |-> closed + i]
         /\ closed' = closed + ends
         /\ open' \in IF ends = 0 /\ open THEN {TRUE} ELSE BOOLEAN
    /\ pc' = "transcribe" /\ mode' = "feed"
    /\ UNCHANGED <<sentFrames, gone, stopSent, event, streamVars, now, historyVars>>

\* Mutant: the disconnect is not looked for in the loop.
ReceiveTextOnly ==
    /\ pc = "receive"
    /\ \E f \in Frames \cup {"disconnect"} :
         /\ Took(f)
         /\ \/ f = "stop" /\ pc' = "finish" /\ mode' = "finish"
            \/ f \in {"oddaudio", "notjson"} /\ pc' = "error" /\ UNCHANGED mode
            \/ f \in {"config", "badconfig", "other", "disconnect"} /\ UNCHANGED <<pc, mode>>
    /\ UNCHANGED <<sentFrames, gone, stopSent, todo, event, vadVars, streamVars,
                   now, historyVars>>

\* Mutant: a stop closes the socket at once.
ReceiveTextCloses ==
    /\ pc = "receive"
    /\ \E f \in Frames \cup {"disconnect"} :
         /\ Took(f)
         /\ \/ f = "stop" /\ pc' = "close" /\ mode' = "finish"
            \/ f = "disconnect" /\ pc' = "finish" /\ mode' = "finish"
            \/ f \in {"oddaudio", "notjson"} /\ pc' = "error" /\ UNCHANGED mode
            \/ f \in {"config", "badconfig", "other"} /\ UNCHANGED <<pc, mode>>
    /\ UNCHANGED <<sentFrames, gone, stopSent, todo, event, vadVars, streamVars,
                   now, historyVars>>

ReceiveText ==
    /\ pc = "receive"
    /\ \E f \in Frames \cup {"disconnect"} :
         /\ Took(f)
         /\ \/ f \in {"stop", "disconnect"} /\ pc' = "finish" /\ mode' = "finish"
            \/ f \in {"oddaudio", "notjson"} /\ pc' = "error" /\ UNCHANGED mode
            \/ f \in {"config", "badconfig", "other"} /\ UNCHANGED <<pc, mode>>
    /\ UNCHANGED <<sentFrames, gone, stopSent, todo, event, vadVars, streamVars,
                   now, historyVars>>

\* An error inside the flush of the WebSocketDisconnect handler is dropped.
Raised == IF mode = "rescue" THEN "over" ELSE "error"

TranscribeFinal ==
    /\ pc = "transcribe" /\ todo # <<>>
    /\ todo' = Tail(todo)
    /\ finalised' = Append(finalised, Head(todo))
    /\ index' = index + 1
    /\ event' = [kind |-> "final", utterance |-> Head(todo), index |-> index']
    /\ pc' = "send"
    /\ UNCHANGED <<clientVars, mode, vadVars, lastPartial, now, closeCode,
                   finals, partials>>

\* The throttle is read and set before the engine runs, the event sent after.
PartialDue == open /\ now - lastPartial >= PartialInterval

\* Mutant: the time of the partial is not kept.
TranscribePartialUnstamped ==
    /\ pc = "transcribe" /\ todo = <<>> /\ mode = "feed"
    /\ PartialDue
    /\ event' = [kind |-> "partial", utterance |-> closed + 1, index |-> index]
    /\ pc' = "send"
    /\ UNCHANGED <<clientVars, mode, todo, vadVars, streamVars, now, historyVars>>

\* Mutant: a partial takes a number of its own.
TranscribePartialCounts ==
    /\ pc = "transcribe" /\ todo = <<>> /\ mode = "feed"
    /\ PartialDue
    /\ lastPartial' = now
    /\ event' = [kind |-> "partial", utterance |-> closed + 1, index |-> index]
    /\ pc' = "send"
    /\ index' = index + 1
    /\ UNCHANGED <<clientVars, mode, todo, vadVars, now, historyVars>>

\* Mutant: the partial goes out before the finals.
TranscribePartialFirst ==
    /\ pc = "transcribe" /\ mode = "feed"
    /\ PartialDue
    /\ lastPartial' = now
    /\ event' = [kind |-> "partial", utterance |-> closed + 1, index |-> index]
    /\ pc' = "send"
    /\ index' = index
    /\ UNCHANGED <<clientVars, mode, todo, vadVars, now, historyVars>>

TranscribePartial ==
    /\ pc = "transcribe" /\ todo = <<>> /\ mode = "feed"
    /\ PartialDue
    /\ lastPartial' = now
    /\ event' = [kind |-> "partial", utterance |-> closed + 1, index |-> index]
    /\ pc' = "send"
    /\ UNCHANGED <<clientVars, mode, todo, vadVars, index, now, historyVars>>

EngineFails ==
    /\ pc = "transcribe"
    /\ todo # <<>> \/ (mode = "feed" /\ PartialDue)
    /\ pc' = Raised
    /\ todo' = <<>>
    /\ lastPartial' = IF todo = <<>> THEN now ELSE lastPartial
    /\ UNCHANGED <<clientVars, mode, event, vadVars, index, now, historyVars>>

Exhausted ==
    /\ pc = "transcribe" /\ todo = <<>>
    /\ mode = "feed" => ~PartialDue
    /\ pc' = CASE mode = "feed" -> "receive"
               [] mode = "finish" -> "close"
               [] mode = "rescue" -> "over"
    /\ UNCHANGED <<clientVars, mode, todo, event, vadVars, streamVars, now, historyVars>>

\* A partial is the last thing feed yields.
Resume == IF event.kind = "partial" THEN "receive" ELSE "transcribe"

SendEvent ==
    /\ pc = "send"
    /\ event' = NoEvent
    /\ finals' = IF ~gone /\ event.kind = "final" THEN Append(finals, event) ELSE finals
    /\ partials' = IF ~gone /\ event.kind = "partial" THEN partials + 1 ELSE partials
    /\ pc' = Resume
    /\ UNCHANGED <<clientVars, mode, todo, vadVars, streamVars, now, closeCode, finalised>>

\* What feed had yet to yield is dropped with its generator.
SendRaises ==
    /\ pc = "send" /\ gone
    /\ event' = NoEvent
    /\ todo' = <<>>
    /\ \/ mode # "rescue" /\ pc' = "finish" /\ mode' = "rescue"
       \/ pc' = Raised /\ UNCHANGED mode
    /\ UNCHANGED <<clientVars, vadVars, streamVars, now, historyVars>>

-----------------------------------------------------------------------------
(* After the loop *)

\* flush hands out the open utterance and forgets it.
Finish ==
    /\ pc = "finish"
    /\ todo' = IF open THEN <<closed + 1>> ELSE <<>>
    /\ closed' = IF open THEN closed + 1 ELSE closed
    /\ open' = FALSE
    /\ pc' = "transcribe"
    /\ UNCHANGED <<clientVars, mode, event, streamVars, now, historyVars>>

Close ==
    /\ pc = "close"
    /\ \/ CloseWith(1000) /\ UNCHANGED mode
       \/ gone /\ pc' = "finish" /\ mode' = "rescue" /\ UNCHANGED closeCode
       \/ gone /\ pc' = "error" /\ UNCHANGED <<mode, closeCode>>
    /\ UNCHANGED <<clientVars, todo, event, vadVars, streamVars, now, finals,
                   partials, finalised>>

\* The error event, if anyone is there to read it, and close code 1011.
AnswerError ==
    /\ pc = "error"
    /\ CloseWith(1011)
    /\ UNCHANGED <<clientVars, mode, todo, event, vadVars, streamVars, now,
                   finals, partials, finalised>>

-----------------------------------------------------------------------------
Handler ==
    \/ ReadConfig \/ LoadEngine \/ ReceiveAudio \/ ReceiveText
    \/ TranscribeFinal \/ TranscribePartial \/ EngineFails \/ Exhausted
    \/ SendEvent \/ SendRaises \/ Finish \/ Close \/ AnswerError

Next == (\E f \in Frames : ClientSends(f)) \/ ClientLeaves \/ Tick \/ Handler

Spec == Init /\ [][Next]_vars

\* The handler's task runs when it can; an engine call returns or fails.
\* Nothing is assumed of the client.
FairSpec == Spec /\ WF_vars(Handler)

-----------------------------------------------------------------------------
\* The finals a client gets are those of utterances 1, 2, 3, ... in the order
\* they were spoken, numbered without a gap, whatever fails; and none is
\* transcribed twice, although the handler of WebSocketDisconnect flushes a
\* stream that may have been flushed already.
FinalsAreTheTranscript ==
    /\ \A i \in 1..Len(finals) : finals[i].utterance = i /\ finals[i].index = i
    /\ IsInjective(finalised)

\* A partial shows the utterance whose final is the next to come: none arrives
\* after the final of its utterance, or before that of an earlier one.
PartialShowsNextFinal ==
    [][partials' # partials => event.utterance = Len(finals) + 1]_vars

\* A client that is closed with 1000 has the whole transcript: every utterance
\* of the audio the server read, the one cut short by stop included.
NormalCloseIsComplete ==
    closeCode = 1000 => ~open /\ Len(finals) = closed

\* A session whose client stops or goes away ends: ws_active comes down.
SessionEnds == gone \/ stopSent ~> pc = "over"

\* The throttle: over the whole stream, no more partials arrive than intervals
\* have passed, however long the engine takes over each.
PartialsThrottled == partials * PartialInterval <= now

\* TranscriptFeed, as this handler and this transcriber provide it.
Feed == INSTANCE TranscriptFeed
            WITH spoken <- closed, hints <- partials, code <- closeCode,
                 told <- [i \in DOMAIN finals |-> <<finals[i].utterance, finals[i].index>>]

\* Whatever fails, the client gets what the protocol promises, step by step: the
\* finals in order and without a gap, partials of the utterance to come only,
\* nothing after the close, and with 1000 everything that was said.
KeepsFeed == Feed!FeedSpec
=============================================================================
