--------------------------- MODULE SpeechSessions ---------------------------
(***************************************************************************)
(* The requests that use a model at once: ws_synthesize of api/ws.py, the  *)
(* routes synthesize?stream=true and transcribe of api/routes.py, with     *)
(* StreamingSynthesizer, the engine properties of BatchPipeline            *)
(* (double-checked locking) and load() of both engines, which has no lock. *)
(*                                                                         *)
(* The handlers run on the event loop, what they give to to_thread on      *)
(* threads; a step ends where another handler or thread may run.  An       *)
(* engine is named by the caller that built it.  Nothing in the service    *)
(* closes an engine.  An upload is one sentence, answered whole.           *)
(*                                                                         *)
(* pc of a caller: "idle", "config" (receive_json), "engine" (the first    *)
(* check), "lock", "build" (inside it), "speak", "loading", "send",        *)
(* "failed" (an exception, not yet answered), "over".                      *)
(***************************************************************************)
EXTENDS Integers, Sequences, FiniteSets

CONSTANTS
    Sockets,       \* sessions of ws_synthesize
    Streams,       \* requests of synthesize?stream=true
    Uploads,       \* requests of transcribe
    Nothing,
    MaxSentences   \* bound: sentences of a text

ASSUME CallersAssumption ==
    /\ Sockets \cap Streams = {} /\ Sockets \cap Uploads = {} /\ Streams \cap Uploads = {}
    /\ Nothing \notin Sockets \cup Streams \cup Uploads
    /\ IsFiniteSet(Sockets) /\ MaxSentences \in Nat \ {0}

VARIABLES
    pc, gone,    \* of each caller; gone: its client has left
    text,        \* how many sentences split_sentences makes of its text
    spoken,      \* how many of them were handed over
    engine,      \* the engine it was given
    got,         \* what its client was sent, in order
    singleton,   \* BatchPipeline._stt and _tts
    lock,        \* who holds _engine_lock
    loaded,      \* the engines that have their model
    active       \* the gauge ws_active

engineVars == <<engine, singleton, lock>>
vars == <<pc, gone, text, spoken, got, active, engineVars, loaded>>

Callers == Sockets \cup Streams \cup Uploads
Kind(c) == IF c \in Uploads THEN "stt" ELSE "tts"

Init ==
    /\ pc = [c \in Callers |-> "idle"]
    /\ gone = [c \in Callers |-> FALSE]
    /\ text = [c \in Callers |-> 0]
    /\ spoken = [c \in Callers |-> 0]
    /\ engine = [c \in Callers |-> Nothing]
    /\ got = [c \in Callers |-> <<>>]
    /\ singleton = [kind \in {"stt", "tts"} |-> Nothing]
    /\ lock = Nothing
    /\ loaded = {}
    /\ active = 0

Go(c, next) == pc' = [pc EXCEPT ![c] = next]

\* The finally clause of a session.
Leave(c) ==
    Go(c, "over") /\ active' = IF c \in Sockets THEN active - 1 ELSE active

\* What is sent to a client that has left is lost.
Send(c, events) ==
    got' = IF gone[c] THEN got ELSE [got EXCEPT ![c] = @ \o events]

-----------------------------------------------------------------------------
(* Callers come and go *)

Connect(c) ==
    /\ c \in Sockets /\ pc[c] = "idle"
    /\ Go(c, "config") /\ active' = active + 1
    /\ UNCHANGED <<gone, text, spoken, got, engineVars, loaded>>

\* A key that is wrong, a text that is empty, no object, or a text.
ReceiveConfig(c) ==
    /\ pc[c] = "config"
    /\ \/ ~gone[c] /\ Leave(c) /\ Send(c, <<<<"close", 1008>>>>) /\ UNCHANGED text
       \/ ~gone[c] /\ Go(c, "failed") /\ UNCHANGED <<text, got, active>>
       \/ /\ ~gone[c] /\ Go(c, "engine")
          /\ \E n \in 1..MaxSentences : text' = [text EXCEPT ![c] = n]
          /\ UNCHANGED <<got, active>>
       \/ gone[c] /\ Leave(c) /\ UNCHANGED <<text, got>>
    /\ UNCHANGED <<gone, spoken, engineVars, loaded>>

Request(c) ==
    /\ c \in Streams \cup Uploads /\ pc[c] = "idle"
    /\ \E n \in 1..(IF c \in Uploads THEN 1 ELSE MaxSentences) :
         text' = [text EXCEPT ![c] = n]
    /\ Go(c, "engine")
    /\ UNCHANGED <<gone, spoken, got, active, engineVars, loaded>>

ClientLeaves(c) ==
    /\ pc[c] \notin {"idle", "over"} /\ ~gone[c]
    /\ gone' = [gone EXCEPT ![c] = TRUE]
    /\ UNCHANGED <<pc, text, spoken, got, active, engineVars, loaded>>

-----------------------------------------------------------------------------
(* stt_engine, tts_engine *)

Have(c) == engine' = [engine EXCEPT ![c] = singleton'[Kind(c)]] /\ Go(c, "speak")

FirstCheck(c) ==
    /\ pc[c] = "engine"
    /\ UNCHANGED singleton
    /\ IF singleton[Kind(c)] = Nothing THEN Go(c, "lock") /\ UNCHANGED engine ELSE Have(c)
    /\ UNCHANGED <<gone, text, spoken, got, active, lock, loaded>>

Lock(c) ==
    /\ pc[c] = "lock" /\ lock = Nothing
    /\ lock' = c /\ Go(c, "build")
    /\ UNCHANGED <<gone, text, spoken, got, active, engine, singleton, loaded>>

\* Mutant: whoever has the lock builds.
BuildAnyway(c) ==
    /\ pc[c] = "build"
    /\ singleton' = [singleton EXCEPT ![Kind(c)] = c] /\ Have(c)
    /\ lock' = Nothing
    /\ UNCHANGED <<gone, text, spoken, got, active, loaded>>

\* Mutant: acquire and release, and no with.
BuildFailsHolding(c) ==
    /\ pc[c] = "build"
    /\ \/ /\ singleton' = IF singleton[Kind(c)] # Nothing THEN singleton
                          ELSE [singleton EXCEPT ![Kind(c)] = c]
          /\ Have(c) /\ lock' = Nothing
       \/ /\ singleton[Kind(c)] = Nothing /\ Go(c, "failed")
          /\ UNCHANGED <<engine, singleton, lock>>
    /\ UNCHANGED <<gone, text, spoken, got, active, loaded>>

\* The second check; a constructor or its import may raise.
Build(c) ==
    /\ pc[c] = "build"
    /\ \/ /\ singleton' = IF singleton[Kind(c)] # Nothing THEN singleton
                          ELSE [singleton EXCEPT ![Kind(c)] = c]
          /\ Have(c)
       \/ /\ singleton[Kind(c)] = Nothing /\ Go(c, "failed")
          /\ UNCHANGED <<engine, singleton>>
    /\ lock' = Nothing
    /\ UNCHANGED <<gone, text, spoken, got, active, loaded>>

-----------------------------------------------------------------------------
(* load, before the first sentence and at the start of every one *)

CheckLoaded(c) ==
    /\ pc[c] = "speak" /\ spoken[c] < text[c] /\ engine[c] \notin loaded
    /\ Go(c, "loading")
    /\ UNCHANGED <<gone, text, spoken, got, active, engineVars, loaded>>

\* The last of several that load at once wins.
EndLoad(c) ==
    /\ pc[c] = "loading" /\ Go(c, "speak")
    /\ loaded' = loaded \cup {engine[c]}
    /\ UNCHANGED <<gone, text, spoken, got, active, engineVars>>

\* Mutant: the model is cleared on the way out.
FailLoadCleared(c) ==
    /\ pc[c] = "loading" /\ Go(c, "failed")
    /\ loaded' = loaded \ {engine[c]}
    /\ UNCHANGED <<gone, text, spoken, got, active, engineVars>>

FailLoad(c) ==
    /\ pc[c] = "loading" /\ Go(c, "failed")
    /\ UNCHANGED <<gone, text, spoken, got, active, engineVars, loaded>>

-----------------------------------------------------------------------------
(* Sentences *)

\* Mutant: a sentence that cannot be spoken is left out.
SpeakSkips(c) ==
    /\ pc[c] = "speak" /\ spoken[c] < text[c] /\ engine[c] \in loaded
    /\ \/ Go(c, "send") /\ UNCHANGED spoken
       \/ Go(c, "speak") /\ spoken' = [spoken EXCEPT ![c] = @ + 1]
    /\ UNCHANGED <<gone, text, got, active, engineVars, loaded>>

Speak(c) ==
    /\ pc[c] = "speak" /\ spoken[c] < text[c] /\ engine[c] \in loaded
    /\ Go(c, "send") \/ Go(c, "failed")
    /\ UNCHANGED <<gone, text, spoken, got, active, engineVars, loaded>>

\* The send to a client that has left is lost, or raises WebSocketDisconnect or
\* another exception; the iteration of a stream is cancelled.
SendChunk(c) ==
    /\ pc[c] = "send"
    /\ \/ /\ ~gone[c] \/ c \in Sockets
          /\ Send(c, <<<<"chunk", spoken[c] + 1>>>>)
          /\ spoken' = [spoken EXCEPT ![c] = @ + 1]
          /\ Go(c, "speak") /\ UNCHANGED active
       \/ gone[c] /\ Leave(c) /\ UNCHANGED <<spoken, got>>
       \/ gone[c] /\ c \in Sockets /\ Go(c, "failed") /\ UNCHANGED <<spoken, got, active>>
    /\ UNCHANGED <<gone, text, engineVars, loaded>>

Finish(c) ==
    /\ pc[c] = "speak" /\ spoken[c] = text[c]
    /\ \/ /\ Leave(c)
          /\ Send(c, IF c \in Sockets THEN <<<<"done", spoken[c]>>, <<"close", 1000>>>>
                     ELSE <<<<"end", 0>>>>)
       \/ gone[c] /\ c \in Sockets /\ Go(c, "failed") /\ UNCHANGED <<got, active>>
    /\ UNCHANGED <<gone, text, spoken, engineVars, loaded>>

\* Mutant: an exception of the close skips the gauge.
AnswerErrorUncounted(c) ==
    /\ pc[c] = "failed"
    /\ IF gone[c] THEN Go(c, "over") /\ UNCHANGED active ELSE Leave(c)
    /\ Send(c, IF c \in Sockets THEN <<<<"error", 0>>, <<"close", 1011>>>>
               ELSE <<<<"abort", 0>>>>)
    /\ UNCHANGED <<gone, text, spoken, engineVars, loaded>>

\* An error event and code 1011; a stream whose headers are sent breaks off.
AnswerError(c) ==
    /\ pc[c] = "failed"
    /\ Leave(c)
    /\ Send(c, IF c \in Sockets THEN <<<<"error", 0>>, <<"close", 1011>>>>
               ELSE <<<<"abort", 0>>>>)
    /\ UNCHANGED <<gone, text, spoken, engineVars, loaded>>

-----------------------------------------------------------------------------
Handler(c) ==
    \/ FirstCheck(c) \/ Lock(c) \/ Build(c) \/ CheckLoaded(c) \/ EndLoad(c)
    \/ FailLoad(c) \/ Speak(c) \/ SendChunk(c) \/ Finish(c) \/ AnswerError(c)

Client(c) == Connect(c) \/ ReceiveConfig(c) \/ Request(c) \/ ClientLeaves(c)

Next == \E c \in Callers : Client(c) \/ Handler(c)

Spec == Init /\ [][Next]_vars

\* Threads and the event loop go on.
FairSpec == Spec /\ \A c \in Callers : WF_vars(Handler(c))

-----------------------------------------------------------------------------
Pcs == {"idle", "config", "engine", "lock", "build", "speak", "loading", "send",
        "failed", "over"}
Event == {"chunk", "done", "close", "error", "end", "abort"} \X Nat

TypeOK ==
    /\ pc \in [Callers -> Pcs]
    /\ gone \in [Callers -> BOOLEAN]
    /\ text \in [Callers -> 0..MaxSentences]
    /\ spoken \in [Callers -> 0..MaxSentences]
    /\ engine \in [Callers -> Callers \cup {Nothing}]
    /\ singleton \in [{"stt", "tts"} -> Callers \cup {Nothing}]
    /\ got \in [Callers -> Seq(Event)]
    /\ lock \in Callers \cup {Nothing}
    /\ loaded \subseteq Callers
    /\ active \in Int

\* However many requests ask at once, each kind of engine is built once: nobody
\* works with an engine that is not the one of the pipeline.
OneEngine ==
    \A c \in Callers : engine[c] # Nothing => engine[c] = singleton[Kind(c)]

\* load has no lock, and a model may be loaded by several callers at once; but
\* what one has loaded no other takes away, by failing or otherwise: a caller
\* waits for a model before its first sentence only, and never speaks without.
LoadsUpFront ==
    \A c \in Callers :
        /\ pc[c] = "loading" => spoken[c] = 0
        /\ pc[c] = "send" => engine[c] \in loaded

\* What a client gets: the sentences from the first on, in order and none left
\* out, and then one of the three ends.  It is told that the text is done after
\* all of it, with its number, and nothing follows the end.
Chunks(n) == [i \in 1..n |-> <<"chunk", i>>]

Endings(c) ==
    IF c \in Sockets
    THEN {<<<<"done", text[c]>>, <<"close", 1000>>>>, <<<<"error", 0>>, <<"close", 1011>>>>,
          <<<<"close", 1008>>>>}
    ELSE {<<<<"end", 0>>>>, <<<<"abort", 0>>>>}

SpokenInOrder ==
    \A c \in Callers : \E n \in 0..text[c] :
        \/ got[c] = Chunks(n)
        \/ /\ pc[c] = "over"
           /\ \E ending \in Endings(c) :
                /\ got[c] = Chunks(n) \o ending
                /\ ending[1][1] \in {"done", "end"} => n = text[c]
                /\ ending[1] = <<"close", 1008>> => n = 0

\* ws_active is the number of open sessions, whichever way they end.
ActiveCounted ==
    active = Cardinality({c \in Sockets : pc[c] \notin {"idle", "over"}})

\* A request that is complete is over in the end: it is answered, or its client
\* has left.
SessionsEnd ==
    \A c \in Callers :
        pc[c] \notin {"idle", "config"} ~> (pc[c] = "over" /\ (got[c] # <<>> \/ gone[c]))
=============================================================================
