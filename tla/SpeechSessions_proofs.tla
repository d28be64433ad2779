----------------------- MODULE SpeechSessions_proofs -----------------------
(***************************************************************************)
(* The engine and session invariants of SpeechSessions for any number of   *)
(* callers and sentences.                                                  *)
(***************************************************************************)
EXTENDS SpeechSessions, FiniteSetTheorems, SequenceTheorems, TLAPS

\* A caller has no engine before it went through the engine property, and only
\* speaks, loads and sends with one that is in place.
Early == {"idle", "config", "engine", "lock", "build"}

EngineInv ==
    \A c \in Callers :
        /\ pc[c] \in Early => engine[c] = Nothing /\ spoken[c] = 0
        /\ pc[c] \in {"speak", "loading", "send"} => engine[c] # Nothing
        /\ engine[c] # Nothing => engine[c] = singleton[Kind(c)]
        /\ pc[c] = "config" => c \in Sockets

\* A caller that has spoken, or is about to send, works with a loaded engine.
LoadInv ==
    \A c \in Callers :
        /\ spoken[c] <= text[c]
        /\ pc[c] \in {"loading", "send"} => spoken[c] < text[c]
        /\ pc[c] = "loading" => spoken[c] = 0
        /\ pc[c] = "send" \/ spoken[c] > 0 => engine[c] \in loaded

IInv == TypeOK /\ EngineInv /\ LoadInv

USE CallersAssumption

-----------------------------------------------------------------------------
\* The events of the code are events.
LEMMA EventsTyped ==
    /\ <<"close", 1008>> \in Event /\ <<"close", 1000>> \in Event
    /\ <<"close", 1011>> \in Event /\ <<"error", 0>> \in Event
    /\ <<"end", 0>> \in Event /\ <<"abort", 0>> \in Event
    /\ \A n \in Nat : <<"chunk", n>> \in Event /\ <<"done", n>> \in Event
  BY DEF Event

LEMMA SendTyped ==
    ASSUME TypeOK, NEW c \in Callers, NEW events \in Seq(Event), Send(c, events)
    PROVE  got' \in [Callers -> Seq(Event)]
<1>1. got[c] \o events \in Seq(Event)
  BY DEF TypeOK
<1>2. QED
  BY <1>1 DEF TypeOK, Send

LEMMA GoTyped ==
    ASSUME TypeOK, NEW c \in Callers, NEW next \in Pcs, Go(c, next)
    PROVE  pc' \in [Callers -> Pcs] /\ pc'[c] = next /\ \A d \in Callers \ {c} : pc'[d] = pc[d]
  BY DEF TypeOK, Go

LEMMA LeaveTyped ==
    ASSUME TypeOK, NEW c \in Callers, Leave(c)
    PROVE  /\ pc' \in [Callers -> Pcs] /\ pc'[c] = "over"
           /\ \A d \in Callers \ {c} : pc'[d] = pc[d]
           /\ active' \in Int
<1>1. Go(c, "over") /\ active' \in Int
  BY DEF TypeOK, Leave
<1>2. QED
  BY <1>1, GoTyped DEF Pcs

LEMMA InitIInv == Init => IInv
<1> SUFFICES ASSUME Init PROVE IInv
  OBVIOUS
<1>1. <<>> \in Seq(Event)
  OBVIOUS
<1>2. TypeOK
  BY <1>1 DEF Init, TypeOK, Pcs
<1>3. EngineInv
  BY DEF Init, EngineInv, Early
<1>4. LoadInv
  BY DEF Init, LoadInv
<1>5. QED
  BY <1>2, <1>3, <1>4 DEF IInv

\* Clients change no engine.
LEMMA ClientIInv ==
    ASSUME IInv, NEW c \in Callers, Client(c)
    PROVE  IInv'
<1>1. CASE Connect(c)
  BY <1>1 DEF IInv, TypeOK, EngineInv, LoadInv, Early, Pcs, Connect, Go, engineVars
<1>2. CASE ReceiveConfig(c)
  <2>1. got' \in [Callers -> Seq(Event)]
    <3>1. CASE Send(c, <<<<"close", 1008>>>>)
      BY <3>1, EventsTyped, SendTyped DEF IInv
    <3>2. CASE UNCHANGED got
      BY <3>2 DEF IInv, TypeOK
    <3>3. QED
      BY <1>2, <3>1, <3>2 DEF ReceiveConfig
  <2>2. TypeOK'
    <3>1. pc' \in [Callers -> Pcs] /\ active' \in Int
      <4>1. CASE Leave(c)
        BY <4>1, LeaveTyped DEF IInv
      <4>2. CASE (Go(c, "failed") \/ Go(c, "engine")) /\ UNCHANGED active
        BY <4>2, GoTyped DEF IInv, TypeOK, Pcs
      <4>3. QED
        BY <1>2, <4>1, <4>2 DEF ReceiveConfig
    <3>2. text' \in [Callers -> 0..MaxSentences]
      <4>1. CASE UNCHANGED text
        BY <4>1 DEF IInv, TypeOK
      <4>2. CASE \E n \in 1..MaxSentences : text' = [text EXCEPT ![c] = n]
        BY <4>2 DEF IInv, TypeOK
      <4>3. QED
        BY <1>2, <4>1, <4>2 DEF ReceiveConfig
    <3>3. QED
      BY <1>2, <2>1, <3>1, <3>2 DEF IInv, TypeOK, ReceiveConfig, engineVars
  <2>3. EngineInv' /\ LoadInv'
    <3>1. /\ pc[c] = "config" /\ pc'[c] \in {"engine", "failed", "over"}
          /\ \A d \in Callers \ {c} : pc'[d] = pc[d] /\ text'[d] = text[d]
          /\ UNCHANGED <<spoken, engine, singleton, loaded>>
      BY <1>2 DEF IInv, TypeOK, ReceiveConfig, Go, Leave, engineVars
    <3>2. text'[c] \in Nat
      BY <2>2 DEF TypeOK
    <3>3. QED
      BY <3>1, <3>2 DEF IInv, EngineInv, LoadInv, Early
  <2>4. QED
    BY <2>2, <2>3 DEF IInv
<1>3. CASE Request(c)
  BY <1>3 DEF IInv, TypeOK, EngineInv, LoadInv, Early, Pcs, Request, Go, engineVars
<1>4. CASE ClientLeaves(c)
  BY <1>4 DEF IInv, TypeOK, EngineInv, LoadInv, Early, Pcs, ClientLeaves, engineVars
<1>5. QED
  BY <1>1, <1>2, <1>3, <1>4 DEF Client

\* The engine property: while singleton has nothing of a kind nobody has an
\* engine of that kind, so filling it in takes nobody's away.
LEMMA EngineIInv ==
    ASSUME IInv, NEW c \in Callers, FirstCheck(c) \/ Lock(c) \/ Build(c)
    PROVE  IInv'
<1>0. Kind(c) \in {"stt", "tts"}
  BY DEF Kind
<1>1. CASE FirstCheck(c)
  <2>1. TypeOK'
    <3>1. engine' \in [Callers -> Callers \cup {Nothing}]
      BY <1>0, <1>1 DEF IInv, TypeOK, FirstCheck, Have
    <3>2. pc' \in [Callers -> Pcs]
      BY <1>1, GoTyped DEF IInv, Pcs, FirstCheck, Have
    <3>3. QED
      BY <1>1, <3>1, <3>2 DEF IInv, TypeOK, FirstCheck
  <2>2. CASE Have(c) /\ singleton[Kind(c)] # Nothing
    <3>1. /\ pc[c] = "engine" /\ pc'[c] = "speak" /\ \A d \in Callers \ {c} : pc'[d] = pc[d]
          /\ engine'[c] = singleton'[Kind(c)] /\ engine'[c] # Nothing
          /\ \A d \in Callers \ {c} : engine'[d] = engine[d]
          /\ UNCHANGED <<text, spoken, singleton, loaded>>
      BY <1>1, <2>2 DEF IInv, TypeOK, FirstCheck, Have, Go
    <3>2. EngineInv'
      BY <3>1 DEF IInv, EngineInv, Early
    <3>3. LoadInv'
      BY <3>1 DEF IInv, TypeOK, EngineInv, LoadInv, Early
    <3>4. QED
      BY <2>1, <3>2, <3>3 DEF IInv
  <2>3. CASE Go(c, "lock") /\ UNCHANGED engine
    BY <1>1, <2>1, <2>3 DEF IInv, TypeOK, EngineInv, LoadInv, Early, FirstCheck, Go
  <2>4. QED
    BY <1>1, <2>2, <2>3 DEF FirstCheck
<1>2. CASE Lock(c)
  BY <1>2 DEF IInv, TypeOK, EngineInv, LoadInv, Early, Pcs, Lock, Go
<1>3. CASE Build(c)
  <2>1. TypeOK'
    <3>1. singleton' \in [{"stt", "tts"} -> Callers \cup {Nothing}]
      BY <1>0, <1>3 DEF IInv, TypeOK, Build
    <3>2. engine' \in [Callers -> Callers \cup {Nothing}]
      BY <1>0, <1>3, <3>1 DEF IInv, TypeOK, Build, Have
    <3>3. pc' \in [Callers -> Pcs]
      BY <1>3, GoTyped DEF IInv, Pcs, Build, Have
    <3>4. QED
      BY <1>3, <3>1, <3>2, <3>3 DEF IInv, TypeOK, Build
  <2>2. \A d \in Callers : singleton'[Kind(d)] = singleton[Kind(d)] \/ engine[d] = Nothing
    BY <1>0, <1>3 DEF IInv, TypeOK, EngineInv, Build, Kind
  <2>3. CASE pc' = [pc EXCEPT ![c] = "failed"] /\ UNCHANGED <<engine, singleton>>
    BY <1>3, <2>1, <2>3 DEF IInv, TypeOK, EngineInv, LoadInv, Early, Pcs, Build
  <2>4. CASE Have(c) /\ singleton'[Kind(c)] # Nothing
    BY <1>3, <2>1, <2>2, <2>4 DEF IInv, TypeOK, EngineInv, LoadInv, Early, Pcs, Build, Have, Go
  <2>5. CASE Have(c) /\ singleton' = IF singleton[Kind(c)] # Nothing THEN singleton
                                     ELSE [singleton EXCEPT ![Kind(c)] = c]
    <3>1. singleton'[Kind(c)] # Nothing
      BY <1>0, <2>5 DEF IInv, TypeOK, Callers
    <3>2. QED
      BY <2>4, <2>5, <3>1
  <2>6. QED
    BY <1>3, <2>3, <2>5 DEF Build, Go
<1>4. QED
  BY <1>1, <1>2, <1>3

LEMMA LoadIInv ==
    ASSUME IInv, NEW c \in Callers, CheckLoaded(c) \/ EndLoad(c) \/ FailLoad(c)
    PROVE  IInv'
<1>1. CASE CheckLoaded(c)
  <2>1. TypeOK'
    BY <1>1 DEF IInv, TypeOK, Pcs, CheckLoaded, Go, engineVars
  <2>2. /\ pc[c] = "speak" /\ pc'[c] = "loading" /\ spoken[c] < text[c] /\ engine[c] \notin loaded
        /\ \A d \in Callers \ {c} : pc'[d] = pc[d]
        /\ UNCHANGED <<text, spoken, engine, singleton, loaded>>
    BY <1>1 DEF IInv, TypeOK, CheckLoaded, Go, engineVars
  <2>3. EngineInv'
    BY <2>2 DEF IInv, EngineInv, Early
  <2>4. LoadInv'
    BY <2>2 DEF IInv, TypeOK, LoadInv
  <2>5. QED
    BY <2>1, <2>3, <2>4 DEF IInv
<1>2. CASE EndLoad(c)
  BY <1>2 DEF IInv, TypeOK, EngineInv, LoadInv, Early, Pcs, EndLoad, Go, engineVars
<1>3. CASE FailLoad(c)
  BY <1>3 DEF IInv, TypeOK, EngineInv, LoadInv, Early, Pcs, FailLoad, Go, engineVars
<1>4. QED
  BY <1>1, <1>2, <1>3

LEMMA SentenceIInv ==
    ASSUME IInv, NEW c \in Callers, Speak(c) \/ SendChunk(c) \/ Finish(c) \/ AnswerError(c)
    PROVE  IInv'
<1>0. spoken[c] \in Nat /\ spoken[c] + 1 \in Nat /\ text[c] \in Nat
  BY DEF IInv, TypeOK
<1>1. CASE Speak(c)
  <2>1. TypeOK'
    BY <1>1 DEF IInv, TypeOK, Pcs, Speak, Go, engineVars
  <2>2. CASE Go(c, "send")
    BY <1>1, <2>1, <2>2 DEF IInv, TypeOK, EngineInv, LoadInv, Early, Speak, Go, engineVars
  <2>3. CASE Go(c, "failed")
    BY <1>1, <2>1, <2>3 DEF IInv, TypeOK, EngineInv, LoadInv, Early, Speak, Go, engineVars
  <2>4. QED
    BY <1>1, <2>2, <2>3 DEF Speak
<1>2. CASE SendChunk(c)
  <2>1. got' \in [Callers -> Seq(Event)]
    <3>1. <<"chunk", spoken[c] + 1>> \in Event
      BY <1>0 DEF Event
    <3>2. <<<<"chunk", spoken[c] + 1>>>> \in Seq(Event)
      BY <3>1
    <3>3. CASE UNCHANGED got
      BY <3>3 DEF IInv, TypeOK
    <3>4. CASE Send(c, <<<<"chunk", spoken[c] + 1>>>>)
      BY <3>2, <3>4, SendTyped DEF IInv
    <3>5. QED
      BY <1>2, <3>3, <3>4 DEF SendChunk
  <2>2. CASE spoken' = [spoken EXCEPT ![c] = @ + 1] /\ Go(c, "speak") /\ UNCHANGED active
    <3>1. pc[c] = "send" /\ spoken[c] + 1 \in 0..MaxSentences
      BY <1>0, <1>2 DEF IInv, TypeOK, LoadInv, SendChunk
    <3>2. TypeOK'
      BY <1>2, <2>1, <2>2, <3>1 DEF IInv, TypeOK, Pcs, SendChunk, Go, engineVars
    <3>3. EngineInv'
      BY <1>2, <2>2, <3>1, <3>2 DEF IInv, TypeOK, EngineInv, Early, SendChunk, Go, engineVars
    <3>4. LoadInv'
      <4>1. /\ spoken[c] < text[c] /\ engine[c] \in loaded
            /\ pc'[c] = "speak" /\ spoken'[c] = spoken[c] + 1
            /\ \A d \in Callers \ {c} : pc'[d] = pc[d] /\ spoken'[d] = spoken[d]
            /\ UNCHANGED <<text, engine, loaded>>
        BY <1>2, <2>2, <3>1 DEF IInv, TypeOK, LoadInv, SendChunk, Go, engineVars
      <4>2. QED
        BY <1>0, <4>1 DEF IInv, LoadInv
    <3>5. QED
      BY <3>2, <3>3, <3>4 DEF IInv
  <2>3. CASE (Leave(c) \/ (Go(c, "failed") /\ UNCHANGED active)) /\ UNCHANGED spoken
    <3>1. TypeOK'
      <4>1. pc' \in [Callers -> Pcs] /\ active' \in Int
        <5>1. CASE Leave(c)
          BY <5>1, LeaveTyped DEF IInv
        <5>2. CASE Go(c, "failed") /\ UNCHANGED active
          BY <5>2, GoTyped DEF IInv, TypeOK, Pcs
        <5>3. QED
          BY <2>3, <5>1, <5>2
      <4>2. QED
        BY <1>2, <2>1, <2>3, <4>1 DEF IInv, TypeOK, SendChunk, engineVars
    <3>2. EngineInv'
      BY <1>2, <2>3, <3>1 DEF IInv, TypeOK, EngineInv, Early, SendChunk, Leave, Go, engineVars
    <3>3. LoadInv'
      BY <1>2, <2>3, <3>1 DEF IInv, TypeOK, LoadInv, SendChunk, Leave, Go, engineVars
    <3>4. QED
      BY <3>1, <3>2, <3>3 DEF IInv
  <2>4. QED
    BY <1>2, <2>2, <2>3 DEF SendChunk
<1>3. CASE Finish(c)
  <2>1. got' \in [Callers -> Seq(Event)]
    <3>1. <<"done", spoken[c]>> \in Event
      BY <1>0 DEF Event
    <3>2. /\ <<<<"done", spoken[c]>>, <<"close", 1000>>>> \in Seq(Event)
          /\ <<<<"end", 0>>>> \in Seq(Event)
      BY <3>1, EventsTyped
    <3>3. CASE UNCHANGED got
      BY <3>3 DEF IInv, TypeOK
    <3>4. CASE Send(c, IF c \in Sockets THEN <<<<"done", spoken[c]>>, <<"close", 1000>>>>
                       ELSE <<<<"end", 0>>>>)
      <4>1. CASE Send(c, <<<<"done", spoken[c]>>, <<"close", 1000>>>>)
        BY <3>2, <4>1, SendTyped DEF IInv
      <4>2. CASE Send(c, <<<<"end", 0>>>>)
        BY <3>2, <4>2, SendTyped DEF IInv
      <4>3. QED
        BY <3>4, <4>1, <4>2
    <3>5. QED
      BY <1>3, <3>3, <3>4 DEF Finish
  <2>2. pc' \in [Callers -> Pcs] /\ active' \in Int
    <3>1. CASE Leave(c)
      BY <3>1, LeaveTyped DEF IInv
    <3>2. CASE Go(c, "failed") /\ UNCHANGED active
      BY <3>2, GoTyped DEF IInv, TypeOK, Pcs
    <3>3. QED
      BY <1>3, <3>1, <3>2 DEF Finish
  <2>3. TypeOK'
    BY <1>3, <2>1, <2>2 DEF IInv, TypeOK, Finish, engineVars
  <2>4. /\ pc[c] = "speak" /\ pc'[c] \in {"over", "failed"}
        /\ \A d \in Callers \ {c} : pc'[d] = pc[d]
        /\ UNCHANGED <<text, spoken, engine, singleton, loaded>>
    BY <1>3, GoTyped, LeaveTyped DEF IInv, Pcs, Finish, engineVars
  <2>5. EngineInv' /\ LoadInv'
    BY <2>4 DEF IInv, TypeOK, EngineInv, LoadInv, Early
  <2>6. QED
    BY <2>3, <2>5 DEF IInv
<1>4. CASE AnswerError(c)
  <2>1. got' \in [Callers -> Seq(Event)]
    <3>1. /\ <<<<"error", 0>>, <<"close", 1011>>>> \in Seq(Event)
          /\ <<<<"abort", 0>>>> \in Seq(Event)
      BY EventsTyped
    <3>2. CASE c \in Sockets
      BY <1>4, <3>1, <3>2, SendTyped DEF IInv, AnswerError
    <3>3. CASE c \notin Sockets
      BY <1>4, <3>1, <3>3, SendTyped DEF IInv, AnswerError
    <3>4. QED
      BY <3>2, <3>3
  <2>2. pc' \in [Callers -> Pcs] /\ active' \in Int
    BY <1>4, LeaveTyped DEF IInv, AnswerError
  <2>3. TypeOK'
    BY <1>4, <2>1, <2>2 DEF IInv, TypeOK, AnswerError, engineVars
  <2>4. EngineInv' /\ LoadInv'
    BY <1>4, <2>3 DEF IInv, TypeOK, EngineInv, LoadInv, Early, AnswerError, Leave, Go, engineVars
  <2>5. QED
    BY <2>3, <2>4 DEF IInv
<1>5. QED
  BY <1>1, <1>2, <1>3, <1>4

-----------------------------------------------------------------------------
LEMMA StepIInv == IInv /\ [Next]_vars => IInv'
<1> SUFFICES ASSUME IInv, [Next]_vars PROVE IInv'
  OBVIOUS
<1>1. CASE Next
  <2>1. PICK c \in Callers : Client(c) \/ Handler(c)
    BY <1>1 DEF Next
  <2>2. QED
    BY <2>1, ClientIInv, EngineIInv, LoadIInv, SentenceIInv DEF Handler
<1>2. CASE UNCHANGED vars
  BY <1>2 DEF IInv, TypeOK, EngineInv, LoadInv, vars, engineVars
<1>3. QED
  BY <1>1, <1>2

LEMMA Inductive == Spec => []IInv
<1>1. QED
  BY InitIInv, StepIInv, PTL DEF Spec

\* Every part of the state keeps its type, for any callers.
THEOREM TypeCorrect == Spec => []TypeOK
<1>1. IInv => TypeOK
  BY DEF IInv
<1>2. QED
  BY <1>1, Inductive, PTL

\* However many requests race for an engine, the double-checked lock builds one
\* of each kind.
THEOREM EngineBuiltOnce == Spec => []OneEngine
<1>1. IInv => OneEngine
  BY DEF IInv, EngineInv, OneEngine
<1>2. QED
  BY <1>1, Inductive, PTL

\* However many threads are in the unlocked load at once, nobody waits for a
\* model after its first sentence or speaks without one.
THEOREM ModelsStayLoaded == Spec => []LoadsUpFront
<1>1. IInv => LoadsUpFront
  BY DEF IInv, LoadInv, LoadsUpFront
<1>2. QED
  BY <1>1, Inductive, PTL

-----------------------------------------------------------------------------
(* The gauge *)

Open == {c \in Sockets : pc[c] \notin {"idle", "over"}}

LEMMA OpenKept ==
    ASSUME TypeOK, NEW c \in Callers, pc[c] \notin {"idle", "over"} \/ c \notin Sockets,
           NEW next \in Pcs \ {"idle", "over"}, Go(c, next)
    PROVE  Open' = Open
<1>1. \A d \in Sockets : pc'[d] \notin {"idle", "over"} <=> pc[d] \notin {"idle", "over"}
  <2> SUFFICES ASSUME NEW d \in Sockets
               PROVE  pc'[d] \notin {"idle", "over"} <=> pc[d] \notin {"idle", "over"}
    OBVIOUS
  <2>1. d \in Callers
    BY DEF Callers
  <2>2. CASE d = c
    BY <2>1, <2>2 DEF TypeOK, Go
  <2>3. CASE d # c
    BY <2>1, <2>3 DEF TypeOK, Go
  <2>4. QED
    BY <2>2, <2>3
<1>2. QED
  BY <1>1 DEF Open

\* A step opens a session, ends one, or leaves all of them as they are.
LEMMA GaugeStep ==
    ASSUME IInv, NEW c \in Callers, Client(c) \/ Handler(c)
    PROVE  \/ Connect(c)
           \/ Leave(c) /\ pc[c] \notin {"idle", "over"}
           \/ UNCHANGED active /\ Open' = Open
<1>2. CASE Request(c)
  <2>1. c \notin Sockets /\ Go(c, "engine") /\ UNCHANGED active
    BY <1>2 DEF Request
  <2>2. QED
    BY <2>1, OpenKept DEF IInv, Pcs
<1>3. CASE ReceiveConfig(c)
  <2>1. /\ pc[c] \notin {"idle", "over"}
        /\ Leave(c) \/ ((Go(c, "failed") \/ Go(c, "engine")) /\ UNCHANGED active)
    BY <1>3 DEF ReceiveConfig
  <2>2. QED
    BY <2>1, OpenKept DEF IInv, Pcs
<1>4. CASE FirstCheck(c) \/ Lock(c) \/ Build(c)
  <2>1. /\ pc[c] \notin {"idle", "over"} /\ UNCHANGED active
        /\ Go(c, "lock") \/ Go(c, "build") \/ Go(c, "speak") \/ Go(c, "failed")
    BY <1>4 DEF FirstCheck, Lock, Build, Have
  <2>2. QED
    BY <2>1, OpenKept DEF IInv, Pcs
<1>5. CASE CheckLoaded(c) \/ EndLoad(c) \/ FailLoad(c) \/ Speak(c)
  <2>1. /\ pc[c] \notin {"idle", "over"} /\ UNCHANGED active
        /\ Go(c, "loading") \/ Go(c, "speak") \/ Go(c, "failed") \/ Go(c, "send")
    BY <1>5 DEF CheckLoaded, EndLoad, FailLoad, Speak
  <2>2. QED
    BY <2>1, OpenKept DEF IInv, Pcs
<1>6. CASE SendChunk(c) \/ Finish(c) \/ AnswerError(c)
  <2>1. /\ pc[c] \notin {"idle", "over"}
        /\ Leave(c) \/ ((Go(c, "speak") \/ Go(c, "failed")) /\ UNCHANGED active)
    BY <1>6 DEF SendChunk, Finish, AnswerError
  <2>2. QED
    BY <2>1, OpenKept DEF IInv, Pcs
<1>7. CASE ClientLeaves(c)
  BY <1>7 DEF ClientLeaves, Open
<1>8. QED
  BY <1>2, <1>3, <1>4, <1>5, <1>6, <1>7 DEF Client, Handler

LEMMA GaugeKept ==
    ASSUME IInv, ActiveCounted, NEW c \in Callers, Client(c) \/ Handler(c)
    PROVE  ActiveCounted'
<1>1. IsFiniteSet(Open) /\ Cardinality(Open) \in Nat /\ active = Cardinality(Open)
  <2>1. Open \in SUBSET Sockets
    BY DEF Open
  <2>2. IsFiniteSet(Open)
    BY <2>1, FS_Subset
  <2>3. QED
    BY <2>2, FS_CardinalityType DEF ActiveCounted, Open
<1>2. CASE Connect(c)
  <2>1. c \notin Open /\ Open' = Open \cup {c} /\ active' = active + 1
    BY <1>2 DEF Connect, Go, IInv, TypeOK, Open
  <2>2. Cardinality(Open') = Cardinality(Open) + 1
    BY <1>1, <2>1, FS_AddElement
  <2>3. QED
    BY <1>1, <2>1, <2>2 DEF ActiveCounted, Open
<1>3. CASE Leave(c) /\ pc[c] \notin {"idle", "over"}
  <2>1. CASE c \in Sockets
    <3>1. c \in Open /\ Open' = Open \ {c} /\ active' = active - 1
      BY <1>3, <2>1 DEF Leave, Go, IInv, TypeOK, Open
    <3>2. Cardinality(Open') = Cardinality(Open) - 1
      BY <1>1, <3>1, FS_RemoveElement
    <3>3. QED
      BY <1>1, <3>1, <3>2 DEF ActiveCounted, Open
  <2>2. CASE c \notin Sockets
    <3>1. Open' = Open /\ active' = active
      BY <1>3, <2>2 DEF Leave, Go, IInv, TypeOK, Open
    <3>2. QED
      BY <1>1, <3>1 DEF ActiveCounted, Open
  <2>3. QED
    BY <2>1, <2>2
<1>4. CASE UNCHANGED active /\ Open' = Open
  BY <1>1, <1>4 DEF ActiveCounted, Open
<1>5. QED
  BY <1>2, <1>3, <1>4, GaugeStep

\* The gauge of open sessions is right, whichever way they end.
THEOREM GaugeIsRight == Spec => []ActiveCounted
<1>1. Init => ActiveCounted
  <2> SUFFICES ASSUME Init PROVE ActiveCounted
    OBVIOUS
  <2>1. Open = {}
    BY DEF Init, Open, Callers
  <2>2. QED
    BY <2>1, FS_EmptySet DEF Init, ActiveCounted, Open
<1>2. IInv /\ ActiveCounted /\ [Next]_vars => ActiveCounted'
  <2>1. CASE UNCHANGED vars
    BY <2>1 DEF ActiveCounted, vars
  <2>2. QED
    BY <2>1, GaugeKept DEF Next
<1>3. QED
  BY <1>1, <1>2, Inductive, PTL DEF Spec

-----------------------------------------------------------------------------
(* What the clients get *)

\* Before the end a client has every chunk that was sent, or those that were
\* sent before it left; after it, the chunks and an ending.
Receiving(c) ==
    \E n \in 0..spoken[c] : got[c] = Chunks(n) /\ (~gone[c] => n = spoken[c])

Ended(g, n, total, ending) ==
    /\ g = Chunks(n) \o ending
    /\ ending[1][1] \in {"done", "end"} => n = total
    /\ ending[1] = <<"close", 1008>> => n = 0

Complete(g, total, endings) ==
    \E n \in 0..total : g = Chunks(n) \/ \E ending \in endings : Ended(g, n, total, ending)

Received(c) == Complete(got[c], text[c], Endings(c))

OrderInv == \A c \in Callers : IF pc[c] = "over" THEN Received(c) ELSE Receiving(c)

LEMMA ChunksGrow ==
    ASSUME NEW n \in Nat
    PROVE  Chunks(n) \o <<<<"chunk", n + 1>>>> = Chunks(n + 1)
<1>1. Chunks(n) \in Seq(Event) /\ Len(Chunks(n)) = n
  BY DEF Chunks, Event
<1>2. Chunks(n + 1) \in Seq(Event) /\ Len(Chunks(n + 1)) = n + 1
  BY DEF Chunks, Event
<1> DEFINE last == <<<<"chunk", n + 1>>>>
<1>3. last \in Seq(Event) /\ Len(last) = 1 /\ last[1] = <<"chunk", n + 1>>
  BY DEF Event
<1> HIDE DEF last
<1>4. /\ Chunks(n) \o last \in Seq(Event) /\ Len(Chunks(n) \o last) = n + 1
      /\ \A i \in 1..n : (Chunks(n) \o last)[i] = Chunks(n)[i]
      /\ (Chunks(n) \o last)[n + 1] = last[1]
  <2>1. /\ Chunks(n) \o last \in Seq(Event)
        /\ Len(Chunks(n) \o last) = Len(Chunks(n)) + Len(last)
        /\ \A i \in 1..(Len(Chunks(n)) + Len(last)) :
             (Chunks(n) \o last)[i] = IF i <= Len(Chunks(n)) THEN Chunks(n)[i]
                                      ELSE last[i - Len(Chunks(n))]
    BY <1>1, <1>3, ConcatProperties
  <2>2. (Chunks(n) \o last)[n + 1] = last[n + 1 - n]
    BY <1>1, <1>3, <2>1
  <2>3. n + 1 - n = 1
    OBVIOUS
  <2>4. QED
    BY <1>1, <1>3, <2>1, <2>2, <2>3
<1>5. \A i \in 1..n : Chunks(n)[i] = Chunks(n + 1)[i]
  BY DEF Chunks
<1>6. Chunks(n + 1)[n + 1] = last[1]
  BY <1>3 DEF Chunks
<1>7. \A i \in 1..(n + 1) : (Chunks(n) \o last)[i] = Chunks(n + 1)[i]
  BY <1>4, <1>5, <1>6
<1>8. Chunks(n) \o last = Chunks(n + 1)
  BY <1>2, <1>4, <1>7, SeqEqual
<1>9. QED
  BY <1>8 DEF last

\* A step of c is about c alone.
LEMMA OthersWait ==
    ASSUME IInv, NEW c \in Callers, Client(c) \/ Handler(c), NEW d \in Callers \ {c}
    PROVE  /\ pc'[d] = pc[d] /\ text'[d] = text[d] /\ spoken'[d] = spoken[d]
           /\ gone'[d] = gone[d] /\ got'[d] = got[d]
<1>1. CASE Client(c)
  BY <1>1 DEF Client, Connect, ReceiveConfig, Request, ClientLeaves, Go, Leave, Send, IInv, TypeOK
<1>2. CASE FirstCheck(c) \/ Lock(c) \/ Build(c)
  BY <1>2 DEF FirstCheck, Lock, Build, Have, Go, IInv, TypeOK
<1>3. CASE CheckLoaded(c) \/ EndLoad(c) \/ FailLoad(c) \/ Speak(c)
  BY <1>3 DEF CheckLoaded, EndLoad, FailLoad, Speak, Go, IInv, TypeOK
<1>4. CASE SendChunk(c)
  BY <1>4 DEF SendChunk, Go, Leave, Send, IInv, TypeOK
<1>5. CASE Finish(c)
  BY <1>5 DEF Finish, Go, Leave, Send, IInv, TypeOK
<1>6. CASE AnswerError(c)
  BY <1>6 DEF AnswerError, Go, Leave, Send, IInv, TypeOK
<1>7. QED
  BY <1>1, <1>2, <1>3, <1>4, <1>5, <1>6 DEF Handler

\* A client gets what is sent, or has left.
LEMMA SendReaches ==
    ASSUME IInv, NEW c \in Callers, Receiving(c), NEW events, Send(c, events)
    PROVE  \/ gone[c] /\ got'[c] = got[c]
           \/ got'[c] = Chunks(spoken[c]) \o events
  BY DEF IInv, TypeOK, Receiving, Send

\* Sending an ending of the caller ends it well.
LEMMA EndsWell ==
    ASSUME IInv, NEW c \in Callers, Receiving(c), UNCHANGED text,
           NEW ending \in Endings(c),
           ending[1][1] \in {"done", "end"} => spoken[c] = text[c],
           ending[1] = <<"close", 1008>> => spoken[c] = 0,
           Send(c, ending)
    PROVE  Received(c)'
<1>1. spoken[c] \in 0..text[c] /\ text[c] \in Nat
  BY DEF IInv, TypeOK, LoadInv
<1>2. Endings(c)' = Endings(c) /\ text'[c] = text[c]
  BY DEF Endings
<1>3. CASE got'[c] = got[c]
  <2>1. PICK n \in 0..spoken[c] : got[c] = Chunks(n)
    BY DEF Receiving
  <2>2. n \in 0..text'[c] /\ got'[c] = Chunks(n)
    BY <1>1, <1>2, <1>3, <2>1
  <2>3. QED
    BY <1>2, <2>2 DEF Received, Complete
<1>4. CASE got'[c] = Chunks(spoken[c]) \o ending
  <2>1. Ended(got'[c], spoken[c], text[c], ending)
    BY <1>4 DEF Ended
  <2>2. Complete(got'[c], text[c], Endings(c))
    BY <1>1, <2>1 DEF Complete
  <2>3. QED
    BY <1>2, <2>2 DEF Received
<1>5. QED
  BY <1>3, <1>4, SendReaches

\* A caller that leaves unanswered got what it got.
LEMMA LeavesWell ==
    ASSUME IInv, NEW c \in Callers, Receiving(c), UNCHANGED <<text, got>>
    PROVE  Received(c)'
<1>1. spoken[c] \in 0..text[c] /\ text[c] \in Nat /\ text'[c] = text[c]
  BY DEF IInv, TypeOK, LoadInv
<1>2. PICK n \in 0..spoken[c] : got[c] = Chunks(n)
  BY DEF Receiving
<1>3. n \in 0..text'[c] /\ got'[c] = Chunks(n)
  BY <1>1, <1>2
<1>4. QED
  BY <1>3 DEF Received, Complete

LEMMA StillReceiving ==
    ASSUME NEW c \in Callers, Receiving(c), UNCHANGED <<spoken, got>>, gone[c] => gone'[c]
    PROVE  Receiving(c)'
  BY DEF Receiving, Chunks

Ordered(c) == IF pc[c] = "over" THEN Received(c) ELSE Receiving(c)

LEMMA ConfigOrdered ==
    ASSUME IInv, NEW c \in Callers, Receiving(c), ReceiveConfig(c)
    PROVE  Ordered(c)'
<1>1. pc[c] = "config" /\ spoken[c] = 0 /\ UNCHANGED <<spoken, gone>> /\ c \in Sockets
  BY DEF ReceiveConfig, IInv, EngineInv, Early
<1>2. CASE Leave(c) /\ Send(c, <<<<"close", 1008>>>>) /\ UNCHANGED text
  <2>1. pc'[c] = "over"
    BY <1>2, LeaveTyped DEF IInv
  <2>2. <<<<"close", 1008>>>> \in Endings(c)
    BY <1>1 DEF Endings
  <2>3. QED
    BY <1>1, <1>2, <2>1, <2>2, EndsWell DEF Ordered
<1>3. CASE (Go(c, "failed") \/ Go(c, "engine")) /\ UNCHANGED got
  <2>1. pc'[c] # "over"
    BY <1>3, GoTyped DEF IInv, Pcs
  <2>2. QED
    BY <1>1, <1>3, <2>1, StillReceiving DEF Ordered
<1>4. CASE Leave(c) /\ UNCHANGED <<text, got>>
  <2>1. pc'[c] = "over"
    BY <1>4, LeaveTyped DEF IInv
  <2>2. QED
    BY <1>4, <2>1, LeavesWell DEF Ordered
<1>5. QED
  BY <1>2, <1>3, <1>4 DEF ReceiveConfig

LEMMA ChunkOrdered ==
    ASSUME IInv, NEW c \in Callers, Receiving(c), SendChunk(c)
    PROVE  Ordered(c)'
<1>0. spoken[c] \in Nat
  BY DEF IInv, TypeOK
<1>1. UNCHANGED <<gone, text>>
  BY DEF SendChunk
<1>2. CASE /\ Send(c, <<<<"chunk", spoken[c] + 1>>>>)
           /\ spoken' = [spoken EXCEPT ![c] = @ + 1] /\ Go(c, "speak")
  <2>1. pc'[c] # "over" /\ spoken'[c] = spoken[c] + 1
    BY <1>2, GoTyped DEF IInv, TypeOK, Pcs
  <2>2. CASE gone[c] /\ got'[c] = got[c]
    <3>1. PICK n \in 0..spoken[c] : got[c] = Chunks(n)
      BY DEF Receiving
    <3>2. n \in 0..spoken'[c] /\ got'[c] = Chunks(n) /\ gone'[c]
      BY <1>0, <1>1, <2>1, <2>2, <3>1
    <3>3. QED
      BY <2>1, <3>2 DEF Ordered, Receiving
  <2>3. CASE got'[c] = Chunks(spoken[c]) \o <<<<"chunk", spoken[c] + 1>>>>
    <3> DEFINE n == spoken'[c]
    <3>1. n \in 0..spoken'[c] /\ got'[c] = Chunks(n)
      BY <1>0, <2>1, <2>3, ChunksGrow
    <3>2. n = spoken'[c]
      OBVIOUS
    <3> HIDE DEF n
    <3>3. QED
      BY <2>1, <3>1, <3>2 DEF Ordered, Receiving
  <2>4. QED
    BY <1>2, <2>2, <2>3, SendReaches
<1>3. CASE Leave(c) /\ UNCHANGED got
  <2>1. pc'[c] = "over"
    BY <1>3, LeaveTyped DEF IInv
  <2>2. QED
    BY <1>1, <1>3, <2>1, LeavesWell DEF Ordered
<1>4. CASE Go(c, "failed") /\ UNCHANGED <<spoken, got>>
  <2>1. pc'[c] # "over"
    BY <1>4, GoTyped DEF IInv, Pcs
  <2>2. QED
    BY <1>1, <1>4, <2>1, StillReceiving DEF Ordered
<1>5. QED
  BY <1>2, <1>3, <1>4 DEF SendChunk

LEMMA FinishOrdered ==
    ASSUME IInv, NEW c \in Callers, Receiving(c), Finish(c)
    PROVE  Ordered(c)'
<1>1. UNCHANGED <<gone, text, spoken>> /\ spoken[c] = text[c]
  BY DEF Finish
<1>2. CASE /\ Leave(c)
           /\ Send(c, IF c \in Sockets THEN <<<<"done", spoken[c]>>, <<"close", 1000>>>>
                      ELSE <<<<"end", 0>>>>)
  <2> DEFINE ending == IF c \in Sockets THEN <<<<"done", spoken[c]>>, <<"close", 1000>>>>
                       ELSE <<<<"end", 0>>>>
  <2>1. pc'[c] = "over"
    BY <1>2, LeaveTyped DEF IInv
  <2>2. /\ ending \in Endings(c) /\ ending[1] # <<"close", 1008>>
        /\ Send(c, ending)
    BY <1>1, <1>2 DEF Endings
  <2> HIDE DEF ending
  <2>3. QED
    BY <1>1, <2>1, <2>2, EndsWell DEF Ordered
<1>3. CASE Go(c, "failed") /\ UNCHANGED got
  <2>1. pc'[c] # "over"
    BY <1>3, GoTyped DEF IInv, Pcs
  <2>2. QED
    BY <1>1, <1>3, <2>1, StillReceiving DEF Ordered
<1>4. QED
  BY <1>2, <1>3 DEF Finish

LEMMA ErrorOrdered ==
    ASSUME IInv, NEW c \in Callers, Receiving(c), AnswerError(c)
    PROVE  Ordered(c)'
<1> DEFINE ending == IF c \in Sockets THEN <<<<"error", 0>>, <<"close", 1011>>>>
                     ELSE <<<<"abort", 0>>>>
<1>1. pc'[c] = "over" /\ UNCHANGED text /\ Send(c, ending)
  BY LeaveTyped DEF IInv, AnswerError
<1>2. /\ ending \in Endings(c) /\ ending[1] # <<"close", 1008>>
      /\ ending[1][1] \notin {"done", "end"}
  BY DEF Endings
<1> HIDE DEF ending
<1>3. QED
  BY <1>1, <1>2, EndsWell DEF Ordered

LEMMA OrderKept ==
    ASSUME IInv, OrderInv, NEW c \in Callers, Client(c) \/ Handler(c)
    PROVE  OrderInv'
<1>0. Receiving(c) \/ ClientLeaves(c)
  <2>1. pc[c] # "over" => Receiving(c)
    BY DEF OrderInv
  <2>2. pc[c] = "over" => FALSE
    BY DEF Client, Handler, Connect, ReceiveConfig, Request, ClientLeaves, FirstCheck, Lock,
           Build, CheckLoaded, EndLoad, FailLoad, Speak, SendChunk, Finish, AnswerError
  <2>3. QED
    BY <2>1, <2>2
<1>1. ASSUME NEW d \in Callers \ {c}
      PROVE  Ordered(d)'
  <2>1. /\ pc'[d] = pc[d] /\ text'[d] = text[d] /\ spoken'[d] = spoken[d]
        /\ gone'[d] = gone[d] /\ got'[d] = got[d]
    BY OthersWait
  <2>2. CASE pc[d] = "over"
    <3>1. Received(d)
      BY <2>2 DEF OrderInv
    <3>2. QED
      BY <2>1, <2>2, <3>1 DEF Ordered, Received, Endings
  <2>3. CASE pc[d] # "over"
    <3>1. Receiving(d)
      BY <2>3 DEF OrderInv
    <3>2. QED
      BY <2>1, <2>3, <3>1 DEF Ordered, Receiving
  <2>4. QED
    BY <2>2, <2>3
<1>2. Ordered(c)'
  <2>1. CASE Connect(c) \/ Request(c) \/ ClientLeaves(c)
    <3>1. /\ UNCHANGED <<spoken, got>> /\ (gone[c] => gone'[c])
          /\ pc[c] # "over" /\ pc'[c] # "over"
      BY <2>1 DEF Connect, Request, ClientLeaves, Go, IInv, TypeOK
    <3>2. QED
      BY <3>1, StillReceiving DEF OrderInv, Ordered
  <2>2. CASE FirstCheck(c) \/ Lock(c) \/ Build(c)
    <3>1. UNCHANGED <<spoken, got, gone>> /\ pc[c] # "over" /\ pc'[c] # "over"
      BY <2>2 DEF FirstCheck, Lock, Build, Have, Go, IInv, TypeOK
    <3>2. QED
      BY <3>1, StillReceiving DEF OrderInv, Ordered
  <2>3. CASE CheckLoaded(c) \/ EndLoad(c) \/ FailLoad(c) \/ Speak(c)
    <3>1. UNCHANGED <<spoken, got, gone>> /\ pc[c] # "over" /\ pc'[c] # "over"
      BY <2>3 DEF CheckLoaded, EndLoad, FailLoad, Speak, Go, IInv, TypeOK
    <3>2. QED
      BY <3>1, StillReceiving DEF OrderInv, Ordered
  <2>4. QED
    BY <1>0, <2>1, <2>2, <2>3, ConfigOrdered, ChunkOrdered, FinishOrdered, ErrorOrdered
       DEF Client, Handler
<1>3. QED
  BY <1>1, <1>2 DEF OrderInv, Ordered

\* A client hears its sentences in order, and one ending that is true.
THEOREM ClientsGetTheText == Spec => []SpokenInOrder
<1>1. Init => OrderInv
  <2>1. \A c \in Callers : 0 \in 0..0 /\ <<>> = Chunks(0)
    BY DEF Chunks
  <2>2. QED
    BY <2>1 DEF Init, OrderInv, Receiving
<1>2. IInv /\ OrderInv /\ [Next]_vars => OrderInv'
  <2>1. ASSUME OrderInv, UNCHANGED vars PROVE OrderInv'
    BY <2>1 DEF OrderInv, Received, Receiving, Endings, vars
  <2>2. QED
    BY <2>1, OrderKept DEF Next
<1>3. IInv /\ OrderInv => SpokenInOrder
  <2> SUFFICES ASSUME IInv, OrderInv, NEW c \in Callers
               PROVE  \E n \in 0..text[c] :
                        \/ got[c] = Chunks(n)
                        \/ /\ pc[c] = "over"
                           /\ \E ending \in Endings(c) :
                                /\ got[c] = Chunks(n) \o ending
                                /\ ending[1][1] \in {"done", "end"} => n = text[c]
                                /\ ending[1] = <<"close", 1008>> => n = 0
    BY DEF SpokenInOrder
  <2>1. CASE pc[c] = "over"
    BY <2>1 DEF OrderInv, Received, Complete, Ended
  <2>2. CASE pc[c] # "over"
    <3>1. PICK n \in 0..spoken[c] : got[c] = Chunks(n)
      BY <2>2 DEF OrderInv, Receiving
    <3>2. n \in 0..text[c]
      BY <3>1 DEF IInv, TypeOK, LoadInv
    <3>3. QED
      BY <3>1, <3>2
  <2>3. QED
    BY <2>1, <2>2
<1>4. QED
  BY <1>1, <1>2, <1>3, Inductive, PTL DEF Spec
=============================================================================
