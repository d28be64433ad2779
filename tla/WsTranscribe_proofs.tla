------------------------ MODULE WsTranscribe_proofs ------------------------
(***************************************************************************)
(* What a client of the transcription socket gets, for any number of       *)
(* frames, any audio, any interval between partials and any failures.      *)
(***************************************************************************)
EXTENDS WsTranscribe, TLAPS

Sending(kind) == pc = "send" /\ event.kind = kind

\* Each partial was due an interval after the one before.
TimeInv ==
    /\ lastPartial <= now
    /\ partials * PartialInterval <= lastPartial
    /\ Sending("partial") => (partials + 1) * PartialInterval <= lastPartial

\* Where the handler is, and what it can have left to do there.
HandlerInv ==
    /\ closeCode # 0 => pc = "over"
    /\ mode = "rescue" => gone
    /\ pc \in {"config", "load", "receive"} => mode = "feed"
    /\ pc = "finish" => mode # "feed"
    /\ pc = "close" => mode = "finish"
    /\ pc \notin {"transcribe", "send"} => todo = <<>>
    /\ pc \in {"transcribe", "send", "close"} /\ mode # "feed" => ~open
    /\ pc = "send" => event.kind \in {"partial", "final"}
    /\ Sending("partial") => mode = "feed" /\ todo = <<>>

\* The utterances still to be transcribed are the last of the completed ones,
\* in order, after all that were transcribed.
OrderInv ==
    /\ Len(todo) <= closed
    /\ \A i \in 1..Len(todo) : todo[i] = (closed - Len(todo)) + i
    /\ \A i \in 1..Len(finalised) : finalised[i] <= closed - Len(todo)
    /\ \A i, j \in 1..Len(finalised) : i < j => finalised[i] < finalised[j]

\* As long as the client is there and nothing has failed, no utterance has
\* been dropped: those not to do are transcribed, and sent but for one.
StreamInv ==
    /\ \A i \in 1..Len(finals) : finals[i].utterance = i /\ finals[i].index = i
    /\ ~gone /\ pc \notin {"error", "over"} =>
         /\ index = closed - Len(todo)
         /\ Len(finals) = index - (IF Sending("final") THEN 1 ELSE 0)
         /\ Sending("final") => event.utterance = index /\ event.index = index
         /\ Sending("partial") => event.utterance = closed + 1
    /\ NormalCloseIsComplete

SessionInv == TimeInv /\ HandlerInv /\ OrderInv /\ StreamInv

USE KeyAssumption, IntervalAssumption, BoundAssumption

-----------------------------------------------------------------------------
(* Types *)

LEMMA TailTyped ==
    ASSUME NEW S, NEW s \in Seq(S), s # <<>>
    PROVE  /\ Head(s) \in S /\ Tail(s) \in Seq(S) /\ Len(s) \in Nat \ {0}
           /\ Len(Tail(s)) = Len(s) - 1 /\ Head(s) = s[1]
           /\ \A i \in 1..Len(Tail(s)) : Tail(s)[i] = s[i + 1]
  OBVIOUS

LEMMA AppendTyped ==
    ASSUME NEW S, NEW s \in Seq(S), NEW e \in S
    PROVE  /\ Append(s, e) \in Seq(S) /\ Len(Append(s, e)) = Len(s) + 1 /\ Len(s) \in Nat
           /\ Append(s, e)[Len(s) + 1] = e
           /\ \A i \in 1..Len(s) : Append(s, e)[i] = s[i]
  OBVIOUS

LEMMA EventsTyped ==
    ASSUME NEW u \in Nat, NEW i \in Nat
    PROVE  /\ NoEvent \in Events
           /\ [kind |-> "final", utterance |-> u, index |-> i] \in Events
           /\ [kind |-> "partial", utterance |-> u, index |-> i] \in Events
  BY DEF NoEvent, Events

LEMMA InitTyped == Init => TypeOK
<1> SUFFICES ASSUME Init PROVE TypeOK
  OBVIOUS
<1>1. /\ inbox \in Seq(Frames \cup {"disconnect"}) /\ todo \in Seq(Nat)
      /\ finals \in Seq(Events) /\ finalised \in Seq(Nat)
  BY DEF Init
<1>2. event \in Events
  BY EventsTyped DEF Init
<1>3. pc \in Pcs /\ mode \in Modes
  BY DEF Init, Pcs, Modes
<1>4. /\ sentFrames \in 0..MaxFrames /\ lastPartial \in 0..MaxTime /\ now \in 0..MaxTime
      /\ closed \in Nat /\ index \in Nat /\ partials \in Nat
      /\ closeCode \in {0, 1000, 1008, 1011}
  BY DEF Init
<1>5. gone \in BOOLEAN /\ stopSent \in BOOLEAN /\ open \in BOOLEAN
  BY DEF Init
<1>6. QED
  BY <1>1, <1>2, <1>3, <1>4, <1>5 DEF TypeOK

\* Frames are taken from the front of the inbox.
LEMMA InboxTyped ==
    ASSUME TypeOK, NEW f, Took(f)
    PROVE  inbox' \in Seq(Frames \cup {"disconnect"})
  BY TailTyped DEF Took, TypeOK

LEMMA OutsideTyped ==
    ASSUME TypeOK, (\E f \in Frames : ClientSends(f)) \/ ClientLeaves \/ Tick
    PROVE  TypeOK'
<1>1. CASE \E f \in Frames : ClientSends(f)
  <2>1. PICK f \in Frames : ClientSends(f)
    BY <1>1
  <2>2. inbox' \in Seq(Frames \cup {"disconnect"}) /\ sentFrames' \in 0..MaxFrames /\ stopSent' \in BOOLEAN
    BY <2>1, AppendTyped DEF ClientSends, TypeOK
  <2>3. QED
    BY <2>1, <2>2 DEF ClientSends, TypeOK, vadVars, streamVars, historyVars
<1>2. CASE ClientLeaves
  <2>1. inbox' \in Seq(Frames \cup {"disconnect"})
    BY <1>2, AppendTyped DEF ClientLeaves, TypeOK
  <2>2. QED
    BY <1>2, <2>1 DEF ClientLeaves, TypeOK, vadVars, streamVars, historyVars
<1>3. CASE Tick
  BY <1>3 DEF Tick, TypeOK, clientVars, vadVars, streamVars, historyVars
<1>4. QED
  BY <1>1, <1>2, <1>3

LEMMA HandlerTyped ==
    ASSUME TypeOK, Handler
    PROVE  TypeOK'
<1>1. CASE ReadConfig
  <2>1. inbox' \in Seq(Frames \cup {"disconnect"})
    BY <1>1, InboxTyped DEF ReadConfig
  <2>2. pc' \in Pcs /\ closeCode' \in {0, 1000, 1008, 1011}
    BY <1>1 DEF ReadConfig, CloseWith, Pcs, TypeOK
  <2>3. QED
    BY <1>1, <2>1, <2>2 DEF ReadConfig, TypeOK, vadVars, streamVars
<1>2. CASE LoadEngine
  BY <1>2 DEF LoadEngine, TypeOK, Pcs, clientVars, vadVars, streamVars, historyVars
<1>3. CASE ReceiveAudio
  <2>1. inbox' \in Seq(Frames \cup {"disconnect"})
    BY <1>3, InboxTyped DEF ReceiveAudio
  <2>2. todo' \in Seq(Nat) /\ closed' \in Nat /\ open' \in BOOLEAN
    <3>1. PICK ends \in 0..MaxEnds :
            /\ todo' = [i \in 1..ends |-> closed + i]
            /\ closed' = closed + ends
            /\ open' \in IF ends = 0 /\ open THEN {TRUE} ELSE BOOLEAN
      BY <1>3 DEF ReceiveAudio
    <3>2. closed \in Nat /\ ends \in Nat
      BY <3>1 DEF TypeOK
    <3>3. todo' \in Seq(Nat)
      BY <3>1, <3>2
    <3>4. open' \in BOOLEAN
      BY <3>1
    <3>5. QED
      BY <3>1, <3>2, <3>3, <3>4
  <2>3. QED
    BY <1>3, <2>1, <2>2 DEF ReceiveAudio, TypeOK, Pcs, Modes, streamVars, historyVars
<1>4. CASE ReceiveText
  <2>1. inbox' \in Seq(Frames \cup {"disconnect"})
    BY <1>4, InboxTyped DEF ReceiveText
  <2>2. pc' \in Pcs /\ mode' \in Modes
    BY <1>4 DEF ReceiveText, Pcs, Modes, TypeOK
  <2>3. QED
    BY <1>4, <2>1, <2>2 DEF ReceiveText, TypeOK, vadVars, streamVars, historyVars
<1>5. CASE TranscribeFinal
  <2>1. todo' \in Seq(Nat) /\ Head(todo) \in Nat
    BY <1>5, TailTyped DEF TranscribeFinal, TypeOK
  <2>2. finalised' \in Seq(Nat) /\ index' \in Nat
    BY <1>5, <2>1, AppendTyped DEF TranscribeFinal, TypeOK
  <2>3. event' \in Events
    BY <1>5, <2>1, <2>2, EventsTyped DEF TranscribeFinal
  <2>4. QED
    BY <1>5, <2>1, <2>2, <2>3 DEF TranscribeFinal, TypeOK, Pcs, clientVars, vadVars
<1>6. CASE TranscribePartial
  <2>1. event' \in Events
    <3>1. closed + 1 \in Nat /\ index \in Nat
      BY DEF TypeOK
    <3>2. event' = [kind |-> "partial", utterance |-> closed + 1, index |-> index]
      BY <1>6 DEF TranscribePartial
    <3>3. QED
      BY <3>1, <3>2, EventsTyped
  <2>2. QED
    BY <1>6, <2>1 DEF TranscribePartial, TypeOK, Pcs, clientVars, vadVars, historyVars
<1>7. CASE EngineFails
  <2>1. pc' \in Pcs /\ lastPartial' \in 0..MaxTime /\ todo' \in Seq(Nat)
    BY <1>7 DEF EngineFails, Raised, Pcs, TypeOK
  <2>2. QED
    BY <1>7, <2>1 DEF EngineFails, TypeOK, clientVars, vadVars, historyVars
<1>8. CASE Exhausted
  <2>1. pc' \in Pcs
    BY <1>8 DEF Exhausted, Pcs, Modes, TypeOK
  <2>2. UNCHANGED <<clientVars, mode, todo, event, vadVars, streamVars, now, historyVars>>
    BY <1>8 DEF Exhausted
  <2>3. QED
    BY <2>1, <2>2 DEF TypeOK, clientVars, vadVars, streamVars, historyVars
<1>9. CASE SendEvent
  <2>1. finals' \in Seq(Events) /\ partials' \in Nat
    BY <1>9, AppendTyped DEF SendEvent, TypeOK
  <2>2. event' \in Events /\ pc' \in Pcs
    BY <1>9, EventsTyped DEF SendEvent, Resume, Pcs
  <2>3. QED
    BY <1>9, <2>1, <2>2 DEF SendEvent, TypeOK, clientVars, vadVars, streamVars
<1>10. CASE SendRaises
  <2>1. event' \in Events /\ pc' \in Pcs /\ mode' \in Modes /\ todo' \in Seq(Nat)
    <3>1. event' = NoEvent /\ todo' = <<>>
      BY <1>10 DEF SendRaises
    <3>2. pc' \in Pcs /\ mode' \in Modes
      BY <1>10 DEF SendRaises, Raised, Pcs, Modes, TypeOK
    <3>3. event' \in Events /\ todo' \in Seq(Nat)
      BY <3>1 DEF NoEvent, Events
    <3>4. QED
      BY <3>2, <3>3
  <2>2. QED
    BY <1>10, <2>1 DEF SendRaises, TypeOK, clientVars, vadVars, streamVars, historyVars
<1>11. CASE Finish
  <2>1. todo' \in Seq(Nat) /\ closed' \in Nat
    BY <1>11 DEF Finish, TypeOK
  <2>2. /\ open' \in BOOLEAN /\ pc' \in Pcs
        /\ UNCHANGED <<clientVars, mode, event, streamVars, now, historyVars>>
    BY <1>11 DEF Finish, Pcs
  <2>3. QED
    BY <2>1, <2>2 DEF TypeOK, clientVars, streamVars, historyVars
<1>12. CASE Close
  <2>1. pc' \in Pcs /\ mode' \in Modes /\ closeCode' \in {0, 1000, 1008, 1011}
    BY <1>12 DEF Close, CloseWith, Pcs, Modes, TypeOK
  <2>2. QED
    BY <1>12, <2>1 DEF Close, TypeOK, clientVars, vadVars, streamVars
<1>13. CASE AnswerError
  <2>1. pc' \in Pcs /\ closeCode' \in {0, 1000, 1008, 1011}
    BY <1>13 DEF AnswerError, CloseWith, Pcs
  <2>2. QED
    BY <1>13, <2>1 DEF AnswerError, TypeOK, clientVars, vadVars, streamVars
<1>14. QED
  BY <1>1, <1>2, <1>3, <1>4, <1>5, <1>6, <1>7, <1>8, <1>9, <1>10, <1>11, <1>12, <1>13 DEF Handler

LEMMA StepTyped == TypeOK /\ [Next]_vars => TypeOK'
<1> SUFFICES ASSUME TypeOK, [Next]_vars PROVE TypeOK'
  OBVIOUS
<1>1. CASE UNCHANGED vars
  BY <1>1 DEF TypeOK, vars, clientVars, vadVars, streamVars, historyVars
<1>2. QED
  BY <1>1, OutsideTyped, HandlerTyped DEF Next

-----------------------------------------------------------------------------
(* What a session keeps *)

LEMMA InitKept == Init => SessionInv
<1> SUFFICES ASSUME Init PROVE SessionInv
  OBVIOUS
<1>1. 0 * PartialInterval = 0
  OBVIOUS
<1>2. TimeInv
  BY <1>1 DEF Init, TimeInv, Sending
<1>3. HandlerInv
  BY DEF Init, HandlerInv, Sending
<1>4. OrderInv
  BY DEF Init, OrderInv
<1>5. StreamInv
  <2>1. Len(todo) = 0 /\ Len(finals) = 0 /\ ~Sending("final") /\ ~Sending("partial")
    BY DEF Init, Sending
  <2>2. closed = 0 /\ index = 0 /\ closeCode = 0
    BY DEF Init
  <2>3. index = closed - Len(todo) /\ Len(finals) = index - 0
    BY <2>1, <2>2
  <2>4. \A i \in 1..Len(finals) : finals[i].utterance = i /\ finals[i].index = i
    BY <2>1
  <2>5. NormalCloseIsComplete
    BY <2>2 DEF NormalCloseIsComplete
  <2>6. QED
    BY <2>1, <2>3, <2>4, <2>5 DEF StreamInv
<1>6. QED
  BY <1>2, <1>3, <1>4, <1>5 DEF SessionInv

LEMMA Counts ==
    ASSUME TypeOK
    PROVE  /\ Len(todo) \in Nat /\ Len(finals) \in Nat /\ Len(finalised) \in Nat
           /\ closed \in Nat /\ index \in Nat /\ partials \in Nat /\ lastPartial \in Nat /\ now \in Nat
           /\ \A i \in 1..Len(todo) : todo[i] \in Nat
           /\ \A i \in 1..Len(finalised) : finalised[i] \in Nat
  BY DEF TypeOK

\* The client and the clock.
LEMMA OutsideKept ==
    ASSUME TypeOK, SessionInv, (\E f \in Frames : ClientSends(f)) \/ ClientLeaves \/ Tick
    PROVE  SessionInv'
<1>1. /\ UNCHANGED <<pc, mode, todo, event, vadVars, streamVars, historyVars>>
      /\ gone => gone'
      /\ now' \in {now, now + 1}
  BY DEF ClientSends, ClientLeaves, Tick, clientVars
<1>2. UNCHANGED <<pc, mode, todo, event, closed, open, index, lastPartial, closeCode, finals, partials, finalised>>
  BY <1>1 DEF vadVars, streamVars, historyVars
<1>3. TimeInv'
  BY <1>1, <1>2, Counts DEF SessionInv, TimeInv, Sending
<1>4. HandlerInv'
  BY <1>1, <1>2 DEF SessionInv, HandlerInv, Sending
<1>5. OrderInv'
  BY <1>2 DEF SessionInv, OrderInv
<1>6. StreamInv'
  BY <1>1, <1>2 DEF SessionInv, StreamInv, Sending, NormalCloseIsComplete
<1>7. QED
  BY <1>3, <1>4, <1>5, <1>6 DEF SessionInv

\* Steps that only move the handler, and may close the socket.
LEMMA MovesKept ==
    ASSUME TypeOK, SessionInv,
           ReadConfig \/ LoadEngine \/ ReceiveText \/ Exhausted \/ Close \/ AnswerError
    PROVE  SessionInv'
<1>1. /\ UNCHANGED <<gone, todo, event, vadVars, streamVars, now, finals, partials, finalised>>
      /\ pc # "send" /\ pc' # "send" /\ pc # "over"
  BY DEF ReadConfig, LoadEngine, ReceiveText, Exhausted, Close, AnswerError, CloseWith, Modes,
         TypeOK, clientVars, historyVars
<1>2. UNCHANGED <<gone, todo, event, closed, open, index, lastPartial, now, finals, partials, finalised>>
  BY <1>1 DEF vadVars, streamVars
<1>3. closeCode = 0
  BY <1>1 DEF SessionInv, HandlerInv
<1>4. TimeInv'
  BY <1>1, <1>2 DEF SessionInv, TimeInv, Sending
<1>5. OrderInv'
  BY <1>2 DEF SessionInv, OrderInv
<1>6. HandlerInv'
  <2>1. CASE ReadConfig
    BY <1>1, <1>2, <1>3, <2>1 DEF ReadConfig, CloseWith, SessionInv, HandlerInv, Sending
  <2>2. CASE LoadEngine
    BY <1>1, <1>2, <1>3, <2>2 DEF LoadEngine, historyVars, SessionInv, HandlerInv, Sending
  <2>3. CASE ReceiveText
    BY <1>1, <1>2, <1>3, <2>3 DEF ReceiveText, historyVars, SessionInv, HandlerInv, Sending
  <2>4. CASE Exhausted
    <3>1. \/ mode = "feed" /\ pc' = "receive"
          \/ mode = "finish" /\ pc' = "close"
          \/ mode = "rescue" /\ pc' = "over"
      BY <2>4 DEF Exhausted, TypeOK, Modes
    <3>2. todo = <<>> /\ pc = "transcribe" /\ UNCHANGED <<mode, closeCode>>
      BY <2>4 DEF Exhausted, historyVars
    <3>3. QED
      BY <1>1, <1>2, <1>3, <3>1, <3>2 DEF SessionInv, HandlerInv, Sending
  <2>5. CASE Close
    BY <1>1, <1>2, <1>3, <2>5 DEF Close, CloseWith, SessionInv, HandlerInv, Sending
  <2>6. CASE AnswerError
    BY <1>1, <1>2, <1>3, <2>6 DEF AnswerError, CloseWith, SessionInv, HandlerInv, Sending
  <2>7. QED
    BY <2>1, <2>2, <2>3, <2>4, <2>5, <2>6
<1>7. StreamInv'
  <2>1. pc = "error" => pc' = "over"
    BY DEF ReadConfig, LoadEngine, ReceiveText, Exhausted, Close, AnswerError, CloseWith
  <2>2. NormalCloseIsComplete'
    <3>1. closeCode' = 1000 => Close /\ ~gone
      BY <1>3 DEF ReadConfig, LoadEngine, ReceiveText, Exhausted, Close, AnswerError, CloseWith, historyVars
    <3>2. ASSUME Close, ~gone PROVE ~open /\ Len(finals) = closed
      <4>1. pc = "close" /\ mode = "finish" /\ todo = <<>> /\ ~open
        BY <3>2 DEF Close, SessionInv, HandlerInv
      <4>2. Len(finals) = index - 0 /\ index = closed - Len(todo)
        BY <3>2, <4>1 DEF SessionInv, StreamInv, Sending
      <4>3. QED
        BY <4>1, <4>2, Counts
    <3>3. QED
      BY <1>2, <3>1, <3>2 DEF NormalCloseIsComplete
  <2>3. QED
    BY <1>1, <1>2, <2>1, <2>2 DEF SessionInv, StreamInv, Sending
<1>8. QED
  BY <1>4, <1>5, <1>6, <1>7 DEF SessionInv

\* The VAD hands out utterances: at a chunk, or at the end.
LEMMA HandsOutKept ==
    ASSUME TypeOK, SessionInv, ReceiveAudio \/ Finish
    PROVE  SessionInv'
<1>1. \E ends \in Nat :
        /\ todo' = [i \in 1..ends |-> closed + i]
        /\ closed' = closed + ends
  <2>1. CASE ReceiveAudio
    BY <2>1 DEF ReceiveAudio
  <2>2. CASE Finish /\ open
    <3>1. todo' = <<closed + 1>> /\ closed' = closed + 1
      BY <2>2 DEF Finish
    <3>2. todo' = [i \in 1..1 |-> closed + i]
      BY <3>1, Counts
    <3>3. QED
      BY <3>1, <3>2
  <2>3. CASE Finish /\ ~open
    <3>1. todo' = <<>> /\ closed' = closed
      BY <2>3 DEF Finish
    <3>2. todo' = [i \in 1..0 |-> closed + i] /\ closed' = closed + 0
      BY <3>1, Counts
    <3>3. QED
      BY <3>2
  <2>4. QED
    BY <2>1, <2>2, <2>3
<1>2. PICK ends \in Nat :
        /\ todo' = [i \in 1..ends |-> closed + i]
        /\ closed' = closed + ends
  BY <1>1
<1>3. /\ UNCHANGED <<gone, event, index, lastPartial, now, closeCode, finals, partials, finalised>>
      /\ pc' = "transcribe" /\ pc \in {"receive", "finish"} /\ todo = <<>>
      /\ \/ mode' = "feed"
         \/ mode' = mode /\ mode # "feed" /\ open' = FALSE
  BY DEF ReceiveAudio, Finish, clientVars, streamVars, historyVars, SessionInv, HandlerInv
<1>4. Len(todo') = ends /\ \A i \in 1..ends : todo'[i] = closed + i
  BY <1>2
<1>5. TimeInv'
  BY <1>3 DEF SessionInv, TimeInv, Sending
<1>6. HandlerInv'
  BY <1>3 DEF SessionInv, HandlerInv, Sending
<1>7. OrderInv'
  <2>1. closed' - Len(todo') = closed /\ Len(todo) = 0
    BY <1>2, <1>3, <1>4, Counts
  <2>2. QED
    BY <1>2, <1>3, <1>4, <2>1, Counts DEF SessionInv, OrderInv
<1>8. StreamInv'
  <2>1. closeCode = 0
    BY <1>3 DEF SessionInv, HandlerInv
  <2>2. ~gone => index = closed - 0 /\ Len(finals) = index - 0
    BY <1>3 DEF SessionInv, StreamInv, Sending
  <2>3. ~gone => index = closed' - Len(todo')
    BY <1>2, <1>4, <2>2, Counts
  <2>4. QED
    BY <1>3, <2>1, <2>2, <2>3 DEF SessionInv, StreamInv, Sending, NormalCloseIsComplete
<1>9. QED
  BY <1>5, <1>6, <1>7, <1>8 DEF SessionInv

-----------------------------------------------------------------------------
(* Transcription *)

LEMMA FinalKept ==
    ASSUME TypeOK, SessionInv, TranscribeFinal
    PROVE  SessionInv'
<1>1. /\ pc = "transcribe" /\ pc' = "send" /\ todo # <<>> /\ todo' = Tail(todo)
      /\ finalised' = Append(finalised, Head(todo)) /\ index' = index + 1
      /\ event' = [kind |-> "final", utterance |-> Head(todo), index |-> index + 1]
      /\ UNCHANGED <<gone, mode, closed, open, lastPartial, now, closeCode, finals, partials>>
  BY DEF TranscribeFinal, clientVars, vadVars
<1>2. /\ Head(todo) = todo[1] /\ Len(todo) \in Nat \ {0} /\ Len(todo') = Len(todo) - 1
      /\ \A i \in 1..Len(todo') : todo'[i] = todo[i + 1]
  BY <1>1, TailTyped DEF TypeOK
<1>3. Head(todo) = (closed - Len(todo)) + 1 /\ Head(todo) \in Nat
  BY <1>2, Counts DEF SessionInv, OrderInv
<1>4. /\ Len(finalised') = Len(finalised) + 1 /\ finalised'[Len(finalised) + 1] = Head(todo)
      /\ \A i \in 1..Len(finalised) : finalised'[i] = finalised[i]
  BY <1>1, <1>3, AppendTyped DEF TypeOK
<1>5. event'.kind = "final" /\ event'.utterance = Head(todo) /\ event'.index = index'
  BY <1>1
<1>6. closeCode = 0
  BY <1>1 DEF SessionInv, HandlerInv
<1>7. TimeInv'
  BY <1>1, <1>5 DEF SessionInv, TimeInv, Sending
<1>8. HandlerInv'
  BY <1>1, <1>5 DEF SessionInv, HandlerInv, Sending
<1>9. OrderInv'
  <2>1. /\ Len(todo) <= closed
        /\ \A i \in 1..Len(todo) : todo[i] = (closed - Len(todo)) + i
        /\ \A i \in 1..Len(finalised) : finalised[i] <= closed - Len(todo)
        /\ \A i, j \in 1..Len(finalised) : i < j => finalised[i] < finalised[j]
    BY DEF SessionInv, OrderInv
  <2>2. \A i \in 1..Len(todo') : todo'[i] = (closed' - Len(todo')) + i
    <3> SUFFICES ASSUME NEW i \in 1..Len(todo') PROVE todo'[i] = (closed' - Len(todo')) + i
      OBVIOUS
    <3>1. i + 1 \in 1..Len(todo) /\ todo'[i] = todo[i + 1]
      BY <1>2
    <3>2. todo[i + 1] = (closed - Len(todo)) + (i + 1)
      BY <2>1, <3>1
    <3> DEFINE done == closed - Len(todo)
    <3>3. closed' - Len(todo') = done + 1 /\ done \in Int
      BY <1>1, <1>2, Counts
    <3>4. todo'[i] = done + (i + 1) /\ i \in Int
      BY <3>1, <3>2
    <3> HIDE DEF done
    <3>5. QED
      BY <3>3, <3>4
  <2>3. \A i \in 1..Len(finalised') : finalised'[i] <= closed' - Len(todo')
    <3> SUFFICES ASSUME NEW i \in 1..Len(finalised') PROVE finalised'[i] <= closed' - Len(todo')
      OBVIOUS
    <3>1. i \in 1..Len(finalised) \/ i = Len(finalised) + 1
      BY <1>4, Counts
    <3>2. QED
      BY <1>1, <1>2, <1>3, <1>4, <2>1, <3>1, Counts
  <2>4. \A i, j \in 1..Len(finalised') : i < j => finalised'[i] < finalised'[j]
    <3> SUFFICES ASSUME NEW i \in 1..Len(finalised'), NEW j \in 1..Len(finalised'), i < j
                 PROVE  finalised'[i] < finalised'[j]
      OBVIOUS
    <3>1. i \in 1..Len(finalised) /\ (j \in 1..Len(finalised) \/ j = Len(finalised) + 1)
      BY <1>4, Counts
    <3>2. QED
      BY <1>2, <1>3, <1>4, <2>1, <3>1, Counts
  <2>5. QED
    BY <1>1, <1>2, <2>1, <2>2, <2>3, <2>4, Counts DEF OrderInv
<1>10. StreamInv'
  <2>1. ~gone => index = closed - Len(todo) /\ Len(finals) = index - 0
    BY <1>1 DEF SessionInv, StreamInv, Sending
  <2>2. ~gone => index' = closed - Len(todo') /\ Len(finals) = index' - 1 /\ event'.utterance = index'
    BY <1>1, <1>2, <1>3, <1>5, <2>1, Counts
  <2>3. QED
    BY <1>1, <1>5, <1>6, <2>2 DEF SessionInv, StreamInv, Sending, NormalCloseIsComplete
<1>11. QED
  BY <1>7, <1>8, <1>9, <1>10 DEF SessionInv

LEMMA PartialKept ==
    ASSUME TypeOK, SessionInv, TranscribePartial
    PROVE  SessionInv'
<1>1. /\ pc = "transcribe" /\ pc' = "send" /\ todo = <<>> /\ mode = "feed"
      /\ now - lastPartial >= PartialInterval /\ lastPartial' = now
      /\ event' = [kind |-> "partial", utterance |-> closed + 1, index |-> index]
      /\ UNCHANGED <<gone, mode, todo, closed, open, index, now, closeCode, finals, partials, finalised>>
  BY DEF TranscribePartial, PartialDue, clientVars, vadVars, historyVars
<1>2. event'.kind = "partial" /\ event'.utterance = closed + 1
  BY <1>1
<1>3. closeCode = 0
  BY <1>1 DEF SessionInv, HandlerInv
<1>4. TimeInv'
  <2>1. (partials + 1) * PartialInterval = partials * PartialInterval + PartialInterval
        /\ partials * PartialInterval \in Nat
    BY Counts
  <2>2. partials * PartialInterval <= lastPartial
    BY DEF SessionInv, TimeInv
  <2>3. (partials + 1) * PartialInterval <= now /\ partials * PartialInterval <= now
    BY <1>1, <2>1, <2>2, Counts
  <2>4. QED
    BY <1>1, <2>3, Counts DEF TimeInv, Sending
<1>5. HandlerInv'
  BY <1>1, <1>2, <1>3 DEF SessionInv, HandlerInv, Sending
<1>6. OrderInv'
  BY <1>1 DEF SessionInv, OrderInv
<1>7. StreamInv'
  BY <1>1, <1>2, <1>3 DEF SessionInv, StreamInv, Sending, NormalCloseIsComplete
<1>8. QED
  BY <1>4, <1>5, <1>6, <1>7 DEF SessionInv

\* What is left to do is dropped: an engine or a send that fails.
LEMMA DropsKept ==
    ASSUME TypeOK, SessionInv, EngineFails \/ SendRaises
    PROVE  SessionInv'
<1>1. /\ todo' = <<>> /\ lastPartial' \in {lastPartial, now}
      /\ UNCHANGED <<gone, closed, open, index, now, closeCode, finals, partials, finalised>>
      /\ pc \in {"transcribe", "send"}
      /\ pc' \in {"error", "over"} \/ (gone /\ pc' = "finish" /\ mode' = "rescue")
      /\ mode' = mode \/ (gone /\ mode' = "rescue")
  BY DEF EngineFails, SendRaises, Raised, clientVars, vadVars, streamVars, historyVars
<1>2. closeCode = 0
  BY <1>1 DEF SessionInv, HandlerInv
<1>3. TimeInv'
  BY <1>1, Counts DEF SessionInv, TimeInv, Sending
<1>4. HandlerInv'
  BY <1>1, <1>2 DEF SessionInv, HandlerInv, Sending
<1>5. OrderInv'
  <2>1. Len(todo') = 0
    BY <1>1
  <2>2. QED
    BY <1>1, <2>1, Counts DEF SessionInv, OrderInv
<1>6. StreamInv'
  BY <1>1, <1>2 DEF SessionInv, StreamInv, Sending, NormalCloseIsComplete
<1>7. QED
  BY <1>3, <1>4, <1>5, <1>6 DEF SessionInv

LEMMA SendKept ==
    ASSUME TypeOK, SessionInv, SendEvent
    PROVE  SessionInv'
<1>1. /\ pc = "send" /\ pc' = IF event.kind = "partial" THEN "receive" ELSE "transcribe"
      /\ finals' = (IF ~gone /\ event.kind = "final" THEN Append(finals, event) ELSE finals)
      /\ partials' = (IF ~gone /\ event.kind = "partial" THEN partials + 1 ELSE partials)
      /\ UNCHANGED <<gone, mode, todo, closed, open, index, lastPartial, now, closeCode, finalised>>
  BY DEF SendEvent, Resume, clientVars, vadVars, streamVars
<1>2. event.kind \in {"partial", "final"} /\ closeCode = 0
  BY <1>1 DEF SessionInv, HandlerInv
<1>3. TimeInv'
  BY <1>1 DEF SessionInv, TimeInv, Sending
<1>4. HandlerInv'
  BY <1>1, <1>2 DEF SessionInv, HandlerInv, Sending
<1>5. OrderInv'
  BY <1>1 DEF SessionInv, OrderInv
<1>6. StreamInv'
  <2>1. CASE ~gone /\ event.kind = "final"
    <3>1. /\ Len(finals') = Len(finals) + 1 /\ finals'[Len(finals) + 1] = event
          /\ \A i \in 1..Len(finals) : finals'[i] = finals[i]
      BY <1>1, <2>1, AppendTyped DEF TypeOK
    <3>2. /\ event.utterance = index /\ event.index = index /\ Len(finals) = index - 1
          /\ index = closed - Len(todo)
      BY <1>1, <2>1 DEF SessionInv, StreamInv, Sending
    <3>3. \A i \in 1..Len(finals) : finals[i].utterance = i /\ finals[i].index = i
      BY DEF SessionInv, StreamInv
    <3>4. \A i \in 1..Len(finals') : finals'[i].utterance = i /\ finals'[i].index = i
      <4> SUFFICES ASSUME NEW i \in 1..Len(finals')
                   PROVE  finals'[i].utterance = i /\ finals'[i].index = i
        OBVIOUS
      <4>1. i \in 1..Len(finals) \/ i = Len(finals) + 1
        BY <3>1, Counts
      <4>2. CASE i \in 1..Len(finals)
        BY <3>1, <3>3, <4>2
      <4>3. CASE i = Len(finals) + 1
        BY <3>1, <3>2, <4>3, Counts
      <4>4. QED
        BY <4>1, <4>2, <4>3
    <3>5. Len(finals') = index
      BY <3>1, <3>2, Counts
    <3>6. QED
      BY <1>1, <1>2, <2>1, <3>2, <3>4, <3>5, Counts DEF StreamInv, Sending, NormalCloseIsComplete
  <2>2. CASE ~(~gone /\ event.kind = "final")
    BY <1>1, <1>2, <2>2 DEF SessionInv, StreamInv, Sending, NormalCloseIsComplete
  <2>3. QED
    BY <2>1, <2>2
<1>7. QED
  BY <1>3, <1>4, <1>5, <1>6 DEF SessionInv

LEMMA StepKept == TypeOK /\ SessionInv /\ [Next]_vars => SessionInv'
<1> SUFFICES ASSUME TypeOK, SessionInv, [Next]_vars PROVE SessionInv'
  OBVIOUS
<1>1. CASE UNCHANGED vars
  BY <1>1 DEF vars, clientVars, vadVars, streamVars, historyVars, SessionInv, TimeInv, HandlerInv,
              OrderInv, StreamInv, Sending, NormalCloseIsComplete
<1>2. QED
  BY <1>1, OutsideKept, MovesKept, HandsOutKept, FinalKept, PartialKept, DropsKept, SendKept
     DEF Next, Handler

LEMMA Inductive == Spec => [](TypeOK /\ SessionInv)
  BY InitTyped, InitKept, StepTyped, StepKept, PTL DEF Spec

-----------------------------------------------------------------------------
(* Theorems *)

\* The handler, the clock and the history keep their shape.
THEOREM TypeCorrect == Spec => []TypeOK
  BY Inductive, PTL

\* The finals that arrive are those of the first utterances, in order and
\* numbered without a gap, and no utterance is transcribed twice.
THEOREM FinalsInOrder == Spec => []FinalsAreTheTranscript
<1>1. ASSUME TypeOK, SessionInv
      PROVE  FinalsAreTheTranscript
  <2>1. \A i \in 1..Len(finals) : finals[i].utterance = i /\ finals[i].index = i
    BY <1>1 DEF SessionInv, StreamInv
  <2>2. IsInjective(finalised)
    <3>1. DOMAIN finalised = 1..Len(finalised)
      BY <1>1 DEF TypeOK
    <3>2. \A i, j \in 1..Len(finalised) : i < j => finalised[i] < finalised[j]
      BY <1>1 DEF SessionInv, OrderInv
    <3>3. QED
      BY <1>1, <3>1, <3>2, Counts DEF IsInjective
  <2>3. QED
    BY <2>1, <2>2 DEF FinalsAreTheTranscript
<1>2. QED
  BY <1>1, Inductive, PTL

\* A client closed with 1000 has a final for every utterance.
THEOREM NothingMissing == Spec => []NormalCloseIsComplete
<1>1. SessionInv => NormalCloseIsComplete
  BY DEF SessionInv, StreamInv
<1>2. QED
  BY <1>1, Inductive, PTL

\* No more partials arrive than intervals have passed.
THEOREM PartialsRare == Spec => []PartialsThrottled
<1>1. ASSUME TypeOK, SessionInv
      PROVE  PartialsThrottled
  <2>1. partials * PartialInterval \in Nat
    BY <1>1, Counts
  <2>2. partials * PartialInterval <= lastPartial /\ lastPartial <= now
    BY <1>1 DEF SessionInv, TimeInv
  <2>3. QED
    BY <1>1, <2>1, <2>2, Counts DEF PartialsThrottled
<1>2. QED
  BY <1>1, Inductive, PTL

\* A partial arrives between the final before its utterance and its own.
THEOREM PartialsInPlace == Spec => PartialShowsNextFinal
<1>1. ASSUME TypeOK, SessionInv, [Next]_vars
      PROVE  [partials' # partials => event.utterance = Len(finals) + 1]_vars
  <2> SUFFICES ASSUME Next, partials' # partials PROVE event.utterance = Len(finals) + 1
    BY <1>1 DEF vars, historyVars
  <2>1. SendEvent
    BY DEF Next, Handler, ClientSends, ClientLeaves, Tick, ReadConfig, LoadEngine, ReceiveAudio,
           ReceiveText, TranscribeFinal, TranscribePartial, EngineFails, Exhausted, SendRaises,
           Finish, Close, AnswerError, historyVars
  <2>2. pc = "send" /\ ~gone /\ event.kind = "partial"
    BY <2>1 DEF SendEvent
  <2>3. todo = <<>> /\ event.utterance = closed + 1 /\ index = closed - Len(todo) /\ Len(finals) = index - 0
    BY <1>1, <2>2 DEF SessionInv, HandlerInv, StreamInv, Sending
  <2>4. QED
    BY <1>1, <2>3, Counts
<1>2. QED
  BY <1>1, Inductive, PTL DEF Spec, PartialShowsNextFinal
-----------------------------------------------------------------------------
(* What the protocol promises *)

\* A partial is of an open utterance, and before the loop nothing has happened.
FeedInv ==
    /\ Sending("partial") => open
    /\ pc \in {"config", "load"} => closed = 0 /\ ~open /\ finals = <<>> /\ partials = 0

LEMMA FeedKept == TypeOK /\ SessionInv /\ FeedInv /\ [Next]_vars => FeedInv'
<1> SUFFICES ASSUME TypeOK, SessionInv, FeedInv, [Next]_vars
             PROVE  FeedInv'
  OBVIOUS
<1> USE DEF FeedInv, Sending
<1>1. CASE UNCHANGED vars
  BY <1>1 DEF vars, vadVars, historyVars
<1>2. CASE (\E f \in Frames : ClientSends(f)) \/ ClientLeaves \/ Tick
  BY <1>2 DEF ClientSends, ClientLeaves, Tick, vadVars, historyVars
<1>3. CASE ReadConfig \/ LoadEngine \/ AnswerError \/ Close
  BY <1>3 DEF ReadConfig, LoadEngine, AnswerError, Close, CloseWith, vadVars, historyVars
<1>4. CASE ReceiveAudio \/ ReceiveText \/ Finish
  BY <1>4 DEF ReceiveAudio, ReceiveText, Finish, historyVars
<1>5. CASE TranscribeFinal \/ TranscribePartial
  BY <1>5 DEF TranscribeFinal, TranscribePartial, PartialDue, vadVars, historyVars
<1>6. CASE EngineFails \/ Exhausted \/ SendRaises
  <2>1. pc' \notin {"config", "load", "send"}
    BY <1>6 DEF EngineFails, Exhausted, SendRaises, Raised, TypeOK, Modes
  <2>2. QED
    BY <2>1
<1>7. CASE SendEvent
  BY <1>7 DEF SendEvent, Resume, vadVars
<1>8. QED
  BY <1>1, <1>2, <1>3, <1>4, <1>5, <1>6, <1>7 DEF Next, Handler

LEMMA FeedAlways == Spec => []FeedInv
<1>1. Init => FeedInv
  BY DEF Init, FeedInv, Sending
<1>2. QED
  BY <1>1, FeedKept, Inductive, PTL DEF Spec

\* The finals a client has been told are those it got.
LEMMA ToldStays ==
    ASSUME finals' = finals
    PROVE  [i \in DOMAIN finals |-> <<finals[i].utterance, finals[i].index>>]'
             = [i \in DOMAIN finals |-> <<finals[i].utterance, finals[i].index>>]
  BY finals' = finals

LEMMA ToldCounts ==
    ASSUME TypeOK
    PROVE  Len([i \in DOMAIN finals |-> <<finals[i].utterance, finals[i].index>>]) = Len(finals)
<1>1. Len(finals) \in Nat /\ DOMAIN finals = 1..Len(finals)
  BY DEF TypeOK
<1> DEFINE T(i) == <<finals[i].utterance, finals[i].index>>
<1> HIDE DEF T
<1>2. Len([i \in 1..Len(finals) |-> T(i)]) = Len(finals)
  BY <1>1
<1>3. QED
  BY <1>1, <1>2 DEF T

\* The audio: whole utterances, and the one that stop cuts short.
LEMMA AudioHeard ==
    ASSUME TypeOK, SessionInv, ReceiveAudio \/ Finish
    PROVE  Feed!Hear
<1>1. closeCode = 0
  BY DEF ReceiveAudio, Finish, SessionInv, HandlerInv
<1>2. closed' \in Nat /\ closed' >= closed /\ open' \in BOOLEAN /\ (open /\ closed' = closed => open')
  <2>1. CASE ReceiveAudio
    <3>1. PICK ends \in 0..MaxEnds :
            closed' = closed + ends /\ open' \in IF ends = 0 /\ open THEN {TRUE} ELSE BOOLEAN
      BY <2>1 DEF ReceiveAudio
    <3>2. closed \in Nat /\ ends \in Nat /\ closed' = closed + ends
      BY <3>1, Counts
    <3>3. ends # 0 => closed' # closed
      BY <3>2
    <3>4. open' \in BOOLEAN /\ (ends = 0 /\ open => open')
      BY <3>1
    <3>5. QED
      BY <3>2, <3>3, <3>4
  <2>2. CASE Finish
    <3>1. /\ open' = FALSE
          /\ closed' = IF open THEN closed + 1 ELSE closed
      BY <2>2 DEF Finish
    <3>2. closed \in Nat
      BY DEF TypeOK
    <3>3. closed' \in Nat /\ closed' >= closed
      BY <3>1, <3>2
    <3>4. open => closed' # closed
      BY <3>1, <3>2
    <3>5. open' \in BOOLEAN
      BY <3>1
    <3>6. QED
      BY <3>3, <3>4, <3>5
  <2>3. QED
    BY <2>1, <2>2
<1>3. UNCHANGED <<finals, partials, closeCode>>
  BY DEF ReceiveAudio, Finish, historyVars
<1>4. QED
  BY <1>1, <1>2, <1>3, ToldStays DEF Feed!Hear

\* An event that arrives is the next final, or a partial after all finals.
LEMMA EventTold ==
    ASSUME TypeOK, SessionInv, FeedInv, SendEvent
    PROVE  Feed!TellFinal \/ Feed!TellPartial \/ UNCHANGED Feed!feedVars
<1> DEFINE told == [i \in DOMAIN finals |-> <<finals[i].utterance, finals[i].index>>]
<1>1. /\ pc = "send" /\ closeCode = 0 /\ event.kind \in {"partial", "final"}
      /\ UNCHANGED <<closed, open, closeCode>>
  BY DEF SendEvent, vadVars, SessionInv, HandlerInv
<1>2. Len(told) = Len(finals) /\ Len(finals) \in Nat
  BY ToldCounts, Counts
<1>3. CASE gone
  <2>1. UNCHANGED <<finals, partials>>
    BY <1>3 DEF SendEvent
  <2>2. QED
    BY <1>1, <2>1, ToldStays DEF Feed!feedVars
<1>4. CASE ~gone /\ event.kind = "final"
  <2>1. /\ index = closed - Len(todo) /\ Len(finals) = index - 1 /\ event.utterance = index /\ event.index = index
    BY <1>1, <1>4 DEF SessionInv, StreamInv, Sending
  <2>2. Len(finals) < closed /\ event.utterance = Len(finals) + 1 /\ event.index = Len(finals) + 1
    BY <2>1, Counts
  <2>3. finals' = Append(finals, event) /\ partials' = partials
    BY <1>4 DEF SendEvent
  <2>4. told' = Append(told, <<Len(finals) + 1, Len(finals) + 1>>)
    <3> DEFINE n == Len(finals)
               T(s, i) == <<s[i].utterance, s[i].index>>
    <3>1. /\ DOMAIN finals = 1..n /\ DOMAIN finals' = 1..(n + 1)
          /\ finals'[n + 1] = event /\ \A i \in 1..n : finals'[i] = finals[i]
      BY <2>3, AppendTyped DEF TypeOK
    <3>2. \A i \in 1..n : T(finals', i) = T(finals, i)
      BY <3>1
    <3>3. T(finals', n + 1) = <<n + 1, n + 1>>
      BY <2>2, <3>1
    <3>4. told = [i \in 1..n |-> T(finals, i)] /\ told' = [i \in 1..(n + 1) |-> T(finals', i)]
      BY <3>1
    <3> HIDE DEF T, told, n
    <3>5. [i \in 1..(n + 1) |-> T(finals', i)] = Append([i \in 1..n |-> T(finals, i)], <<n + 1, n + 1>>)
      <4>1. n \in Nat
        BY <1>2 DEF n
      <4> DEFINE s == [i \in 1..n |-> T(finals, i)]
                 e == <<n + 1, n + 1>>
                 S == {T(finals, i) : i \in 1..n} \cup {e}
                 both == Append(s, e)
      <4>2. s \in Seq(S) /\ e \in S /\ Len(s) = n /\ \A i \in 1..n : s[i] = T(finals, i)
        BY <4>1
      <4> HIDE DEF s, e, S
      <4>3. /\ both \in Seq(S) /\ Len(both) = n + 1 /\ both[n + 1] = e
            /\ \A i \in 1..n : both[i] = s[i]
        BY <4>2, AppendTyped
      <4> HIDE DEF both
      <4>4. \A i \in 1..(n + 1) : T(finals', i) = both[i]
        <5>1. \A i \in 1..(n + 1) : i \in 1..n \/ i = n + 1
          BY <4>1
        <5>2. QED
          BY <3>2, <3>3, <4>2, <4>3, <5>1 DEF e
      <4>5. both = [i \in 1..(n + 1) |-> both[i]]
        BY <4>1, <4>3
      <4>6. QED
        BY <4>4, <4>5 DEF both, s, e
    <3>6. QED
      BY <3>4, <3>5 DEF n
  <2>5. Feed!TellFinal
    BY <1>1, <1>2, <2>2, <2>3, <2>4 DEF Feed!TellFinal
  <2>6. QED
    BY <2>5
<1>5. CASE ~gone /\ event.kind = "partial"
  <2>1. open /\ Len(finals) = closed
    <3>1. open /\ todo = <<>>
      BY <1>1, <1>5 DEF FeedInv, SessionInv, HandlerInv, Sending
    <3>2. index = closed - Len(todo) /\ Len(finals) = index - 0
      BY <1>1, <1>5 DEF SessionInv, StreamInv, Sending
    <3>3. QED
      BY <3>1, <3>2, Counts
  <2>2. finals' = finals /\ partials' = partials + 1
    BY <1>5 DEF SendEvent
  <2>3. Feed!TellPartial
    BY <1>1, <1>2, <2>1, <2>2, ToldStays DEF Feed!TellPartial
  <2>4. QED
    BY <2>3
<1>6. QED
  BY <1>1, <1>3, <1>4, <1>5

\* A close that is delivered says what the client has got.
LEMMA CloseKeeps ==
    ASSUME TypeOK, SessionInv, FeedInv, ReadConfig \/ Close \/ AnswerError
    PROVE  (\E c \in {1000, 1008, 1011} : Feed!CloseFeed(c)) \/ UNCHANGED Feed!feedVars
<1>1. UNCHANGED <<closed, open, finals, partials>> /\ closeCode = 0
  BY DEF ReadConfig, Close, AnswerError, vadVars, SessionInv, HandlerInv
<1>2. CASE closeCode' = 0
  BY <1>1, <1>2, ToldStays DEF Feed!feedVars
<1>3. CASE closeCode' # 0
  <2>1. \/ closeCode' = 1008 /\ pc = "config"
        \/ closeCode' = 1000 /\ pc = "close" /\ ~gone
        \/ closeCode' = 1011
    BY <1>1, <1>3 DEF ReadConfig, Close, AnswerError, CloseWith
  <2>2. pc = "config" => closed = 0 /\ ~open /\ partials = 0
    BY DEF FeedInv
  <2>3. pc = "close" /\ ~gone => ~open /\ Len(finals) = closed
    <3>1. pc = "close" => mode = "finish" /\ todo = <<>> /\ ~open
      BY DEF SessionInv, HandlerInv
    <3>2. pc = "close" /\ ~gone => Len(finals) = index - 0 /\ index = closed - Len(todo)
      BY DEF SessionInv, StreamInv, Sending
    <3>3. QED
      BY <3>1, <3>2, Counts
  <2>4. ASSUME NEW c \in {1000, 1008, 1011}, closeCode' = c
        PROVE  Feed!CloseFeed(c)
    BY <1>1, <2>1, <2>2, <2>3, <2>4, ToldStays, ToldCounts DEF Feed!CloseFeed
  <2>5. QED
    BY <2>1, <2>4
<1>4. QED
  BY <1>2, <1>3

LEMMA FeedSteps ==
    TypeOK /\ SessionInv /\ FeedInv /\ [Next]_vars => [Feed!FeedNext]_Feed!feedVars
<1> SUFFICES ASSUME TypeOK, SessionInv, FeedInv, [Next]_vars
             PROVE  [Feed!FeedNext]_Feed!feedVars
  OBVIOUS
<1>1. CASE ReceiveAudio \/ Finish
  BY <1>1, AudioHeard DEF Feed!FeedNext
<1>2. CASE SendEvent
  BY <1>2, EventTold DEF Feed!FeedNext
<1>3. CASE ReadConfig \/ Close \/ AnswerError
  BY <1>3, CloseKeeps DEF Feed!FeedNext
<1>4. CASE UNCHANGED <<closed, open, finals, partials, closeCode>>
  BY <1>4, ToldStays DEF Feed!feedVars
<1>5. CASE UNCHANGED vars \/ (\E f \in Frames : ClientSends(f)) \/ ClientLeaves \/ Tick
  BY <1>4, <1>5 DEF vars, ClientSends, ClientLeaves, Tick, vadVars, historyVars
<1>6. CASE \/ LoadEngine \/ ReceiveText \/ TranscribeFinal \/ TranscribePartial \/ EngineFails
           \/ Exhausted \/ SendRaises
  BY <1>4, <1>6 DEF LoadEngine, ReceiveText, TranscribeFinal, TranscribePartial, EngineFails,
     Exhausted, SendRaises, vadVars, historyVars
<1>7. QED
  BY <1>1, <1>2, <1>3, <1>5, <1>6 DEF Next, Handler

\* For any audio, clients and failures, the handler and the transcriber give a
\* client what the protocol promises, step by step.
THEOREM SessionKeepsFeed == Spec => KeepsFeed
<1>1. Init => Feed!FeedInit
  BY DEF Init, Feed!FeedInit
<1>2. QED
  BY <1>1, FeedSteps, FeedAlways, Inductive, PTL DEF Spec, KeepsFeed, Feed!FeedSpec
=============================================================================
