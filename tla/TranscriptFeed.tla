--------------------------- MODULE TranscriptFeed ---------------------------
(***************************************************************************)
(* What /v1/ws/transcribe promises a client, whatever goes on in the       *)
(* handler, in the engine and between them.                                *)
(*                                                                         *)
(* Of the audio the server has read, spoken utterances are over and one    *)
(* may be open.  told are the finals the client has, each with the number  *)
(* of its utterance and the index it says; hints counts the partials, and  *)
(* code is the code the socket was closed with, 0 while it is open and     *)
(* when the client left by itself.                                         *)
(***************************************************************************)
EXTENDS Integers, Sequences

VARIABLES spoken, open, told, hints, code

feedVars == <<spoken, open, told, hints, code>>

FeedInit == spoken = 0 /\ open = FALSE /\ told = <<>> /\ hints = 0 /\ code = 0

\* More of the audio is read, or it ends.  What is open stays so until it is over.
Hear ==
    /\ code = 0
    /\ spoken' \in Nat /\ spoken' >= spoken
    /\ open' \in BOOLEAN /\ (open /\ spoken' = spoken => open')
    /\ UNCHANGED <<told, hints, code>>

\* The next final is that of the first utterance of which there was none.
TellFinal ==
    /\ code = 0 /\ Len(told) < spoken
    /\ told' = Append(told, <<Len(told) + 1, Len(told) + 1>>)
    /\ UNCHANGED <<spoken, open, hints, code>>

\* A partial is of the open utterance, and comes when all finals are there.
TellPartial ==
    /\ code = 0 /\ open /\ Len(told) = spoken
    /\ hints' = hints + 1
    /\ UNCHANGED <<spoken, open, told, code>>

\* Who is refused has been told nothing; who is closed normally, everything.
CloseFeed(c) ==
    /\ code = 0 /\ code' = c
    /\ c = 1000 => ~open /\ Len(told) = spoken
    /\ c = 1008 => spoken = 0 /\ ~open /\ hints = 0
    /\ UNCHANGED <<spoken, open, told, hints>>

FeedNext == Hear \/ TellFinal \/ TellPartial \/ \E c \in {1000, 1008, 1011} : CloseFeed(c)

FeedSpec == FeedInit /\ [][FeedNext]_feedVars
=============================================================================
