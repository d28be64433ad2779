----------------------------- MODULE Transcript -----------------------------
(***************************************************************************)
(* What becomes of a text on its way through BatchPipeline.                *)
(*                                                                         *)
(* transcribe_sync: the words of the recogniser, with their times in ms,   *)
(* are grouped into rows (stt/whisper_engine.py); their text is cleaned    *)
(* and redacted and the rows are split into sentences                      *)
(* (stt/postprocess.py); the payload holds both.  synthesize_sync: the     *)
(* text is redacted and masked runs are replaced (tts/textnorm.py); what   *)
(* becomes of the other numbers is left out.                               *)
(*                                                                         *)
(* An item of Redaction has here two more fields: dur, the time it takes,  *)
(* and pause, the silence after it.  sep ". " ends a sentence.             *)
(***************************************************************************)
EXTENDS Redaction

CONSTANTS
    Texts,     \* the texts as they are heard or typed
    Policies,  \* [mode, keep, enabled]
    RawCuts    \* the words a recogniser's own segments begin with

Items == [kind : {"number", "word", "pan", "ifsc", "email"}, n : Nat, shown : Nat,
          sep : {" ", "-", ".", ". "}, pii : {"none"} \cup {Order[i] : i \in DOMAIN Order},
          id : Nat, dur : Nat, pause : Nat]

\* Nothing is masked in what is heard or typed.
ASSUME TextsAssumption ==
    /\ Texts \subseteq Seq(Items)
    /\ \A t \in Texts : \A k \in DOMAIN t : t[k].shown = t[k].n

ASSUME PoliciesAssumption ==
    Policies \subseteq [mode : {"mask", "redact", "none"}, keep : Nat,
                        enabled : SUBSET {Order[i] : i \in DOMAIN Order}]

ASSUME RawCutsAssumption == RawCuts \subseteq SUBSET Nat

VARIABLES
    stage,     \* "new", "heard", "processed", "payload", "normalized"
    heard,     \* the text that was spoken
    policy,    \* redaction settings of the service
    redact,    \* the flag of the request
    segments,  \* of the result, then of the payload
    text,      \* of the payload, or what is synthesized
    redacted   \* the flag of the payload

vars == <<stage, heard, policy, redact, segments, text, redacted>>

Init ==
    /\ stage = "new"
    /\ heard \in Texts /\ policy \in Policies /\ redact \in BOOLEAN
    /\ segments = <<>> /\ text = heard /\ redacted = FALSE

Start(i) == MapThenSumSet(LAMBDA k : heard[k].dur + heard[k].pause, 1..(i - 1))
End(i) == Start(i) + heard[i].dur

-----------------------------------------------------------------------------
(* _group_word_segments *)

Boundary(i) ==
    heard[i].pause > 250 \/ (heard[i].sep = ". " /\ heard[i].pause > 120)

\* Rows hold the indices of their words; their times are fractions over den.
Row(words) ==
    [words |-> words, start |-> Start(words[1]), end |-> End(words[Len(words)]), den |-> 1]

\* Mutant: the word before the pause begins the next row, too.
GroupWordsTwice ==
    LET all == FoldLeftDomain(
                 LAMBDA rows, i :
                   IF i = 1 \/ Boundary(i - 1)
                   THEN Append(rows, IF i = 1 THEN <<i>> ELSE <<i - 1, i>>)
                   ELSE [rows EXCEPT ![Len(rows)] = Append(@, i)], <<>>, heard)
    IN  [r \in DOMAIN all |-> Row(all[r])]

RowsAt(cut) ==
    LET all == FoldLeftDomain(
                 LAMBDA rows, i :
                   IF i = 1 \/ i \in cut THEN Append(rows, <<i>>)
                   ELSE [rows EXCEPT ![Len(rows)] = Append(@, i)], <<>>, heard)
    IN  [r \in DOMAIN all |-> Row(all[r])]

GroupWords == RowsAt({i \in DOMAIN heard : i > 1 /\ Boundary(i - 1)})

-----------------------------------------------------------------------------
(* refine_segments *)

\* The characters of some words, with a full stop and without the blank after.
Width(words) ==
    MapThenSumSet(LAMBDA k : heard[k].n + (IF heard[k].sep = ". " THEN 2 ELSE 1),
                  {words[k] : k \in DOMAIN words}) - 1

Sentences(words) ==
    FoldLeftDomain(
        LAMBDA rows, i :
          IF i = 1 \/ heard[words[i - 1]].sep = ". " THEN Append(rows, <<words[i]>>)
          ELSE [rows EXCEPT ![Len(rows)] = Append(@, words[i])], <<>>, words)

\* The times are interpolated by characters; the last sentence ends with the
\* segment, and a segment of no length is taken to last a millisecond.
Refine(seg) ==
    LET parts == Sentences(seg.words)
        den == Width(seg.words)
        span == Max({seg.end - seg.start, 1})
        before(p) == MapThenSumSet(LAMBDA q : Width(parts[q]) + 1, 1..(p - 1))
    IN  IF Len(parts) <= 1 THEN <<seg>>
        ELSE [p \in DOMAIN parts |->
                [words |-> parts[p], den |-> den,
                 start |-> seg.start * den + span * before(p),
                 end |-> IF p = Len(parts) THEN seg.end * den
                         ELSE seg.start * den + span * (before(p) + Width(parts[p]))]]

-----------------------------------------------------------------------------
(* clean_text *)

\* fix_spacing puts a blank after a point that a letter or a digit follows: a
\* number with decimals becomes two, and an e-mail words.
Clean(t) ==
    [k \in DOMAIN t |->
       [t[k] EXCEPT !.sep = IF @ = "." THEN ". " ELSE @,
                    !.kind = IF @ = "email" THEN "word" ELSE @]]

-----------------------------------------------------------------------------
(* _MASKED_RUN *)

\* Mutant: a run is of Xs and blanks only.
RunsOverMasked(t, i, k) == \A m \in i..k : t[m].kind = "number" /\ t[m].shown = 0

RunsOver(t, i, k) == \A m \in i..k : t[m].kind = "number"

\* A run begins with a number that is masked, and takes what follows it, digits
\* too, up to a word or a point.
Swallowed(t) ==
    {k \in DOMAIN t :
       \E i \in 1..k :
         /\ t[i].kind = "number" /\ t[i].shown < t[i].n
         /\ Seps(t, i, k) \subseteq {" ", "-"} /\ RunsOver(t, i, k)}

-----------------------------------------------------------------------------
(* The two paths *)

\* Without times of two words at least, the segments stay as the recogniser made
\* them: where they begin is its choice.
Transcribe ==
    /\ stage = "new" /\ stage' = "heard"
    /\ segments' = GroupWords \/ \E cut \in RawCuts : segments' = RowsAt(cut)
    /\ UNCHANGED <<heard, policy, redact, text, redacted>>

\* process: without the flag the text is neither cleaned nor redacted.
Process ==
    /\ stage = "heard" /\ stage' = "processed"
    /\ text' = IF redact THEN Redact(policy, Clean(heard)) ELSE heard
    /\ redacted' = (redact /\ \E k \in DOMAIN heard : text'[k].shown < heard[k].shown)
    /\ UNCHANGED <<heard, policy, redact, segments>>

Payload ==
    /\ stage = "processed" /\ stage' = "payload"
    /\ segments' = FlattenSeq([s \in DOMAIN segments |-> Refine(segments[s])])
    /\ UNCHANGED <<heard, policy, redact, text, redacted>>

\* normalize, of a text that is typed.
Normalize ==
    /\ stage = "new" /\ stage' = "normalized"
    /\ text' = Redact(policy, heard)
    /\ redacted' = (\E k \in DOMAIN heard : text'[k].shown < heard[k].shown)
    /\ UNCHANGED <<heard, policy, redact, segments>>

Next == Transcribe \/ Process \/ Payload \/ Normalize

Spec == Init /\ [][Next]_vars

-----------------------------------------------------------------------------
\* Every word is in one row, in the order it was said; a row ends after it
\* begins, and after the one before it, to a millisecond.
RowsInOrder ==
    segments # <<>> =>
        /\ FlattenSeq([s \in DOMAIN segments |-> segments[s].words]) = [k \in DOMAIN heard |-> k]
        /\ \A s \in DOMAIN segments : segments[s].end + segments[s].den >= segments[s].start
        /\ \A s \in 1..(Len(segments) - 1) :
             LET a == segments[s]  b == segments[s + 1]
             IN  a.end * b.den <= (b.start + b.den) * a.den

\* The identifiers of a text, those that stand beside another number, and those
\* the policy is to mask.
Of(t, id) == {k \in DOMAIN t : t[k].id = id}

Identifiers == {heard[k].id : k \in {i \in DOMAIN heard : heard[i].pii # "none"}}

Beside(id) ==
    \E k \in DOMAIN heard, m \in Of(heard, id) :
        heard[k].id # id /\ heard[k].kind \in {"number", "ifsc"} /\ k \in {m - 1, m + 1}

Wanted(id) ==
    policy.mode # "none" /\ \A k \in Of(heard, id) : heard[k].pii \in policy.enabled

Legible(t, id) == MapThenSumSet(LAMBDA k : t[k].shown, Of(t, id))

Allowed == IF policy.mode = "redact" THEN 0 ELSE policy.keep

\* Of an identifier that stands alone no more than mask_keep_last digits are left
\* in the text of a transcript, whichever the other patterns make of it first;
\* and the payload says so.  An e-mail is not meant: cleaning takes it apart.
AloneMasked ==
    stage \in {"processed", "payload"} /\ redact =>
        \A id \in Identifiers :
            Wanted(id) /\ ~Beside(id) /\ (\A k \in Of(heard, id) : heard[k].pii # "email") =>
                Legible(text, id) <= Allowed /\ redacted

\* Of such an identifier nothing that is a number is spoken, the digits that the
\* mask leaves included.
MaskedNeverSpoken ==
    stage = "normalized" =>
        \A id \in Identifiers :
            Wanted(id) /\ ~Beside(id) =>
                \A k \in Of(heard, id) :
                    heard[k].kind = "number" => text[k].shown = 0 \/ k \in Swallowed(text)

\* Redaction runs on this text.
Masking ==
    /\ policy.mode # "none"
    /\ stage = "normalized" \/ (stage \in {"processed", "payload"} /\ redact)

\* The text keeps its pieces, and each is as it was heard or shows no more than
\* mask_keep_last digits: no pattern brings back what an earlier one has masked.
OnlyHidden ==
    /\ DOMAIN text = DOMAIN heard
    /\ \A k \in DOMAIN heard :
         /\ text[k].n = heard[k].n /\ text[k].id = heard[k].id
         /\ text[k].shown <= heard[k].shown
         /\ text[k].shown = heard[k].shown \/ (Masking /\ text[k].shown <= Allowed)

\* A piece that is to be masked by itself: a PAN, an IFSC code, or a number as long
\* as an account's.
OnePiece(k) ==
    \/ heard[k].kind \in {"pan", "ifsc"} /\ heard[k].kind \in policy.enabled
    \/ heard[k].kind = "number" /\ heard[k].n \in 9..18 /\ "account" \in policy.enabled

\* Of such a piece no more than mask_keep_last digits are left, whatever stands
\* beside it and whichever pattern has taken it first; a number of which some
\* are hidden is not spoken.
PiecesMasked ==
    Masking =>
        \A k \in DOMAIN heard :
            OnePiece(k) =>
                /\ text[k].shown <= Allowed
                /\ heard[k].kind = "number" /\ heard[k].n > Allowed => k \in Swallowed(text)

\* Eight patterns, each on what the ones before have left, whatever they match.
RedactionHides == OnlyHidden /\ PiecesMasked

\* "transcripts leaving the platform are clean of sensitive identifiers": of one
\* that is to be masked no more than mask_keep_last digits are left in the text
\* and in the segments.  It does not hold of the segments, which are not redacted;
\* nor of the text, where an e-mail is taken apart before it is looked for, and
\* where a number beside a card hides it from its pattern.
PayloadMasked ==
    stage = "payload" /\ redact =>
        \A id \in Identifiers :
            Wanted(id) => /\ Legible(text, id) <= Allowed
                          /\ Legible(heard, id) <= Allowed \/ segments = <<>>
=============================================================================
