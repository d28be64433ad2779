----------------------------- MODULE Redaction -----------------------------
(***************************************************************************)
(* redaction/pii.py: the patterns, the order they are applied in, the two  *)
(* validations and the masks.                                              *)
(*                                                                         *)
(* A text is a sequence of items: groups of digits, words, and identifiers *)
(* that are one word.  Of an item are known its kind; n, its digits (1 for *)
(* an e-mail); shown, how many of them can still be read, the last ones;   *)
(* sep, what follows it; pii and id, which identifier it is a part of.  Of *)
(* the runs of groups only the cards pass the Luhn check, and no group of  *)
(* four digits begins with 0 or 1.                                         *)
(*                                                                         *)
(* The words of _CURRENCY_WORDS are left out: _is_phone looks for one that *)
(* ends where the number begins, and there the pattern does not match.     *)
(***************************************************************************)
EXTENDS Integers, Sequences, SequencesExt, FiniteSetsExt

Order == <<"card", "aadhaar", "ssn", "pan", "ifsc", "account", "phone", "email">>

\* Groups of digits none of which is masked.
Whole(t, i, j) == \A k \in i..j : t[k].kind = "number" /\ t[k].shown = t[k].n

Seps(t, i, j) == {t[k].sep : k \in i..(j - 1)}

Digits(t, i, j) == MapThenSumSet(LAMBDA k : t[k].n, i..j)

Chars(t, i, j) ==
    Digits(t, i, j)
      + MapThenSumSet(LAMBDA k : IF t[k].sep = ". " THEN 2 ELSE 1, i..(j - 1))

\* A phone number may have a country code before its 6 to 18 characters.
CountryCode(t, i, j) ==
    IF t[i].n > 3 THEN 3
    ELSE IF i < j /\ t[i].sep = ". " THEN t[i].n - 1 ELSE t[i].n + 1

\* The digits that end an IFSC code may begin a card number.
Matches(pii, t, i, j) ==
    \/ /\ pii = "card" /\ Whole(t, IF t[i].kind = "ifsc" THEN i + 1 ELSE i, j)
       /\ Seps(t, i, j) \subseteq {" ", "-"} /\ Digits(t, i, j) \in 13..19
    \/ /\ pii = "aadhaar" /\ Whole(t, i, j) /\ Seps(t, i, j) = {" "}
       /\ j = i + 2 /\ \A k \in i..j : t[k].n = 4
    \/ /\ pii = "ssn" /\ Whole(t, i, j) /\ Seps(t, i, j) = {"-"}
       /\ j = i + 2 /\ t[i].n = 3 /\ t[i + 1].n = 2 /\ t[j].n = 4
    \/ pii = "account" /\ Whole(t, i, j) /\ i = j /\ t[i].n \in 9..18
    \/ /\ pii = "phone" /\ Whole(t, i, j)
       /\ Chars(t, i, j) \in 6..(18 + CountryCode(t, i, j))
    \/ pii \in {"pan", "ifsc", "email"} /\ i = j /\ t[i].kind = pii

\* Mutant: the wrong digits are doubled.
LuhnWrongParity(t, i, j) == FALSE

Luhn(t, i, j) ==
    t[i].pii = "card" /\ i..j = {k \in DOMAIN t : t[k].pii = "card" /\ t[k].id = t[i].id}

\* A number with decimals is no phone number.
IsPhone(t, i, j) == Digits(t, i, j) \in 7..15 /\ "." \notin Seps(t, i, j)

Accepts(pii, t, i, j) ==
    (pii = "card" => Luhn(t, i, j)) /\ (pii = "phone" => IsPhone(t, i, j))

\* Mutant: a match takes the character after it, too, so that the one that begins
\* there is not found.
WindowsApart(pii, t) ==
    LET from[i \in 1..(Len(t) + 2)] ==
          LET ends == {j \in i..Len(t) : Matches(pii, t, i, j)}
          IN  IF i > Len(t) THEN {}
              ELSE IF ends = {} THEN from[i + 1]
              ELSE {<<i, Max(ends)>>} \cup from[Max(ends) + 2]
    IN  from[1]

\* re.sub: the leftmost match, the longest from there, and on from its end,
\* whether it is accepted or not.
Windows(pii, t) ==
    LET from[i \in 1..(Len(t) + 1)] ==
          LET ends == {j \in i..Len(t) : Matches(pii, t, i, j)}
          IN  IF i > Len(t) THEN {}
              ELSE IF ends = {} THEN from[i + 1]
              ELSE {<<i, Max(ends)>>} \cup from[Max(ends) + 1]
    IN  from[1]

\* How much of item k can be read when i..j is masked: the last mask_keep_last
\* digits, or none if there are no more than that.
Mask(policy, t, i, j, k) ==
    LET visible == policy.keep - Digits(t, k + 1, j)
    IN  IF policy.mode = "redact" \/ t[i].kind = "email" \/ Digits(t, i, j) <= policy.keep
        THEN 0 ELSE Max({0, Min({visible, t[k].n})})

Apply(policy, t, pii) ==
    LET found == {w \in Windows(pii, t) : Accepts(pii, t, w[1], w[2])}
    IN  [k \in DOMAIN t |->
           LET here == {w \in found : k \in w[1]..w[2]}
           IN  IF here = {} THEN t[k]
               ELSE LET w == CHOOSE w \in here : TRUE
                    IN  [t[k] EXCEPT !.shown = Mask(policy, t, w[1], w[2], k)]]

Redact(policy, t) ==
    IF policy.mode = "none" THEN t
    ELSE FoldLeft(LAMBDA work, pii :
                    IF pii \in policy.enabled THEN Apply(policy, work, pii) ELSE work,
                  t, Order)
=============================================================================
