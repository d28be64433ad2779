---------------------------- MODULE MCTranscript ----------------------------
EXTENDS Transcript

\* The phrases texts are made of: groups of digits, joined by seps, or a word.
Item(kind, n, sep) == [kind |-> kind, n |-> n, shown |-> n, sep |-> sep,
                       pii |-> "none", id |-> 0, dur |-> 200, pause |-> 0]
Number(pii, groups, sep) ==
    [g \in DOMAIN groups |->
       [Item("number", groups[g], IF g = Len(groups) THEN " " ELSE sep) EXCEPT !.pii = pii]]
One(pii, n) == <<[Item(pii, n, " ") EXCEPT !.pii = pii]>>

Word == <<Item("word", 0, " ")>>
LastWord == <<Item("word", 0, ". ")>>

Phrases ==
    {Number("card", <<4, 4, 4, 4>>, " "), Number("card", <<4, 4, 4, 4>>, "-"),
     Number("card", <<16>>, " "), Number("aadhaar", <<4, 4, 4>>, " "),
     Number("ssn", <<3, 2, 4>>, "-"), Number("account", <<12>>, " "),
     Number("phone", <<5, 5>>, " "), Number("phone", <<3, 3, 4>>, "-"),
     One("pan", 4), One("ifsc", 7), One("email", 1),
     Number("none", <<2>>, " "), Number("none", <<4>>, " "), Number("none", <<8>>, " "),
     Number("none", <<5, 2>>, "."), Word, LastWord}

\* Phrases in a row, each with a number of its own.
Marked(p, id) ==
    [k \in DOMAIN p |-> [p[k] EXCEPT !.id = id]]

Said == {Marked(a, 1) \o Marked(b, 2) \o Marked(c, 3) : a, b, c \in Phrases}

\* Words with every pause, in a text that takes time or none.
Timed ==
    {[k \in 1..4 |-> [Item("word", 0, s[k]) EXCEPT !.dur = d, !.pause = p[k]]] :
       s \in [1..4 -> {" ", ". "}], p \in [1..4 -> {0, 200, 300}], d \in {0, 200}}

MCTexts == Said \cup Timed \cup Phrases

All == {Order[i] : i \in DOMAIN Order}

\* One segment, or a second from the third word on.
MCRawCuts == {{}, {3}}

MCPolicies ==
    {[mode |-> "mask", keep |-> 4, enabled |-> All],
     [mode |-> "redact", keep |-> 4, enabled |-> All],
     [mode |-> "mask", keep |-> 2, enabled |-> All \ {"phone", "email"}],
     [mode |-> "none", keep |-> 4, enabled |-> All]}
=============================================================================
