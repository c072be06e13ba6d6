----------------------------- MODULE MCFraming ------------------------------
(***************************************************************************)
(* Framing for TLC: messages that are right, wrong in one place, cut short,  *)
(* at the limit and one byte past it, with and without bytes behind them.    *)
(***************************************************************************)
EXTENDS Framing

Cuts(s) == {SubSeq(s, 1, n) : n \in 0..Len(s)}

Greetings == {<<5, 2, 0, 2>>, <<5, 1, 2, 9, 9>>, <<5, 0, 0>>, <<4, 1, 0>>}

Domains == {<<97>>, <<97, Dot, 97>>, <<97, Dash>>, <<Dash, 97>>, <<97, Dash, Dot, 97>>, <<97, Dot>>,
            <<97, Dot, Dot, 97>>, <<97, SP>>}
Socks5Requests ==
  {<<5, 1, 0, 3, Len(d)>> \o d \o <<1, 187, 9>> : d \in Domains}
    \cup {<<5, 1, 0, 1, 127, 0, 0, 1, 0, 80, 9, 9>>, <<5, 1, 0, 1, 127, 0, 0, 1, 0, 0>>, <<5, 1, 0, 3, 0, 9>>,
          <<5, 1, 0, 4>> \o [i \in 1..16 |-> 0] \o <<0, 80>>, <<5, 2, 0, 1, 9>>, <<5, 1, 1, 1, 9>>, <<5, 1, 0, 2, 9>>}

\* Replies of one line and of several, as long as MaxReply and longer; a bare code
\* ends a reply of one line and not one of several.
Line(text) == text \o <<NL>>
FirstLines == {<<2, 2, 6>>, <<2, 2, 6, CR>>, <<2, 2, 6, SP, 97>>, <<2, 2, 6, Dash>>, <<9, 2, 6>>, <<2, 2>>, <<2, 2, 6, 97>>}
NextLines == {<<2, 2, 6, SP>>, <<2, 2, 6, SP, CR>>, <<2, 2, 6>>, <<97, SP>>, <<5, 5, 0, SP>>, <<>>, [i \in 1..MaxReply |-> 97]}
Dialogues == {Line(f) \o Line(g) \o Line(h) : f \in FirstLines, g, h \in NextLines}

Pairings == {[port |-> p, address |-> <<97>>] : p \in {7, 65535}}
PairingLines ==
  {Encode(p) : p \in Pairings}
    \cup {<<Prefix, Colon, 0, Colon, 97>>, <<Prefix, Colon, 6, 5, 5, 3, 6, Colon, 97>>, <<Prefix, Colon, 0, 7, Colon, 97>>,
          <<Prefix, Colon, 7, Colon, 97, CR>>, <<SP, Prefix, Colon, 7, Colon, 97>>, <<Prefix, Colon, 97>>, <<>>,
          <<Prefix, Colon, 7, Colon, 97, Colon, 97>>, [i \in 1..(MaxLine + 3) |-> 97]}

SomeInputs ==
  {[op |-> "ReadGreeting", stream |-> s] : s \in UNION {Cuts(g) : g \in Greetings}}
    \cup {[op |-> "ReadRequest", stream |-> s] : s \in UNION {Cuts(r) : r \in Socks5Requests}}
    \cup {[op |-> "ReadReply", stream |-> s] : s \in Dialogues \cup {<<2, 2, 6>>, <<2, 2, 6, Dash, NL, 97>>}}
    \cup {[op |-> "readPairingLine", stream |-> s] :
            s \in PairingLines \cup {Line(l) : l \in PairingLines} \cup {Line(l) \o <<97, 97>> : l \in PairingLines}}
    \cup {[op |-> "writeAll", stream |-> s] :
            s \in {WriteMethod(SelectNoAuth(<<2, 0>>)), WriteMethod(SelectNoAuth(<<2>>)), WriteReply(0), WriteReply(8)}}
=============================================================================
