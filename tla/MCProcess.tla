----------------------------- MODULE MCProcess ------------------------------
(***************************************************************************)
(* Process for TLC: command lines of up to three arguments of every kind, and *)
(* longer ones for explain.                                                   *)
(***************************************************************************)
EXTENDS Process

Words == {Word(t) : t \in {"version", "check", "serve", "explain", "f", " f", " ", "directive"}}
Inline(k, ts) == {[k |-> k, t |-> t, eq |-> TRUE] : t \in ts}
Addresses == {[k |-> "address", t |-> t, eq |-> FALSE, ok |-> ok] :
  t \in {"TCP-LISTEN", "tcp-listen", "TAILCAT-LISTEN", "TCP-CONNECT", "TAILCAT-CONNECT"}, ok \in BOOLEAN}

\* A request given whole, without a source, by a blank URL, with a flag that
\* swallows the next one; the configuration in both forms or by directives.
Explanations ==
  {<<Word("explain"), url>> \o conf \o source \o <<Flag("--method"), Word("f")>> :
     url \in Inline("--url", {"f", " "}) \cup {Flag("--path")},
     conf \in {<<Flag("--config"), Word("f")>>, <<Word("directive")>>} \cup {<<c>> : c \in Inline("--config", {"f"})},
     source \in {<<Flag("--source"), Word("f")>>, <<Flag("--source"), Word(" ")>>, <<>>}}

CommandLines ==
  SeqOf(Words \cup Inline("--config", {"f", " f", ""}) \cup {Flag("--config")}, 3)
    \cup SeqOf(Addresses, 2) \cup Explanations

ServerOrder == SetToSeq(Listeners)
=============================================================================
