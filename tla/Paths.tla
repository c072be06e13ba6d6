------------------------------- MODULE Paths --------------------------------
(***************************************************************************)
(* mount.NormalizePath (src/mount/path.go) over paths that are sequences of  *)
(* characters, and net/url as the frontend uses it on the targets of         *)
(* requests and of mounts.  HexDigits is what escapes are made of here,      *)
(* decodeHexByte what each pair of them stands for: "bad" is a byte that is  *)
(* no UTF-8 text, "ctl" a control character or a backslash, "^" one of the   *)
(* characters that net/url writes as an escape in every path (^, a quote, <, *)
(* {, |, any that is not ASCII), "x" any other character without a meaning.  *)
(***************************************************************************)
EXTENDS Integers, Sequences

SeqExt == INSTANCE SequencesExt

\* Some element of the sequence is in the set.
Mentions(seq, set) == \E i \in DOMAIN seq : seq[i] \in set

HexDigits == {"0", "2", "3", "5", "E", "F"}

decodeHexByte(high, low) ==
  CASE <<high, low>> = <<"2", "F">> -> "/"
    [] <<high, low>> = <<"2", "E">> -> "."
    [] <<high, low>> = <<"2", "5">> -> "%"
    [] <<high, low>> = <<"2", "3">> -> "#"
    [] <<high, low>> = <<"3", "F">> -> "?"
    [] <<high, low>> = <<"5", "E">> -> "^"
    [] high = "3" /\ low \in {"0", "2", "3", "5"} -> low
    [] high = "0" -> "ctl"
    [] high \in {"E", "F"} -> "bad"
    [] OTHER -> "x"

IsEscape(s, i) == i + 2 <= Len(s) /\ s[i] = "%" /\ s[i + 1] \in HexDigits /\ s[i + 2] \in HexDigits

\* Seeded fault: encoded separators are not looked for.
noSeparatorCheck(raw) == FALSE

\* The loop goes three characters on after every "%", also when no escape begins
\* there.
hasEncodedSeparator(raw) ==
  LET From[i \in Nat \ {0}] ==
        /\ i + 2 <= Len(raw)
        /\ \/ raw[i] # "%" /\ From[i + 1]
           \/ raw[i] = "%" /\ \/ IsEscape(raw, i) /\ decodeHexByte(raw[i + 1], raw[i + 2]) = "/"
                              \/ From[i + 3]
  IN  From[1]

\* url.PathUnescape fails on a "%" that begins no escape (the digits of an escape
\* are no "%"); otherwise each "%" becomes a character, its two digits nothing.
ValidEscapes(s) == \A i \in DOMAIN s : s[i] = "%" => IsEscape(s, i)

Unescaped(s, i) ==
  IF s[i] = "%" THEN <<decodeHexByte(s[i + 1], s[i + 2])>>
  ELSE IF \E j \in DOMAIN s : j \in {i - 1, i - 2} /\ s[j] = "%" THEN <<>>
  ELSE <<s[i]>>

PathUnescape(s) == SeqExt!FlattenSeq([i \in DOMAIN s |-> Unescaped(s, i)])

\* URL.EscapedPath of a path that url.ParseRequestURI took: the text itself when it is
\* a valid encoding, else what it stands for, escaped anew.  A separator is no
\* character that escape escapes, so an encoded one is then a plain one.
ValidEncoding(s) == ~Mentions(s, {"^", "#", "?", "ctl", "bad"})

Escaped(c) ==
  CASE c = "%" -> <<"%", "2", "5">>
    [] c = "#" -> <<"%", "2", "3">>
    [] c = "?" -> <<"%", "3", "F">>
    [] c = "^" -> <<"%", "5", "E">>
    [] c = "ctl" -> <<"%", "0", "0">>
    [] c = "bad" -> <<"%", "F", "F">>
    [] OTHER -> <<c>>

EscapePath(s) == SeqExt!FlattenSeq([i \in DOMAIN s |-> Escaped(s[i])])

EscapedPath(s) == IF ValidEncoding(s) \/ ~ValidEscapes(s) THEN s ELSE EscapePath(PathUnescape(s))

containsPercentEscape(s) == \E i \in DOMAIN s : IsEscape(s, i)

\* The pieces between the separators, each by its first and its last place; empty
\* ones are left out.
Segments(s) ==
  {g \in (DOMAIN s) \X (DOMAIN s) :
     /\ g[1] <= g[2] /\ \A i \in g[1]..g[2] : s[i] # "/"
     /\ g[1] = 1 \/ s[g[1] - 1] = "/"
     /\ g[2] = Len(s) \/ s[g[2] + 1] = "/"}

Text(s, g) == SubSeq(s, g[1], g[2])

\* path.Clean of a path without dot segments, with its trailing slash put back:
\* runs of separators become one.
Cleaned(s, i) == IF i > 1 /\ s[i] = "/" /\ s[i - 1] = "/" THEN <<>> ELSE <<s[i]>>

CleanPath(s) == SeqExt!FlattenSeq([i \in DOMAIN s |-> Cleaned(s, i)])

Dots == {<<".">>, <<".", ".">>}

DotSegments(decoded) == \E g \in Segments(decoded) : Text(decoded, g) \in Dots

\* The normalised path in a sequence of one; none if the path is refused.
NormalizePath(raw) ==
  IF raw = <<>> \/ raw[1] # "/" \/ hasEncodedSeparator(raw) \/ ~ValidEscapes(raw) THEN <<>>
  ELSE LET decoded == PathUnescape(raw)
       IN  IF \/ Mentions(decoded, {"bad", "ctl"})
              \/ containsPercentEscape(decoded)
              \/ DotSegments(decoded)
           THEN <<>> ELSE <<CleanPath(decoded)>>

-----------------------------------------------------------------------------
(***************************************************************************)
(* url.Parse of a target, whose first character stands for scheme and host:  *)
(* a wildcard is taken to stand behind the host.  The path is what String    *)
(* writes of it; a fragment is not sent to a backend.                        *)
(***************************************************************************)
Before(s, c) == LET hits == {i \in DOMAIN s : s[i] = c}
                IN  IF hits = {} THEN s ELSE SubSeq(s, 1, (CHOOSE i \in hits : \A j \in hits : i <= j) - 1)
After(s, c) == SubSeq(s, Len(Before(s, c)) + 2, Len(s))

urlParse(target) ==
  LET whole == Before(target, "#")
      text == Tail(Before(whole, "?"))
  IN  [ok |-> ValidEscapes(text) /\ ValidEscapes(After(target, "#")),
       host |-> target[1], path |-> EscapedPath(text), query |-> After(whole, "?")]
=============================================================================
