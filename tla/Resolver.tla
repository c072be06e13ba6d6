------------------------------ MODULE Resolver ------------------------------
(***************************************************************************)
(* mount.ResolveFor (src/mount/resolve.go): the one pass over the mounts of *)
(* a configuration that picks the mapping of a request, over the lists that *)
(* config.Validate (src/config/config.go) lets through.                     *)
(*                                                                          *)
(* A path is a sequence of characters, a pattern its stem (the text before  *)
(* the "*") and whether it has the "*".  Source stands for the scheme and   *)
(* host of an absolute URL pattern, None for a path pattern; Any for a      *)
(* scope that is "" or "*".  request.path is what NormalizePath returns, or *)
(* Unsafe when it refuses the request's path.                               *)
(***************************************************************************)
EXTENDS Integers, Sequences

CONSTANTS
  Chars,           \* what paths are made of
  Sources,         \* scheme and authority of absolute URLs
  Servers,         \* names of the configured servers
  Protocols,
  ServerProtocol,  \* the protocol of each server
  None, Any, Unsafe,
  MountLists,      \* the lists of mounts a configuration may hold
  Requests

Mount == [stem : Seq(Chars), wild : BOOLEAN, source : Sources \cup {None},
          priority : Int, server : Servers \cup {Any}, protocol : Protocols \cup {Any},
          target : Seq(Chars), rewrite : BOOLEAN]

Request == [path : Seq(Chars) \cup {Unsafe}, source : Sources \cup {None}, server : Servers]

ASSUME ResolverAssumption ==
  /\ MountLists \subseteq Seq(Mount)
  /\ Requests \subseteq Request
  /\ ServerProtocol \in [Servers -> Protocols]
  /\ None \notin Sources
  /\ Any \notin Servers \cup Protocols
  /\ Unsafe \notin Seq(Chars)

\* Config.Validate on the mounts: each scope names a server and a protocol that
\* are there.  It looks at one mount at a time.
ValidateMount(m) ==
  m.protocol # Any =>
    \E s \in Servers : m.server \in {s, Any} /\ ServerProtocol[s] = m.protocol

Validate(ms) == \A k \in DOMAIN ms : ValidateMount(ms[k])

-----------------------------------------------------------------------------
(***************************************************************************)
(* How one mount fits a request.                                            *)
(***************************************************************************)
IsStem(stem, path) == Len(stem) <= Len(path) /\ SubSeq(path, 1, Len(stem)) = stem

matchScope(m, r) ==
  /\ m.server \in {Any, r.server}
  /\ m.protocol \in {Any, ServerProtocol[r.server]}

matchSource(m, r) == m.source \in {None, r.source}

matchPath(m, path) == IF m.wild THEN IsStem(m.stem, path) ELSE m.stem = path

Applies(m, r) == matchScope(m, r) /\ matchSource(m, r) /\ matchPath(m, r.path)

\* Seeded fault: an exact pattern counts no more than its length.
SpecificityByLength(m) == Len(m.stem)

Specificity(m) == Len(m.stem) + (IF m.wild THEN 0 ELSE 1)
Authority(m) == IF m.source = None THEN 0 ELSE 1
Scope(m) == (IF m.server = Any THEN 0 ELSE 1) + (IF m.protocol = Any THEN 0 ELSE 1)

Ties(m, w) ==
  /\ Specificity(m) = Specificity(w)
  /\ m.priority = w.priority
  /\ Authority(m) = Authority(w)
  /\ Scope(m) = Scope(w)

Beats(m, w) ==
  \/ Specificity(m) > Specificity(w)
  \/ /\ Specificity(m) = Specificity(w)
     /\ \/ m.priority > w.priority
        \/ /\ m.priority = w.priority
           /\ \/ Authority(m) > Authority(w)
              \/ Authority(m) = Authority(w) /\ Scope(m) > Scope(w)

\* The target the winner gives: a trailing "*" is replaced by what its own
\* pattern's "*" captured, which is nothing for an exact pattern.
Target(m, path) ==
  IF m.rewrite
    THEN m.target \o (IF m.wild THEN SubSeq(path, Len(m.stem) + 1, Len(path)) ELSE <<>>)
    ELSE m.target

-----------------------------------------------------------------------------
VARIABLES
  mounts,     \* the list resolved over
  request,
  pc,         \* "normalize", "loop" or "done"
  i,          \* the mount looked at
  winner,     \* index of the best mount so far; 0 while found is false
  ambiguous,
  result      \* [kind, mount, target]; kind is "none" until ResolveFor returns

vars == <<mounts, request, pc, i, winner, ambiguous, result>>

Outcome(kind) == [kind |-> kind, mount |-> 0, target |-> <<>>]
Kinds == {"none", "match", "noMatch", "ambiguous", "unsafe"}

\* Every step keeps the state well-formed; in particular the mount ResolveFor
\* reports is one of the list.
TypeOK ==
  /\ mounts \in MountLists
  /\ request \in Requests
  /\ pc \in {"normalize", "loop", "done"}
  /\ i \in 1..(Len(mounts) + 1)
  /\ winner \in 0..Len(mounts)
  /\ ambiguous \in BOOLEAN
  /\ result \in [kind : Kinds, mount : 0..Len(mounts), target : Seq(Chars)]

Init ==
  /\ mounts \in {ms \in MountLists : Validate(ms)}
  /\ request \in Requests
  /\ pc = "normalize"
  /\ i = 1
  /\ winner = 0
  /\ ambiguous = FALSE
  /\ result = Outcome("none")

Normalize ==
  /\ pc = "normalize"
  /\ \/ /\ request.path = Unsafe
        /\ pc' = "done"
        /\ result' = Outcome("unsafe")
     \/ /\ request.path # Unsafe
        /\ pc' = "loop"
        /\ UNCHANGED result
  /\ UNCHANGED <<mounts, request, i, winner, ambiguous>>

\* One iteration, by how the mount compares with the winner so far.
Look ==
  /\ pc = "loop"
  /\ i <= Len(mounts)
  /\ i' = i + 1
  /\ UNCHANGED <<mounts, request, pc, result>>

Skip ==
  /\ Look
  /\ ~Applies(mounts[i], request)
  /\ UNCHANGED <<winner, ambiguous>>

\* Seeded fault: a new winner inherits the ambiguity of the one it replaces.
TakeStaleAmbiguity ==
  /\ Look
  /\ Applies(mounts[i], request)
  /\ winner # 0 => Beats(mounts[i], mounts[winner])
  /\ winner' = i
  /\ UNCHANGED ambiguous

Take ==
  /\ Look
  /\ Applies(mounts[i], request)
  /\ winner # 0 => Beats(mounts[i], mounts[winner])
  /\ winner' = i
  /\ ambiguous' = FALSE

Keep ==
  /\ Look
  /\ Applies(mounts[i], request)
  /\ winner # 0 /\ ~Beats(mounts[i], mounts[winner])
  /\ ambiguous' = (ambiguous \/ Ties(mounts[i], mounts[winner]))
  /\ UNCHANGED winner

Finish ==
  /\ pc = "loop"
  /\ i > Len(mounts)
  /\ pc' = "done"
  /\ result' = IF winner = 0 THEN Outcome("noMatch")
               ELSE IF ambiguous THEN Outcome("ambiguous")
               ELSE [kind |-> "match", mount |-> winner,
                     target |-> Target(mounts[winner], request.path)]
  /\ UNCHANGED <<mounts, request, i, winner, ambiguous>>

Terminated == pc = "done" /\ UNCHANGED vars

Next == Normalize \/ Skip \/ Take \/ Keep \/ Finish \/ Terminated

Spec == Init /\ [][Next]_vars

-----------------------------------------------------------------------------
(***************************************************************************)
(* Properties.                                                              *)
(***************************************************************************)
Applicable == {k \in DOMAIN mounts : Applies(mounts[k], request)}

Undefeated ==
  {k \in Applicable : \A j \in Applicable : ~Beats(mounts[j], mounts[k])}

\* The one pass with its winner and flag computes what does not depend on the
\* order of the list: a match is the only applicable mount that no other beats,
\* and ErrAmbiguous means that there are several such mounts.
ResolvedIsUniqueBest ==
  pc = "done" /\ request.path # Unsafe =>
    /\ result.kind = "match" <=> Undefeated = {result.mount}
    /\ result.kind = "noMatch" <=> Applicable = {}
    /\ result.kind = "ambiguous" <=> Applicable # {} /\ \A k \in Applicable : Undefeated # {k}

SamePattern(m, w) == m.stem = w.stem /\ m.wild = w.wild

\* "Priority only breaks ties between equally specific patterns": a mount with
\* another pattern that applies as well is a prefix pattern that the winner's
\* pattern refines, whatever the priorities and scopes.
WinnerIsMostSpecific ==
  result.kind = "match" =>
    \A k \in Applicable :
      \/ SamePattern(mounts[k], mounts[result.mount])
      \/ /\ mounts[k].wild
         /\ IsStem(mounts[k].stem, mounts[result.mount].stem)
         /\ mounts[result.mount].wild => mounts[k].stem # mounts[result.mount].stem

\* What makes a request ambiguous can be read off the configuration, although
\* Config.Validate, which looks at one mount at a time, does not: two mounts
\* with one pattern, source, priority and number of scopes.  Patterns that only
\* happen to be equally long cannot tie on a request both apply to.
AmbiguityIsStatic ==
  result.kind = "ambiguous" =>
    \E k, j \in DOMAIN mounts :
      /\ k # j
      /\ SamePattern(mounts[k], mounts[j])
      /\ mounts[k].source = mounts[j].source
      /\ mounts[k].priority = mounts[j].priority
      /\ Scope(mounts[k]) = Scope(mounts[j])
=============================================================================
