------------------------------ MODULE Frontend ------------------------------
(***************************************************************************)
(* One request through the HTTP frontend (ServeHTTP of src/server/http.go):  *)
(* its target is checked, ResolveFor (module Resolver) picks a mount for its *)
(* normalised path (module Paths), the policies are asked about the target,  *)
(* the target becomes a backend resource, and the connector's answer a       *)
(* status.  explain.Evaluate (src/explain/explain.go), which promises to     *)
(* tell what the frontend does, is given beside it.                          *)
(*                                                                          *)
(* Policies are known by what they permit (module Policy says how they come  *)
(* to it), connectors by their answers, the client's address by whether it   *)
(* can be told.                                                              *)
(***************************************************************************)
EXTENDS Resolver, Paths

CONSTANTS
  Cases,      \* [mounts, permits, client]: a configuration, what its policies permit
              \* (pairs of destination and method), and what the client sends:
              \* [raw, source, odd, address, method, size, query, server]
  MaxStore    \* maxStoreBodyBytes

VARIABLES
  client,     \* the request as it came
  permits,    \* what the policies permit
  stage,      \* "start", "resolve", "policy", "backend" or "responded"
  resource,   \* the backend resource asked for, in a sequence of one
  status      \* the status of the response; 0 before

frontend == <<client, permits, stage, resource, status>>
frontVars == <<vars, frontend>>

\* mount.Request as ServeHTTP and as explain make it of the client's request: explain
\* is given a path (--path), which no parser of URLs sees, or an absolute URL (--url).
Normal(raw) == LET n == NormalizePath(raw) IN IF n = <<>> THEN Unsafe ELSE n[1]
ServedRequest(c) == [path |-> Normal(EscapedPath(c.raw)), source |-> c.source, server |-> c.server]
ExplainedPath(c) ==
  CASE c.source = None -> c.raw
    [] c.source # None /\ c.raw = <<>> -> <<"/">>
    [] OTHER -> EscapedPath(c.raw)

\* Seeded fault: explain forgets the authority of an absolute URL.
ExplainedWithoutAuthority(c) == [path |-> Normal(ExplainedPath(c)), source |-> None, server |-> c.server]

ExplainedRequest(c) == [path |-> Normal(ExplainedPath(c)), source |-> c.source, server |-> c.server]

Pattern(m) == IF m.wild THEN Append(m.stem, "*") ELSE m.stem

\* Mount.Validate on the pattern and the target.
ValidateSyntax(m) ==
  /\ m.stem # <<>> /\ m.stem[1] = "/" /\ ~Mentions(m.stem, {"*"})
  /\ m.source # None => ~Mentions(m.stem, {"%"}) /\ NormalizePath(Pattern(m)) = <<Pattern(m)>>
  /\ m.target # <<>> /\ urlParse(m.target).ok

\* The lists and the requests of Resolver are those of the cases; a path is text;
\* userinfo is a part of absolute URLs.
ASSUME FrontendAssumption ==
  /\ {c.mounts : c \in Cases} \subseteq MountLists
  /\ {ServedRequest(c.client) : c \in Cases} \subseteq Requests
  /\ \A c \in Cases : c.client.raw \in Seq(STRING)
  /\ \A c \in Cases : c.client.odd => c.client.source # None

FrontInit ==
  /\ \E c \in Cases : client = c.client /\ mounts = c.mounts /\ permits = c.permits
  /\ \A k \in DOMAIN mounts : ValidateSyntax(mounts[k])
  /\ Validate(mounts)
  /\ request = ServedRequest(client)
  /\ pc = "normalize" /\ i = 1 /\ winner = 0 /\ ambiguous = FALSE /\ result = Outcome("none")
  /\ stage = "start" /\ resource = <<>> /\ status = 0

Respond(code) == stage' = "responded" /\ status' = code

\* net/http refuses a target it cannot parse, ServeHTTP an absolute one with
\* userinfo.  Its test for a fragment never holds: url.ParseRequestURI splits off
\* none, a "#" is a character of the path.
BadTarget == client.odd \/ ~ValidEscapes(client.raw)

RefuseTarget ==
  /\ stage = "start" /\ BadTarget
  /\ Respond(400)
  /\ UNCHANGED <<vars, client, permits, resource>>

Begin ==
  /\ stage = "start" /\ ~BadTarget
  /\ stage' = "resolve"
  /\ UNCHANGED <<vars, client, permits, resource, status>>

ResolveFor ==
  /\ stage = "resolve"
  /\ Normalize \/ Skip \/ Take \/ Keep \/ Finish
  /\ UNCHANGED frontend

ResolveFails ==
  /\ stage = "resolve" /\ pc = "done" /\ result.kind # "match"
  /\ Respond(CASE result.kind = "noMatch" -> 404 [] result.kind = "unsafe" -> 400 [] OTHER -> 500)
  /\ UNCHANGED <<vars, client, permits, resource>>

Resolved ==
  /\ stage = "resolve" /\ pc = "done" /\ result.kind = "match"
  /\ IF client.address THEN stage' = "policy" /\ UNCHANGED status ELSE Respond(400)
  /\ UNCHANGED <<vars, client, permits, resource>>

\* Seeded fault: the destination is that of the mount's first target.
targetHostnameOfMount(target) == mounts[1].target[1]

NoHost == ""

targetHostname(target) == IF urlParse(target).ok THEN urlParse(target).host ELSE NoHost

Judged(target) == [destination |-> targetHostname(target), method |-> client.method]

Authorise ==
  /\ stage = "policy"
  /\ IF Judged(result.target) \in permits
       THEN stage' = "backend" /\ UNCHANGED status ELSE Respond(403)
  /\ UNCHANGED <<vars, client, permits, resource>>

\* The queries of target and client, one behind the other.
backendResource(target, query) ==
  LET parsed == urlParse(target)
  IN  IF query = <<>> THEN parsed
      ELSE IF parsed.query = <<>> THEN [parsed EXCEPT !.query = query]
      ELSE [parsed EXCEPT !.query = @ \o <<"&">> \o query]

\* The target cannot be parsed, or the store is declared too large: the connector
\* is not asked.
NotAsked ==
  /\ stage = "backend" /\ resource = <<>>
  /\ \/ ~urlParse(result.target).ok /\ Respond(502)
     \/ /\ urlParse(result.target).ok
        /\ client.method = "PUT" /\ client.size > MaxStore
        /\ Respond(413)
  /\ UNCHANGED <<vars, client, permits, resource>>

Ask ==
  /\ stage = "backend" /\ resource = <<>>
  /\ urlParse(result.target).ok
  /\ client.method = "PUT" => client.size <= MaxStore
  /\ resource' = <<backendResource(result.target, client.query)>>
  /\ UNCHANGED <<vars, client, permits, stage, status>>

\* A status of an HTTP backend is passed on within bounds only.
resultHTTPStatus(answer) ==
  CASE answer.outcome = "passthrough" /\ answer.status \in 200..599 -> answer.status
    [] answer.outcome = "success" -> IF client.method = "PUT" THEN 204 ELSE 200
    [] answer.outcome = "notFound" -> 404
    [] answer.outcome = "permissionDenied" -> 403
    [] OTHER -> 502

Answers ==
  [outcome : {"passthrough"}, status : {100, 200, 599, 600}]
    \cup [outcome : {"success", "notFound", "permissionDenied", "upstreamFailure"}, status : {0}]

\* The connector's answer, or its error: it has no such operation (no connector
\* lacks GET; a store is only ever a PUT), or a body without a declared size turned
\* out too large, or anything else.
Answered ==
  /\ stage = "backend" /\ resource # <<>>
  /\ \/ \E answer \in Answers : Respond(resultHTTPStatus(answer))
     \/ client.method \notin {"GET", "PUT"} /\ Respond(405)
     \/ client.method = "PUT" /\ client.size < 0 /\ Respond(413)
     \/ Respond(502)
  /\ UNCHANGED <<vars, client, permits, resource>>

Responded == stage = "responded" /\ UNCHANGED frontVars

FrontNext ==
  \/ RefuseTarget \/ Begin \/ ResolveFor \/ ResolveFails \/ Resolved
  \/ Authorise \/ NotAsked \/ Ask \/ Answered
  \/ Responded

FrontSpec == FrontInit /\ [][FrontNext]_frontVars

-----------------------------------------------------------------------------
(***************************************************************************)
(* explain.Evaluate.  It calls ResolveFor and Evaluate on inputs of its own  *)
(* making; what ResolveFor returns is here its meaning, the best mount.      *)
(***************************************************************************)
Best(r) ==
  LET fits == {k \in DOMAIN mounts : Applies(mounts[k], r)}
  IN  {k \in fits : \A j \in fits : ~Beats(mounts[j], mounts[k])}

Evaluate ==
  LET r == ExplainedRequest(client)
      best == Best(r)
      target == Target(mounts[CHOOSE k \in best : TRUE], r.path)
  IN  IF client.source # None /\ BadTarget THEN "error"
      ELSE IF r.path = Unsafe THEN "unsafe_path"
      ELSE IF best = {} THEN "no_mount"
      ELSE IF \A k \in best : best # {k} THEN "ambiguous_mount"
      ELSE IF ~urlParse(target).ok THEN "error"
      ELSE IF Judged(target) \in permits THEN "permit" ELSE "reject"

-----------------------------------------------------------------------------
(***************************************************************************)
(* Properties.                                                              *)
(***************************************************************************)

\* f meets the segments of s from left to right.
InOrder(s, f) == \A g, h \in Segments(s) : g[1] < h[1] => f[g][1] < f[h][1]

\* The one text whose structure changes on its way: net/url escapes it anew, as it
\* holds a character that must not stand in a path, and so turns its encoded
\* separators into plain ones before NormalizePath looks for them.
SeparatorUncovered(raw) == ~ValidEncoding(raw) /\ hasEncodedSeparator(raw)

\* Decoding never makes structure: the segments of a path that passes are the
\* decoded segments of the client's text, one for one and in their order, but for
\* empty ones, also when net/url has escaped that text anew (of an encoded separator
\* uncovered by this EncodedSeparatorRefused speaks); no segment is a dot segment,
\* and no escape is left to decode a second time.
PathKeepsItsSegments ==
  request.path # Unsafe =>
    /\ ~SeparatorUncovered(client.raw) =>
         \E f \in [Segments(client.raw) -> Segments(request.path)] :
           /\ \A g \in Segments(client.raw) : Text(request.path, f[g]) = PathUnescape(Text(client.raw, g))
           /\ InOrder(client.raw, f)
           /\ \A h \in Segments(request.path) : \E g \in Segments(client.raw) : f[g] = h
    /\ ~DotSegments(request.path)
    /\ ~containsPercentEscape(request.path)

\* "Request paths are decoded once ... encoded separators ... fail closed"
\* (src/CURRENT-STATE.md:123): no request with one in its path is served.
EncodedSeparatorRefused ==
  stage = "responded" /\ hasEncodedSeparator(client.raw) => resource = <<>> /\ status = 400

\* "accepted paths are tested for idempotence" (src/CURRENT-STATE.md:126): what
\* NormalizePath returns it takes and returns again (src/mount/path_fuzz_test.go:14),
\* unless a decoded "%" is left in it, and only then not.
NormalizesAgain ==
  request.path # Unsafe =>
    (NormalizePath(request.path) = <<request.path>> <=> ~Mentions(request.path, {"%"}))

\* The backend asked is the one the policies permitted, by the mount ResolveFor
\* chose, although destination and resource are parsed from the target one by
\* one; an unparsable target, judged as an empty destination, reaches none.
BackendIsAuthorised ==
  resource # <<>> =>
    /\ [destination |-> resource[1].host, method |-> client.method] \in permits
    /\ result.kind = "match" /\ client.address
    /\ resource[1].host = mounts[result.mount].target[1]

\* explain tells what the frontend does, but for three inputs it treats otherwise:
\* an absolute URL without a path, a path (--path) with an encoded separator that
\* net/url would uncover, and a target that cannot be parsed.
ExplainAgrees ==
  stage = "responded" /\ client.address /\ client.raw # <<>>
    /\ ~(client.source = None /\ SeparatorUncovered(client.raw)) =>
    CASE Evaluate = "permit" -> resource # <<>> \/ status = 413
      [] Evaluate = "reject" -> status = 403
      [] Evaluate = "no_mount" -> status = 404
      [] Evaluate = "ambiguous_mount" -> status = 500
      [] Evaluate = "unsafe_path" -> status = 400
      [] Evaluate = "error" -> resource = <<>> /\ status \in {400, 403, 502}
=============================================================================
