-------------------------------- MODULE FTP ---------------------------------
(***************************************************************************)
(* One operation of the FTP connector (src/connector/ftp.go) under the HTTP  *)
(* handler that asked for it (ServeHTTP, src/server/http.go): the dialogue   *)
(* on the control connection, the data connection, the transfer body that    *)
(* outlives operate, and the cancellation of the request's context at any    *)
(* step (context.AfterFunc closes each connection from a goroutine of its    *)
(* own).                                                                     *)
(*                                                                          *)
(* A reply is its code; Broken stands for a reply that cannot be had: closed *)
(* connection, deadline, malformed or oversized.                             *)
(***************************************************************************)
EXTENDS Integers

CONSTANTS
  Codes,    \* the reply codes the server may send
  Broken

ASSUME CodesAssumption == Codes \subseteq 100..599 /\ Broken \notin Codes

Methods == {"RETR", "LIST", "STOR", "other"}

VARIABLES
  pc,             \* where the handler's goroutine is
  method,         \* the FTP command the request's method asks for
  ctx,            \* the request's context is cancelled
  control, data,  \* the two connections: "none", "open" or "closed"
  stopControl,    \* the AfterFunc of the control connection may still run
  stopData,       \* the AfterFunc of the data connection may still run
  transferOwned,  \* the transfer body owns the connections
  sent,           \* the whole request body went into the data connection
  ended,          \* the data connection was read up to EOF
  confirmed,      \* the completion reply was positive
  returned,         \* what operate returns: "none", "error" or an outcome
  told            \* what the client gets

conns == <<control, data, stopControl, stopData>>
facts == <<sent, ended, confirmed>>
transferVars == <<pc, method, ctx, control, data, stopControl, stopData, transferOwned, sent,
          ended, confirmed, returned, told>>

Steps == {"start", "dialControl", "greeting", "user", "pass", "type", "epsv", "pasv",
          "dialData", "command", "upload", "stored", "deferData", "deferControl",
          "respond", "copy", "completion", "close", "done"}
Outcomes == {"success", "not_found", "denied", "failure"}

\* Every step of the connector and of the handler keeps the state well-formed; in
\* particular ftpOutcome names an outcome for every reply code.
TransferTypeOK ==
  /\ pc \in Steps
  /\ method \in Methods
  /\ ctx \in BOOLEAN
  /\ control \in {"none", "open", "closed"}
  /\ data \in {"none", "open", "closed"}
  /\ stopControl \in BOOLEAN
  /\ stopData \in BOOLEAN
  /\ transferOwned \in BOOLEAN
  /\ sent \in BOOLEAN
  /\ ended \in BOOLEAN
  /\ confirmed \in BOOLEAN
  /\ returned \in {"none", "error", "unsupported"} \cup Outcomes
  /\ told \in {"nothing", "ok", "refused", "aborted"}

TransferInit ==
  /\ pc = "start"
  /\ method \in Methods
  /\ ctx = FALSE
  /\ control = "none"
  /\ data = "none"
  /\ stopControl = FALSE
  /\ stopData = FALSE
  /\ transferOwned = FALSE
  /\ sent = FALSE
  /\ ended = FALSE
  /\ confirmed = FALSE
  /\ returned = "none"
  /\ told = "nothing"

-----------------------------------------------------------------------------
(***************************************************************************)
(* The context.                                                             *)
(***************************************************************************)
Cancel ==
  /\ ~ctx
  /\ ctx' = TRUE
  /\ UNCHANGED <<pc, method, conns, transferOwned, facts, returned, told>>

CancelControl ==
  /\ ctx /\ stopControl
  /\ control' = "closed"
  /\ stopControl' = FALSE
  /\ UNCHANGED <<pc, method, ctx, data, stopData, transferOwned, facts, returned, told>>

CancelData ==
  /\ ctx /\ stopData
  /\ data' = "closed"
  /\ stopData' = FALSE
  /\ UNCHANGED <<pc, method, ctx, control, stopControl, transferOwned, facts, returned, told>>

-----------------------------------------------------------------------------
(***************************************************************************)
(* operate.  Every return runs the deferred calls, the data connection's    *)
(* first.                                                                   *)
(***************************************************************************)
Goto(from, to) == pc = from /\ pc' = to

Returns(from, what) == Goto(from, "deferData") /\ returned' = what

ftpOutcome(code) ==
  CASE code \in {530, 532} -> "denied"
    [] code = 550 -> "not_found"
    [] OTHER -> "failure"

\* FetchForMount, ListForMount or StoreForMount; only GET is fetched.
Start ==
  /\ \/ method = "other" /\ Returns("start", "unsupported")
     \/ method # "other" /\ Goto("start", "dialControl") /\ UNCHANGED returned
  /\ UNCHANGED <<method, ctx, conns, transferOwned, facts, told>>

DialControl ==
  /\ \/ Returns("dialControl", "error") /\ UNCHANGED conns
     \/ /\ Goto("dialControl", "greeting")
        /\ control' = "open"
        /\ stopControl' = TRUE
        /\ UNCHANGED <<data, stopData, returned>>
  /\ UNCHANGED <<method, ctx, transferOwned, facts, told>>

\* A command can be written only to an open connection; a reply may be in the
\* reader's buffer although the connection has been closed since.
Exchange == IF control = "open" THEN Codes \cup {Broken} ELSE {Broken}
Replies == Codes \cup {Broken}

Greeting ==
  /\ \E code \in Replies :
       IF code = Broken THEN Returns("greeting", "error")
       ELSE Goto("greeting", "user") /\ UNCHANGED returned
  /\ UNCHANGED <<method, ctx, conns, transferOwned, facts, told>>

User ==
  /\ \E code \in Exchange :
       CASE code = Broken -> Returns("user", "error")
         [] code = 331 -> Goto("user", "pass") /\ UNCHANGED returned
         [] code = 230 -> Goto("user", "type") /\ UNCHANGED returned
         [] OTHER -> Returns("user", ftpOutcome(code))
  /\ UNCHANGED <<method, ctx, conns, transferOwned, facts, told>>

Pass ==
  /\ \E code \in Exchange :
       CASE code = Broken -> Returns("pass", "error")
         [] code = 230 -> Goto("pass", "type") /\ UNCHANGED returned
         [] OTHER -> Returns("pass", ftpOutcome(code))
  /\ UNCHANGED <<method, ctx, conns, transferOwned, facts, told>>

Type ==
  /\ \E code \in Exchange :
       IF code = 200 THEN Goto("type", "epsv") /\ UNCHANGED returned
       ELSE Returns("type", "error")
  /\ UNCHANGED <<method, ctx, conns, transferOwned, facts, told>>

\* ftpPassiveAddress: EPSV, and PASV when the server does not know it.  The
\* port in a good reply may still be malformed.
Epsv ==
  /\ \E code \in Exchange :
       \/ code = 229 /\ Goto("epsv", "dialData") /\ UNCHANGED returned
       \/ code \in {500, 501, 502, 522} /\ Goto("epsv", "pasv") /\ UNCHANGED returned
       \/ code \notin {500, 501, 502, 522} /\ Returns("epsv", "error")
  /\ UNCHANGED <<method, ctx, conns, transferOwned, facts, told>>

Pasv ==
  /\ \E code \in Exchange :
       \/ code = 227 /\ Goto("pasv", "dialData") /\ UNCHANGED returned
       \/ Returns("pasv", "error")
  /\ UNCHANGED <<method, ctx, conns, transferOwned, facts, told>>

\* Seeded fault: the data connection is not closed on cancellation.
DialDataUncancelled ==
  /\ \/ Returns("dialData", "error") /\ UNCHANGED conns
     \/ /\ Goto("dialData", "command")
        /\ data' = "open"
        /\ UNCHANGED <<control, stopControl, stopData, returned>>
  /\ UNCHANGED <<method, ctx, transferOwned, facts, told>>

DialData ==
  /\ \/ Returns("dialData", "error") /\ UNCHANGED conns
     \/ /\ Goto("dialData", "command")
        /\ data' = "open"
        /\ stopData' = TRUE
        /\ UNCHANGED <<control, stopControl, returned>>
  /\ UNCHANGED <<method, ctx, transferOwned, facts, told>>

\* STOR, RETR or LIST; a download returns the body that owns the connections.
Command ==
  /\ \E code \in Exchange :
       CASE code = Broken -> Returns("command", "error") /\ UNCHANGED transferOwned
         [] code \notin 100..199 ->
              Returns("command", ftpOutcome(code)) /\ UNCHANGED transferOwned
         [] OTHER ->
              IF method = "STOR"
                THEN Goto("command", "upload") /\ UNCHANGED <<transferOwned, returned>>
                ELSE Returns("command", "success") /\ transferOwned' = TRUE
  /\ UNCHANGED <<method, ctx, conns, facts, told>>

\* io.Copy of the request's body, which fails with either of its ends, and the
\* close that tells the server that it has all of it.  A cancellation that comes
\* after the last write goes unnoticed.
Upload ==
  /\ \/ /\ Returns("upload", "error")
        /\ UNCHANGED <<data, sent>>
     \/ /\ Goto("upload", "stored")
        /\ sent' = TRUE
        /\ data' = "closed"
        /\ UNCHANGED returned
  /\ UNCHANGED <<method, ctx, control, stopControl, stopData, transferOwned, ended,
                 confirmed, told>>

Stored ==
  /\ \E code \in Replies :
       /\ Returns("stored", IF code = Broken THEN "error"
                            ELSE IF code \in 200..299 THEN "success" ELSE ftpOutcome(code))
       /\ confirmed' = (code \in 200..299)
  /\ UNCHANGED <<method, ctx, conns, transferOwned, sent, ended, told>>

DeferData ==
  /\ Goto("deferData", "deferControl")
  /\ IF data # "none" /\ ~transferOwned
       THEN data' = "closed" /\ stopData' = FALSE
       ELSE UNCHANGED <<data, stopData>>
  /\ UNCHANGED <<method, ctx, control, stopControl, transferOwned, facts, returned, told>>

DeferControl ==
  /\ Goto("deferControl", "respond")
  /\ IF control # "none" /\ ~transferOwned
       THEN control' = "closed" /\ stopControl' = FALSE
       ELSE UNCHANGED <<control, stopControl>>
  /\ UNCHANGED <<method, ctx, data, stopData, transferOwned, facts, returned, told>>

-----------------------------------------------------------------------------
(***************************************************************************)
(* ServeHTTP with the result: an error status, 204 for a stored resource,   *)
(* or 200 and the body, whose failure aborts the response.                  *)
(***************************************************************************)
Respond ==
  /\ \/ returned # "success" /\ Goto("respond", "done") /\ told' = "refused"
     \/ /\ returned = "success" /\ ~transferOwned
        /\ Goto("respond", "done") /\ told' = "ok"
     \/ /\ returned = "success" /\ transferOwned
        /\ Goto("respond", "copy") /\ UNCHANGED told
  /\ UNCHANGED <<method, ctx, conns, transferOwned, facts, returned>>

\* ftpTransferBody.finish: both cancellations are stopped, both connections closed.
finish ==
  /\ data' = "closed"
  /\ control' = "closed"
  /\ stopData' = FALSE
  /\ stopControl' = FALSE

\* A Read that ends in an error: the context's, or the data connection's.
ReadFails ==
  /\ Goto("copy", "close")
  /\ finish
  /\ told' = "aborted"
  /\ UNCHANGED <<method, ctx, transferOwned, facts, returned>>

\* Seeded fault: the end of the data is taken for the end of the transfer.
ReadEndsUnconfirmed ==
  /\ data = "open" /\ ~ctx
  /\ Goto("copy", "close")
  /\ ended' = TRUE
  /\ told' = "ok"
  /\ finish
  /\ UNCHANGED <<method, ctx, transferOwned, sent, confirmed, returned>>

\* A Read at the end of the data, with the context still alive.
ReadEnds ==
  /\ data = "open" /\ ~ctx
  /\ Goto("copy", "completion")
  /\ ended' = TRUE
  /\ data' = "closed"
  /\ UNCHANGED <<method, ctx, control, stopControl, stopData, transferOwned, sent,
                 confirmed, returned, told>>

\* The rest of that Read: it reports EOF only on a positive completion reply.
Completion ==
  /\ Goto("completion", "close")
  /\ \E code \in Replies :
       /\ confirmed' = (code \in 200..299)
       /\ told' = IF code \in 200..299 THEN "ok" ELSE "aborted"
  /\ finish
  /\ UNCHANGED <<method, ctx, transferOwned, sent, ended, returned>>

\* io.Copy fails because the client is gone: the deferred Close is what finishes.
ClientGone ==
  /\ Goto("copy", "close")
  /\ told' = "aborted"
  /\ UNCHANGED <<method, ctx, conns, transferOwned, facts, returned>>

\* Seeded fault: the body is not closed when the handler is over.
BodyNotClosed ==
  /\ Goto("close", "done")
  /\ UNCHANGED <<method, ctx, conns, transferOwned, facts, returned, told>>

\* The deferred Body.Close, which runs after an abort too.
CloseBody ==
  /\ Goto("close", "done")
  /\ finish
  /\ UNCHANGED <<method, ctx, transferOwned, facts, returned, told>>

TransferOver == pc = "done" /\ UNCHANGED transferVars

-----------------------------------------------------------------------------
Operate ==
  \/ Start \/ DialControl \/ Greeting \/ User \/ Pass \/ Type \/ Epsv \/ Pasv
  \/ DialData \/ Command \/ Upload \/ Stored \/ DeferData \/ DeferControl

Answer == Respond \/ Completion \/ CloseBody

TransferNext ==
  \/ Cancel \/ CancelControl \/ CancelData
  \/ Operate \/ Answer
  \/ ReadFails \/ ReadEnds \/ ClientGone
  \/ TransferOver

(***************************************************************************)
(* Fairness: the dialogue goes on, since dials, replies and writes have      *)
(* deadlines and the request's body fails with its client; the AfterFuncs    *)
(* run; a Read returns once its connection is closed under it.  A server may *)
(* keep sending data for ever.                                               *)
(***************************************************************************)
Fairness ==
  /\ WF_transferVars(Operate)
  /\ WF_transferVars(Answer)
  /\ WF_transferVars(CancelControl)
  /\ WF_transferVars(CancelData)
  /\ WF_transferVars(data = "closed" /\ ReadFails)

TransferSpec == TransferInit /\ [][TransferNext]_transferVars /\ Fairness

-----------------------------------------------------------------------------
(***************************************************************************)
(* Properties.                                                              *)
(***************************************************************************)

\* When the handler is over neither connection is open and no AfterFunc holds
\* one, on every path through operate, the transfer body and a cancellation.
NothingLeftOpen ==
  pc = "done" => /\ control # "open" /\ ~stopControl
                 /\ data # "open" /\ ~stopData

\* The client gets a complete success only for a transfer that the server
\* confirmed after all of the data: neither a truncated download nor an upload
\* cut short looks complete, whatever is cancelled when.
SuccessIsConfirmed ==
  told = "ok" => confirmed /\ (IF method = "STOR" THEN sent ELSE ended)

\* While the response is being copied, nothing but the cancellation closes what
\* the body reads from: operate's deferred calls have let go of it.
BodyKeepsConnections ==
  pc \in {"copy", "completion"} /\ ~ctx =>
    control = "open" /\ (pc = "copy" => data = "open")

\* A cancelled request ends and lets go of both connections, although the
\* server may keep the transfer going for ever.
CancelledEnds == ctx ~> pc = "done"
=============================================================================
