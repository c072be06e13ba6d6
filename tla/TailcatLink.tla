---------------------------- MODULE TailcatLink -----------------------------
(***************************************************************************)
(* Both ends of a Tailcat link: the ingress of module Tailcat and a process   *)
(* on the other side that reads its pairing (ReadPairing), makes a            *)
(* TailcatDialer of it and opens streams through it (src/link/                *)
(* tailcat_adapter.go, the first half).  A dial the client gets through is a  *)
(* callback of the server.                                                    *)
(*                                                                          *)
(* Threads: ReadPairing (left) and its reading goroutine (reader), one caller *)
(* of Dial for each stream in Dials, the callers of Close.  What the reader   *)
(* makes of its input is module Framing.                                      *)
(***************************************************************************)
EXTENDS Tailcat

CONSTANTS
  Dials,    \* the streams dialled by this process; the others come from elsewhere
  Closers   \* the callers of TailcatDialer.Close

ASSUME DialsAssumption == Dials \subseteq Streams

VARIABLES
  readCtx,  \* the context of ReadPairing is cancelled
  input,    \* "open" or "closed"
  reader,   \* the goroutine of ReadPairing: "reading", "send" or "done"
  read,     \* what it has read: "pairing" or "error"
  results,  \* the channel of that name, with room for one
  left,     \* ReadPairing: "select", "check", then "failed" or "ready" (with a dialer)
  dial,     \* each call of Dial: "idle", "loaded" (closed), "open" or "refused"
  closed,   \* d.closed
  once,     \* d.closeOnce: "new", "drain" and "close" (the call it makes next), "done"
  closer    \* each call of Close: "idle", "waiting" or "returned"

pairing == <<readCtx, input, reader, read, results, left>>
dialer  == <<dial, closed, once, closer>>
linkVars == <<vars, pairing, dialer>>

LinkInit ==
  /\ Init
  /\ readCtx = FALSE
  /\ input = "open"
  /\ reader = "reading"
  /\ read = "error"
  /\ results = <<>>
  /\ left = "select"
  /\ dial = [s \in Dials |-> "idle"]
  /\ closed = FALSE
  /\ once = "new"
  /\ closer = [c \in Closers |-> "idle"]

-----------------------------------------------------------------------------
(***************************************************************************)
(* ReadPairing.                                                             *)
(***************************************************************************)
CancelRead ==
  /\ ~readCtx /\ left \in {"select", "check"}
  /\ readCtx' = TRUE
  /\ UNCHANGED <<vars, input, reader, read, results, left, dialer>>

\* readPairingLine: the pairing once it was handed over whole, or an error, as
\* also when the input is closed under the read.
ReadLine ==
  /\ reader = "reading"
  /\ reader' = "send"
  /\ \/ read' = "error"
     \/ paired /\ input = "open" /\ read' = "pairing"
  /\ UNCHANGED <<vars, readCtx, input, results, left, dialer>>

\* Seeded fault: the channel has no room, so that the send needs a receiver.
SendUnbuffered ==
  /\ reader = "send" /\ left = "select"
  /\ reader' = "done"
  /\ results' = <<read>>
  /\ UNCHANGED <<vars, readCtx, input, read, left, dialer>>

SendResult ==
  /\ reader = "send" /\ results = <<>>
  /\ reader' = "done"
  /\ results' = <<read>>
  /\ UNCHANGED <<vars, readCtx, input, read, left, dialer>>

\* The select; either way the input is closed at once.
Completed ==
  /\ left = "select" /\ results # <<>>
  /\ input' = "closed"
  /\ results' = <<>>
  /\ left' = "check"
  /\ UNCHANGED <<vars, readCtx, reader, read, dialer>>

ReadCancelled ==
  /\ left = "select" /\ readCtx
  /\ input' = "closed"
  /\ left' = "failed"
  /\ UNCHANGED <<vars, readCtx, reader, read, results, dialer>>

\* ctx.Err after the select, then newTailcatDialer, which checks the pairing again.
CheckErr ==
  /\ left = "check"
  /\ left' = IF readCtx \/ read = "error" THEN "failed" ELSE "ready"
  /\ UNCHANGED <<vars, readCtx, input, reader, read, results, dialer>>

-----------------------------------------------------------------------------
(***************************************************************************)
(* TailcatDialer.                                                           *)
(***************************************************************************)
LoadClosed(s) ==
  /\ left = "ready" /\ dial[s] = "idle"
  /\ dial' = [dial EXCEPT ![s] = IF closed THEN "refused" ELSE "loaded"]
  /\ UNCHANGED <<vars, pairing, closed, once, closer>>

\* DialTCPPort gets through to the server's callback, unless the client is closed.
DialTCPPort(s) ==
  /\ dial[s] = "loaded" /\ once # "done"
  /\ Handle(s)
  /\ dial' = [dial EXCEPT ![s] = "open"]
  /\ UNCHANGED <<pairing, closed, once, closer>>

DialFails(s) ==
  /\ dial[s] = "loaded"
  /\ dial' = [dial EXCEPT ![s] = "refused"]
  /\ UNCHANGED <<vars, pairing, closed, once, closer>>

\* Seeded fault: new dials are refused only when the drain is over.
CloseStoresLate(c) ==
  /\ left = "ready" /\ closer[c] = "idle"
  /\ closer' = [closer EXCEPT ![c] = "waiting"]
  /\ once' = IF once = "new" THEN "drain" ELSE once
  /\ closed' = (once = "done")
  /\ UNCHANGED <<vars, pairing, dial>>

\* Close: the first caller runs the function of closeOnce, any other waits for it.
Close(c) ==
  /\ left = "ready" /\ closer[c] = "idle"
  /\ closer' = [closer EXCEPT ![c] = "waiting"]
  /\ IF once = "new" THEN once' = "drain" /\ closed' = TRUE ELSE UNCHANGED <<once, closed>>
  /\ UNCHANGED <<vars, pairing, dial>>

DrainClient ==
  /\ once = "drain"
  /\ once' = "close"
  /\ UNCHANGED <<vars, pairing, dial, closed, closer>>

CloseClient ==
  /\ once = "close"
  /\ once' = "done"
  /\ UNCHANGED <<vars, pairing, dial, closed, closer>>

CloseReturns(c) ==
  /\ closer[c] = "waiting" /\ once = "done"
  /\ closer' = [closer EXCEPT ![c] = "returned"]
  /\ UNCHANGED <<vars, pairing, dial, closed, once>>

-----------------------------------------------------------------------------
ReadPairing == ReadLine \/ SendResult \/ Completed \/ ReadCancelled \/ CheckErr
Dial(s) == LoadClosed(s) \/ DialTCPPort(s) \/ DialFails(s)
CloseDialer == DrainClient \/ CloseClient \/ \E c \in Closers : CloseReturns(c)

LinkNext ==
  \/ CancelRead \/ ReadPairing
  \/ \E s \in Dials : Dial(s)
  \/ \E c \in Closers : Close(c)
  \/ CloseDialer
  \/ /\ \/ Cancel \/ StartReturns
        \/ \E s \in Streams \ Dials : Handle(s)
        \/ \E s \in Streams : StreamEnds(s)
        \/ WatcherCloses \/ Closer
        \/ serveTailcat \/ LateClose
        \/ Terminated
     /\ UNCHANGED <<pairing, dialer>>

\* On the left goroutines run too, and a read returns once its input is closed;
\* the library's Start returns in the end.
LinkSpec ==
  /\ LinkInit /\ [][LinkNext]_linkVars
  /\ Fairness /\ WF_vars(StartReturns)
  /\ WF_linkVars(SendResult \/ Completed \/ ReadCancelled \/ CheckErr)
  /\ WF_linkVars(input = "closed" /\ ReadLine)
  /\ WF_linkVars(CloseDialer)

-----------------------------------------------------------------------------
(***************************************************************************)
(* Properties.                                                              *)
(***************************************************************************)

\* From the moment Close stops new dials, the calls of Dial that may still reach
\* the client only become fewer: the drain and the close of the client race the
\* dials that had read closed before, and no others.
DialerDrains ==
  [][once # "new" =>
       {s \in Dials : dial'[s] = "loaded"} \subseteq {s \in Dials : dial[s] = "loaded"}]_linkVars

\* When ReadPairing is over, its input is closed and the goroutine it started
\* ends, whether or not anybody took its result.
ReaderEnds ==
  left \in {"failed", "ready"} ~> input = "closed" /\ reader = "done"
=============================================================================
