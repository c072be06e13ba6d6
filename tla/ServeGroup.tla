----------------------------- MODULE ServeGroup -----------------------------
(***************************************************************************)
(* server.ServeAll (src/server/group.go): the listeners of one process under *)
(* one lifecycle.  Each listener's Serve is known by its contract: it may    *)
(* return at any time, with nil or an error, and does so when the group's    *)
(* context (the parent's, or cancelled by ServeAll) is cancelled.            *)
(***************************************************************************)
CONSTANT Listeners

ASSUME ListenersAssumption == Listeners # {}

VARIABLES
  pc,             \* where ServeAll is
  ctx,            \* the parent context is cancelled
  cancelled,      \* ServeAll has called cancel
  outcome,        \* what each Serve has sent to results; "none" while it runs
  received,       \* the listeners whose outcome ServeAll has received
  parentStopped,  \* the local variable of that name
  result          \* the local variable of that name, then what is returned

vars == <<pc, ctx, cancelled, outcome, received, parentStopped, result>>

\* Every step keeps the state well-formed; in particular ServeAll's result is an
\* outcome that was sent.
TypeOK ==
  /\ pc \in {"first", "check", "cancel", "collect", "returned"}
  /\ ctx \in BOOLEAN
  /\ cancelled \in BOOLEAN
  /\ outcome \in [Listeners -> {"none", "nil", "error"}]
  /\ received \subseteq Listeners
  /\ parentStopped \in BOOLEAN
  /\ result \in {"nil", "error"}

Init ==
  /\ pc = "first"
  /\ ctx = FALSE
  /\ cancelled = FALSE
  /\ outcome = [l \in Listeners |-> "none"]
  /\ received = {}
  /\ parentStopped = FALSE
  /\ result = "nil"

Cancel ==
  /\ ~ctx
  /\ ctx' = TRUE
  /\ UNCHANGED <<pc, cancelled, outcome, received, parentStopped, result>>

\* Serve of one listener; its outcome goes to the buffered channel.
ServeReturns(l) ==
  /\ outcome[l] = "none"
  /\ \E o \in {"nil", "error"} : outcome' = [outcome EXCEPT ![l] = o]
  /\ UNCHANGED <<pc, ctx, cancelled, received, parentStopped, result>>

ReceiveFirst(l) ==
  /\ pc = "first"
  /\ outcome[l] # "none"
  /\ pc' = "check"
  /\ received' = {l}
  /\ result' = outcome[l]
  /\ UNCHANGED <<ctx, cancelled, outcome, parentStopped>>

\* Seeded fault: parentStopped is assumed, not read.
AssumeParent ==
  /\ pc = "check"
  /\ pc' = "cancel"
  /\ parentStopped' = TRUE
  /\ UNCHANGED <<ctx, cancelled, outcome, received, result>>

ReadParent ==
  /\ pc = "check"
  /\ pc' = "cancel"
  /\ parentStopped' = ctx
  /\ UNCHANGED <<ctx, cancelled, outcome, received, result>>

\* Seeded fault: the other listeners are not told to stop.
CancelForgotten ==
  /\ pc = "cancel"
  /\ pc' = "collect"
  /\ UNCHANGED <<ctx, cancelled, outcome, received, parentStopped, result>>

CancelGroup ==
  /\ pc = "cancel"
  /\ pc' = "collect"
  /\ cancelled' = TRUE
  /\ UNCHANGED <<ctx, outcome, received, parentStopped, result>>

Collect(l) ==
  /\ pc = "collect"
  /\ l \notin received
  /\ outcome[l] # "none"
  /\ received' = received \cup {l}
  /\ result' = IF result = "nil" THEN outcome[l] ELSE result
  /\ UNCHANGED <<pc, ctx, cancelled, outcome, parentStopped>>

\* With nothing left to receive; a clean stop nobody asked for is an error.
Return ==
  /\ pc = "collect"
  /\ received = Listeners
  /\ pc' = "returned"
  /\ result' = IF parentStopped THEN result ELSE "error"
  /\ UNCHANGED <<ctx, cancelled, outcome, received, parentStopped>>

Terminated == pc = "returned" /\ UNCHANGED vars

ServeAll ==
  \/ \E l \in Listeners : ReceiveFirst(l) \/ Collect(l)
  \/ ReadParent \/ CancelGroup \/ Return

Next ==
  \/ Cancel
  \/ \E l \in Listeners : ServeReturns(l)
  \/ ServeAll
  \/ Terminated

\* A runnable ServeAll runs; each Serve keeps its contract.
Fairness ==
  /\ WF_vars(ServeAll)
  /\ \A l \in Listeners : WF_vars((ctx \/ cancelled) /\ ServeReturns(l))

Spec == Init /\ [][Next]_vars /\ Fairness

-----------------------------------------------------------------------------
\* ServeAll returns nil only if it was asked to stop and every listener stopped
\* cleanly: neither an error received late nor an unasked-for stop is lost,
\* although parentStopped is read only after the first outcome.
NilIsClean ==
  pc = "returned" /\ result = "nil" =>
    ctx /\ \A l \in Listeners : outcome[l] = "nil"

Contract == INSTANCE ServeContract WITH
  NilNeedsCancel <- TRUE,
  phase <- IF pc = "first" THEN "serving"
           ELSE IF pc = "returned" THEN "returned" ELSE "stopping",
  result <- IF pc = "returned" THEN result ELSE "none"

\* ServeAll is itself a serving function: it implements ServeContract, and a nil
\* result is kept for a cancelled parent.
ImplementsContract == Contract!Spec
=============================================================================
