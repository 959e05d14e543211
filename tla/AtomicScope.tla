---------------------------- MODULE AtomicScope ----------------------------
(***************************************************************************)
(* What a transaction scope of one database handle promises its caller,    *)
(* with no backend, no cleanup and no flags: a scope gathers writes, they   *)
(* reach the store together or not at all, and the caller is told nothing   *)
(* that is false.  TransactionScope implements this module.                 *)
(***************************************************************************)
CONSTANT Writes      \* the writes an application can make

VARIABLES
  store,             \* the writes that are durable
  open,              \* whether a scope is open
  scope,             \* the writes made in the current or the last scope
  told,              \* how the last scope ended for its caller
  usable             \* whether the handle accepts a new scope

vars == <<store, open, scope, told, usable>>

Reports == {"ok", "committed", "raised", "rolled_back", "unknown"}

(* A report of success means every write is durable, a report of failure    *)
(* means none is; "unknown" may always be said.                             *)
Truthful(report) ==
  /\ report \in {"ok", "committed"} => scope \subseteq store
  /\ report \in {"raised", "rolled_back"} => scope \cap store = {}

Init ==
  /\ store = {} /\ scope = {}
  /\ open = FALSE /\ usable = TRUE
  /\ told = "nothing"

Enter ==
  /\ usable /\ ~open
  /\ open' = TRUE /\ scope' = {} /\ told' = "nothing"
  /\ UNCHANGED <<store, usable>>

Write(w) ==
  /\ open /\ scope \cap store = {} /\ w \notin store
  /\ scope' = scope \cup {w}
  /\ UNCHANGED <<store, open, told, usable>>

(* The only step that changes the store, and it makes the whole scope       *)
(* durable.                                                                 *)
CommitPoint ==
  /\ open
  /\ store' = store \cup scope
  /\ UNCHANGED <<open, scope, told, usable>>

(* The commit point and an uncertain report can be one step: the commit     *)
(* took effect and its acknowledgement was lost.                            *)
LostAcknowledgement ==
  /\ open
  /\ store' = store \cup scope
  /\ open' = FALSE /\ told' = "unknown" /\ usable' = FALSE
  /\ UNCHANGED scope

(* A plain return or the caller's own exception leaves the handle usable,   *)
(* any other end takes it out of use.                                       *)
Report(report) ==
  /\ open /\ Truthful(report)
  /\ open' = FALSE /\ told' = report
  /\ usable' = (report \in {"ok", "raised"})
  /\ UNCHANGED <<store, scope>>

(* The process ends, with or without a scope, or the handle is closed.      *)
Retire ==
  /\ open' = FALSE /\ usable' = FALSE
  /\ told' = "nothing" \/ (~open /\ told' = told)
  /\ UNCHANGED <<store, scope>>

(* A new handle on the same store.                                          *)
Replace ==
  /\ ~open /\ ~usable
  /\ usable' = TRUE /\ told' = "nothing" /\ scope' = {}
  /\ UNCHANGED <<store, open>>

Next ==
  \/ Enter
  \/ \E w \in Writes : Write(w)
  \/ CommitPoint
  \/ LostAcknowledgement
  \/ \E report \in Reports : Report(report)
  \/ Retire
  \/ Replace

Spec == Init /\ [][Next]_vars
=============================================================================
