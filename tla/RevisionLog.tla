------------------------------ MODULE RevisionLog ------------------------------
(***************************************************************************)
(* What migrate promises: the recorded revisions are a log that only grows,  *)
(* at its end and in the order of their IDs; each successful call extends it *)
(* at one moment by what the call brings that is new, and a call that is     *)
(* refused because of the log is refused rightly.  Migrations implements     *)
(* this module.                                                             *)
(***************************************************************************)
EXTENDS Naturals, Sequences

CONSTANTS
  Clients,
  Requests         \* the sequences of revisions clients ask for

VARIABLES
  log,             \* the recorded revisions
  asked,           \* per client: the request of its current or last call
  told             \* per client: how it ended, "nothing" while it runs

vars == <<log, asked, told>>

(* The log after a request, were it accepted: a revision that is recorded    *)
(* already, with the same content, is passed over.                          *)
Extended(revisions, request) ==
  LET after[k \in 0..Len(request)] ==
        IF k = 0 THEN revisions
        ELSE IF \E i \in DOMAIN after[k - 1] : after[k - 1][i] = request[k] THEN after[k - 1]
        ELSE Append(after[k - 1], request[k])
  IN after[Len(request)]

Increasing(revisions) ==
  \A i, j \in DOMAIN revisions : i < j => revisions[i].id < revisions[j].id

Acceptable(request) == Increasing(Extended(log, request))

Init ==
  /\ log = << >>
  /\ asked = [c \in Clients |-> << >>]
  /\ told = [c \in Clients |-> "ok"]

Ask(c, request) ==
  /\ told[c] # "nothing"
  /\ asked' = [asked EXCEPT ![c] = request]
  /\ told' = [told EXCEPT ![c] = "nothing"]
  /\ UNCHANGED log

(* The acknowledgement may be lost on its way.                              *)
Accept(c, report) ==
  /\ told[c] = "nothing" /\ Acceptable(asked[c])
  /\ log' = Extended(log, asked[c])
  /\ told' = [told EXCEPT ![c] = report]
  /\ UNCHANGED asked

Refuse(c, report) ==
  /\ told[c] = "nothing"
  /\ report \in {"drift", "order"} => ~Acceptable(asked[c])
  /\ told' = [told EXCEPT ![c] = report]
  /\ UNCHANGED <<log, asked>>

Next ==
  \E c \in Clients :
    \/ \E request \in Requests : Ask(c, request)
    \/ \E report \in {"ok", "unknown"} : Accept(c, report)
    \/ \E report \in {"drift", "order", "failed", "unknown"} : Refuse(c, report)

Spec == Init /\ [][Next]_vars
=============================================================================
