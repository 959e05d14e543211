-------------------------------- MODULE OpenFile --------------------------------
(***************************************************************************)
(* Several processes, each with the SQLite library it was built with, open   *)
(* one database file: Database.__init__ down to Backend.__init__, statement  *)
(* by statement, and what an open handle then reports of its journal mode.   *)
(*                                                                         *)
(* The file's mode is in its header.  A connection knows the mode it found   *)
(* when it last read the file (known), which PRAGMA journal_mode answers     *)
(* without looking again once the schema is loaded.                          *)
(***************************************************************************)
EXTENDS Naturals

CONSTANTS
  Openers,
  Versions         \* the SQLite versions to consider: triples of numbers

ASSUME OpenFileAssumption == Versions \subseteq Nat \X Nat \X Nat

VARIABLES
  file,            \* "absent", or the journal mode in the file's header
  walWorks,        \* whether the file's VFS supports WAL
  version,         \* per process: its SQLite library
  pc,              \* per process: how far its opening is
  asked,           \* per process: the journal_mode option
  readonly,        \* the processes that open read-only
  selected,        \* per process: the mode __init__ settles on
  known            \* per process: the mode its connection found last

(* History.                                                                 *)
VARIABLES
  founders,        \* the processes that had found no file
  overtaken        \* processes past their check when the file became WAL

seen == <<founders, overtaken>>
vars == <<file, walWorks, version, pc, asked, readonly, selected, known, founders, overtaken>>

Modes == {"wal", "delete"}

TypeOK ==
  /\ file \in Modes \cup {"absent"} /\ walWorks \in BOOLEAN
  /\ version \in [Openers -> Versions]
  /\ pc \in [Openers -> {"closed", "looked", "connected", "converting", "configuring", "open", "scope"}]
  /\ asked \in [Openers -> Modes \cup {"none"}] /\ readonly \subseteq Openers
  /\ selected \in [Openers -> Modes \cup {"none"}] /\ known \in [Openers -> Modes \cup {"none"}]
  /\ founders \subseteq Openers /\ overtaken \subseteq Openers

(* Tuples of Python compare by their first difference.                      *)
AtLeast(v, w) ==
  \/ v[1] > w[1]
  \/ v[1] = w[1] /\ v[2] > w[2]
  \/ v[1] = w[1] /\ v[2] = w[2] /\ v[3] >= w[3]

WalSafe(v) ==
  \/ AtLeast(v, <<3, 51, 3>>)
  \/ AtLeast(v, <<3, 50, 7>>) /\ ~AtLeast(v, <<3, 51, 0>>)
  \/ AtLeast(v, <<3, 44, 6>>) /\ ~AtLeast(v, <<3, 45, 0>>)

Qualified(p) == WalSafe(version[p])
Writable(p) == p \notin readonly

-----------------------------------------------------------------------------
(* Forms of the definitions below that a mistake in the code would give;    *)
(* no specification uses them.                                              *)

NeverRefused(p, mode, ro) == FALSE

AsRequested(p) == selected[p]

QualifiedOnly(p, mode) == mode = "wal" /\ Writable(p) => Qualified(p)

VerifiedOnly(p, mode) == selected[p] \in {"none", mode}

-----------------------------------------------------------------------------
Init ==
  /\ file \in Modes \cup {"absent"} /\ walWorks \in BOOLEAN
  /\ file = "wal" => walWorks
  /\ version \in [Openers -> Versions]
  /\ pc = [p \in Openers |-> "closed"] /\ asked = [p \in Openers |-> "none"] /\ readonly = {}
  /\ selected = [p \in Openers |-> "none"] /\ known = [p \in Openers |-> "none"]
  /\ founders = {} /\ overtaken = {}

Others(p) == Openers \ {p}

(* The default applies to a file that is not there.                         *)
TakesDefault(wants, existed) == wants = "none" /\ ~existed

Default(p) == IF Qualified(p) THEN "wal" ELSE "delete"

(* WAL asked of a library that must not write it is refused before connect. *)
Refused(p, mode, ro) == mode = "wal" /\ ~ro /\ ~Qualified(p)

(* The checks of the effective mode before a handle is configured.          *)
Acceptable(p, mode) ==
  /\ selected[p] \in {"none", mode}
  /\ (mode = "wal" /\ Writable(p) => Qualified(p))

(* The journal mode Backend.sqlite_runtime reports: PRAGMA journal_mode        *)
(* answers what the connection knows.                                       *)
SqliteRuntime(p) == known[p]

(* The connection, if there is one, is closed.                              *)
ToClosed(p) ==
  /\ pc' = [pc EXCEPT ![p] = "closed"]
  /\ known' = [known EXCEPT ![p] = "none"] /\ selected' = [selected EXCEPT ![p] = "none"]
  /\ asked' = [asked EXCEPT ![p] = "none"] /\ readonly' = readonly \ {p}

At(p, step) == pc' = [pc EXCEPT ![p] = step]

-----------------------------------------------------------------------------
(* Path.exists, and the mode it leads to.                                   *)
Look(p, wants, ro) ==
  LET mode == IF TakesDefault(wants, file # "absent") THEN Default(p) ELSE wants
  IN /\ pc[p] = "closed"
     /\ ~Refused(p, mode, ro)
     /\ At(p, "looked")
     /\ asked' = [asked EXCEPT ![p] = wants]
     /\ readonly' = IF ro THEN readonly \cup {p} ELSE readonly
     /\ selected' = [selected EXCEPT ![p] = mode]
     /\ founders' = IF file = "absent" THEN founders \cup {p} ELSE founders \ {p}
     /\ overtaken' = overtaken \ {p}
     /\ UNCHANGED <<file, walWorks, version, known>>

(* Connecting makes an empty file, which is in DELETE mode, unless the       *)
(* connection is read-only.                                                 *)
Connect(p) ==
  /\ pc[p] = "looked"
  /\ Writable(p) \/ file # "absent"
  /\ At(p, "connected")
  /\ file' = IF file = "absent" THEN "delete" ELSE file
  /\ UNCHANGED <<walWorks, version, asked, readonly, selected, known, seen>>

(* What follows the last look at the mode.                                  *)
Settle(p, mode) ==
  IF Acceptable(p, mode)
  THEN /\ At(p, "configuring")
       /\ known' = [known EXCEPT ![p] = mode]
       /\ UNCHANGED <<asked, readonly, selected>>
  ELSE ToClosed(p)

ReadMode(p) ==
  /\ pc[p] = "connected"
  /\ IF selected[p] \in Modes \ {file} /\ Writable(p)
       THEN /\ At(p, "converting")
            /\ known' = [known EXCEPT ![p] = file]
            /\ UNCHANGED <<asked, readonly, selected>>
       ELSE Settle(p, file)
  /\ UNCHANGED <<file, walWorks, version, seen>>

(* SQLite leaves WAL only if no other connection has the WAL open, and       *)
(* enters it only if none is in a transaction; it raises otherwise.         *)
Convertible(p) ==
  \/ selected[p] = file
  \/ selected[p] = "wal" /\ \A q \in Others(p) : pc[q] # "scope"
  \/ selected[p] = "delete" /\ \A q \in Others(p) : known[q] # "wal"

(* PRAGMA journal_mode=..., which answers with the mode that then holds.    *)
Convert(p) ==
  LET mode == IF selected[p] = "wal" /\ ~walWorks THEN file ELSE selected[p]
  IN /\ pc[p] = "converting" /\ Convertible(p)
     /\ file' = mode
     /\ Settle(p, mode)
     /\ overtaken' = IF mode = "wal" /\ file # "wal"
                       THEN overtaken \cup {q \in Others(p) : pc[q] \in {"configuring", "open"}}
                     ELSE overtaken
     /\ UNCHANGED <<walWorks, version, founders>>

(* The remaining settings and checks, whose reads find the file's mode anew. *)
Configure(p) ==
  /\ pc[p] = "configuring"
  /\ At(p, "open") /\ known' = [known EXCEPT ![p] = file]
  /\ UNCHANGED <<file, walWorks, version, asked, readonly, selected, seen>>

(* A probe, a lock or a check that fails, or the death of the process.      *)
OpenFails(p) ==
  /\ pc[p] \notin {"closed", "open", "scope"}
  /\ ToClosed(p)
  /\ UNCHANGED <<file, walWorks, version, seen>>

-----------------------------------------------------------------------------
(* A scope of the handle: its statements read the file.                     *)
Enter(p) ==
  /\ pc[p] = "open"
  /\ At(p, "scope") /\ known' = [known EXCEPT ![p] = file]
  /\ UNCHANGED <<file, walWorks, version, asked, readonly, selected, seen>>

Leave(p) ==
  /\ pc[p] = "scope" /\ At(p, "open")
  /\ UNCHANGED <<file, walWorks, version, asked, readonly, selected, known, seen>>

(* A statement outside a scope reads the file.                               *)
Reread(p) ==
  /\ pc[p] = "open" /\ known' = [known EXCEPT ![p] = file]
  /\ UNCHANGED <<file, walWorks, version, pc, asked, readonly, selected, seen>>

(* Closed, or its process dies.                                             *)
Close(p) ==
  /\ pc[p] \in {"open", "scope"} /\ ToClosed(p)
  /\ UNCHANGED <<file, walWorks, version, seen>>

Next ==
  \E p \in Openers :
    \/ \E wants \in Modes \cup {"none"}, ro \in BOOLEAN : Look(p, wants, ro)
    \/ Connect(p) \/ ReadMode(p) \/ Convert(p) \/ Configure(p) \/ OpenFails(p)
    \/ Enter(p) \/ Leave(p) \/ Reread(p) \/ Close(p)

Spec == Init /\ [][Next]_vars

-----------------------------------------------------------------------------
(* A handle that was asked for WAL, or took it by default, works on a WAL     *)
(* file for as long as it is open, whatever the others do and whatever the   *)
(* VFS can do.                                                              *)
SelectedWalHolds ==
  \A p \in Openers : pc[p] \in {"configuring", "open", "scope"} /\ selected[p] = "wal" => file = "wal"

(* A library without the fix writes a WAL file only if another process       *)
(* converted the file after this handle had been checked.                   *)
UnsafeWritersWereOvertaken ==
  \A p \in Openers :
    pc[p] = "scope" /\ Writable(p) /\ ~Qualified(p) /\ file = "wal" => p \in overtaken

(* The mode of a file changes only at the hands of a process that was asked   *)
(* for the new mode, or that had found no file, and becomes WAL only at those *)
(* of a library with the fix, not even on the way to refusing it.            *)
ModeChangesOnRequest ==
  [][file' # file /\ file # "absent" =>
       \E p \in Openers :
         /\ pc[p] = "converting" /\ pc'[p] # "converting" /\ selected[p] = file'
         /\ asked[p] = file' \/ p \in founders
         /\ file' = "wal" => Qualified(p)]_vars

(* The journal mode that an open handle reports is the one in effect, unless  *)
(* the file became a WAL file under it: one that reports WAL is right, since  *)
(* nobody can end WAL while it has the file open.                           *)
ReportIsEffective ==
  \A p \in Openers : pc[p] = "open" /\ p \notin overtaken => SqliteRuntime(p) = file
=============================================================================
