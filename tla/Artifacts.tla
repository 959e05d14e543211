------------------------------- MODULE Artifacts -------------------------------
(***************************************************************************)
(* Physical backups and logical exports of one live database to one         *)
(* destination path: attempts of several processes, each with a temporary   *)
(* file beside the destination, a writer committing meanwhile, faults, and   *)
(* processes that die between any two steps.                                *)
(***************************************************************************)
EXTENDS Naturals

CONSTANTS
  Backups, Exports,    \* the attempts, each by a process of its own
  Objects,             \* the parts of the database
  MaxCommits,          \* bound on the writer's commits
  Nobody, Outsider     \* no file at the destination, a file by other software

ASSUME ArtifactsAssumption ==
  /\ Backups \cap Exports = {}
  /\ {Nobody, Outsider} \cap (Backups \cup Exports) = {} /\ Nobody # Outsider
  /\ Objects # {} /\ MaxCommits \in Nat

Attempts == Backups \cup Exports

VARIABLES
  commits,         \* how often the source was committed to
  unsound,         \* the committed states a structural check rejects
  destination,     \* whose file the destination names
  temp,            \* the attempts whose temporary name exists
  step,            \* per attempt: the next thing it does
  snapshot,        \* per attempt: the state its read transaction sees
  content,         \* per attempt: the state of each object in its artifact
  qualities,       \* per attempt: what has been done to its file
  raised,          \* the attempts whose finally clause runs because of an error
  result           \* per attempt: how it ended

source == <<commits, unsound>>
vars ==
  <<commits, unsound, destination, temp, step, snapshot, content, qualities, raised, result>>

Steps == {"check", "read", "look", "create", "copy", "detach", "validate", "sync",
          "publish", "unlink", "done"}
Qualities == {"whole", "standalone", "validated", "synced"}
Results == {"none", "ok", "failed", "stuck", "crashed"}
Missing == MaxCommits + 1      \* an object not yet read

TypeOK ==
  /\ commits \in 0..MaxCommits /\ unsound \subseteq 0..MaxCommits
  /\ destination \in Attempts \cup {Nobody, Outsider}
  /\ temp \subseteq Attempts
  /\ step \in [Attempts -> Steps]
  /\ snapshot \in [Attempts -> 0..Missing]
  /\ content \in [Attempts -> [Objects -> (0..commits) \cup {Missing}]]
  /\ qualities \in [Attempts -> SUBSET Qualities]
  /\ raised \subseteq Attempts
  /\ result \in [Attempts -> Results]

-----------------------------------------------------------------------------
(* Forms of the definitions below that a mistake in the code would give;    *)
(* no specification uses them.                                              *)

Overwrites(p) == TRUE

SwallowsTaken(p) == FALSE

LatestState(p) == commits

TempKept(p) == temp

CopiesUncommitted(p) == commits + 1

-----------------------------------------------------------------------------
Init ==
  /\ commits = 0 /\ unsound = {} /\ destination = Nobody /\ temp = {}
  /\ step = [p \in Attempts |-> IF p \in Backups THEN "look" ELSE "check"]
  /\ snapshot = [p \in Attempts |-> Missing]
  /\ content = [p \in Attempts |-> [o \in Objects |-> Missing]]
  /\ qualities = [p \in Attempts |-> {}]
  /\ raised = {}
  /\ result = [p \in Attempts |-> "none"]

Running(p) == result[p] = "none"

Goto(p, next) ==
  /\ step' = [step EXCEPT ![p] = next]
  /\ UNCHANGED <<raised, result>>

End(p, how) ==
  /\ step' = [step EXCEPT ![p] = "done"]
  /\ result' = [result EXCEPT ![p] = how]
  /\ UNCHANGED raised

(* An error ends the attempt, through the finally clause once there is a    *)
(* temporary file to remove; the error goes on when the clause has run.     *)
Raise(p) ==
  IF p \in temp
  THEN /\ step' = [step EXCEPT ![p] = "unlink"]
       /\ raised' = raised \cup {p}
       /\ UNCHANGED result
  ELSE End(p, "failed")

Mark(p, quality) == qualities' = [qualities EXCEPT ![p] = @ \cup {quality}]

(* The state a statement of an export reads: its first one took a snapshot. *)
SnapshotState(p) == IF snapshot[p] = Missing THEN commits ELSE snapshot[p]

(* backup() is refused while a scope of its handle is open, so the copy     *)
(* holds nothing uncommitted.                                               *)
CopiedState(p) == commits

(* Database.check of the restored copy.                                     *)
Sound(p) == \A o \in Objects : content[p][o] \notin unsound

(* os.link makes the name or fails because there is one.                    *)
MayPublish(p) == destination = Nobody

(* publish() turns the FileExistsError of os.link into AlreadyExistsError.   *)
PublishRaises(p) == ~MayPublish(p)

(* The temporary names left when the finally clause ran.                    *)
Unlinked(p) == temp \ {p}

-----------------------------------------------------------------------------
(* Another handle of the source commits, possibly something that breaks the  *)
(* managed structure, which raw SQL can.                                    *)
SourceCommit(breaks) ==
  /\ commits < MaxCommits /\ commits' = commits + 1
  /\ unsound' = IF breaks THEN unsound \cup {commits'} ELSE unsound
  /\ UNCHANGED <<destination, temp, step, snapshot, content, qualities, raised, result>>

OutsiderCreates ==
  /\ destination = Nobody /\ destination' = Outsider
  /\ UNCHANGED <<source, temp, step, snapshot, content, qualities, raised, result>>

(* An export checks its source, and then reads object after object.         *)
CheckSource(p) ==
  /\ Running(p) /\ step[p] = "check"
  /\ snapshot' = [snapshot EXCEPT ![p] = commits]
  /\ IF commits \notin unsound THEN Goto(p, "read") /\ Mark(p, "validated")
     ELSE Raise(p) /\ UNCHANGED qualities
  /\ UNCHANGED <<source, destination, temp, content>>

ReadObject(p, o) ==
  /\ Running(p) /\ step[p] = "read" /\ content[p][o] = Missing
  /\ content' = [content EXCEPT ![p][o] = SnapshotState(p)]
  /\ IF \A other \in Objects \ {o} : content[p][other] # Missing THEN Goto(p, "look")
     ELSE UNCHANGED <<step, raised, result>>
  /\ UNCHANGED <<source, destination, temp, snapshot, qualities>>

LookForDestination(p) ==
  /\ Running(p) /\ step[p] = "look"
  /\ IF destination = Nobody THEN Goto(p, "create") ELSE Raise(p)
  /\ UNCHANGED <<source, destination, temp, snapshot, content, qualities>>

CreateTemp(p) ==
  /\ Running(p) /\ step[p] = "create"
  /\ temp' = temp \cup {p}
  /\ Goto(p, "copy")
  /\ UNCHANGED <<source, destination, snapshot, content, qualities>>

(* The online backup copies one committed state; an export writes what it   *)
(* has read.                                                                *)
WriteFile(p) ==
  /\ Running(p) /\ step[p] = "copy"
  /\ content' = IF p \in Backups THEN [content EXCEPT ![p] = [o \in Objects |-> CopiedState(p)]]
                ELSE content
  /\ Mark(p, "whole")
  /\ Goto(p, IF p \in Backups THEN "detach" ELSE "sync")
  /\ UNCHANGED <<source, destination, temp, snapshot>>

DetachFromWal(p) ==
  /\ Running(p) /\ step[p] = "detach"
  /\ Mark(p, "standalone") /\ Goto(p, "validate")
  /\ UNCHANGED <<source, destination, temp, snapshot, content>>

ValidateBackup(p) ==
  /\ Running(p) /\ step[p] = "validate"
  /\ IF Sound(p) THEN Goto(p, "sync") /\ Mark(p, "validated")
     ELSE Raise(p) /\ UNCHANGED qualities
  /\ UNCHANGED <<source, destination, temp, snapshot, content>>

Sync(p) ==
  /\ Running(p) /\ step[p] = "sync"
  /\ Mark(p, "synced") /\ Goto(p, "publish")
  /\ UNCHANGED <<source, destination, temp, snapshot, content>>

Publish(p) ==
  /\ Running(p) /\ step[p] = "publish"
  /\ destination' = IF MayPublish(p) THEN p ELSE destination
  /\ IF PublishRaises(p) THEN Raise(p) ELSE Goto(p, "unlink")
  /\ UNCHANGED <<source, temp, snapshot, content, qualities>>

(* The finally clause removes the temporary name, which can fail, and then   *)
(* lets the error go on if there is one; the attempt does not look at the    *)
(* destination again.  The end of the read scope an export runs in can fail  *)
(* too, also after the artifact was published.                              *)
Unlink(p, removes, ends) ==
  /\ Running(p) /\ step[p] = "unlink"
  /\ p \in Backups => ends
  /\ temp' = IF removes THEN Unlinked(p) ELSE temp
  /\ End(p, IF ~removes THEN "stuck"
             ELSE IF p \in raised \/ ~ends THEN "failed" ELSE "ok")
  /\ UNCHANGED <<source, destination, snapshot, content, qualities>>

(* A driver or filesystem call raises without effect.                       *)
Fault(p) ==
  /\ Running(p) /\ step[p] \notin {"unlink", "done"}
  /\ Raise(p)
  /\ UNCHANGED <<source, destination, temp, snapshot, content, qualities>>

ProcessDies(p) ==
  /\ Running(p) /\ End(p, "crashed")
  /\ UNCHANGED <<source, destination, temp, snapshot, content, qualities>>

Step(p) ==
  \/ \E o \in Objects : ReadObject(p, o)
  \/ CheckSource(p) \/ LookForDestination(p) \/ CreateTemp(p) \/ WriteFile(p)
  \/ DetachFromWal(p) \/ ValidateBackup(p) \/ Sync(p) \/ Publish(p)
  \/ \E removes, ends \in BOOLEAN : Unlink(p, removes, ends)

Next ==
  \/ \E breaks \in BOOLEAN : SourceCommit(breaks)
  \/ OutsiderCreates
  \/ \E p \in Attempts : Step(p) \/ Fault(p) \/ ProcessDies(p)

Spec == Init /\ [][Next]_vars

-----------------------------------------------------------------------------
(* The destination is absent or fully published, whatever died on the way:   *)
(* an artifact that bears the name holds one committed state the structural  *)
(* check accepts, whole, synced, and for a backup without a WAL.            *)
PublishedIsComplete ==
  destination \in Attempts =>
    /\ {"whole", "validated", "synced"} \subseteq qualities[destination]
    /\ destination \in Backups => "standalone" \in qualities[destination]
    /\ \E s \in (0..commits) \ unsound : \A o \in Objects : content[destination][o] = s

(* A file at the destination is never replaced nor changed.                 *)
NeverOverwritten ==
  [][destination # Nobody =>
       /\ destination' = destination
       /\ destination \in Attempts => content'[destination] = content[destination]]_vars

(* An attempt that returns normally has published: the destination is its    *)
(* own artifact, so at most one attempt succeeds, whatever came between its  *)
(* look at the destination, its publication and its return.                 *)
SuccessIsPublished ==
  \A p \in Attempts : result[p] = "ok" => destination = p

(* Only a process that died or could not remove it leaves a temporary file.  *)
NoLeftovers ==
  \A p \in temp : result[p] \in {"none", "stuck", "crashed"}
=============================================================================
