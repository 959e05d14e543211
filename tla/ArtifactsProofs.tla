---------------------------- MODULE ArtifactsProofs ----------------------------
(***************************************************************************)
(* The safety of Artifacts for every set of attempts and objects: what the   *)
(* destination names is complete and never replaced, and success is true.   *)
(***************************************************************************)
EXTENDS Artifacts, TLAPS

(* Steps after which an export has read everything, and those after which    *)
(* the file of an attempt is there.                                         *)
ReadDone == {"look", "create", "copy", "sync", "publish"}
FileThere == {"detach", "validate", "sync", "publish"}

(* The states an artifact may hold: committed, and structurally sound.       *)
Uniform(p, states) == \E s \in states : \A o \in Objects : content[p][o] = s
SoundStates == (0..commits) \ unsound

Complete(p) ==
  /\ {"whole", "validated", "synced"} \subseteq qualities[p]
  /\ p \in Backups => "standalone" \in qualities[p]
  /\ Uniform(p, SoundStates)

(* What an export has got from its snapshot.                                *)
ExportInv(p) ==
  /\ step[p] \notin {"detach", "validate"}
  /\ step[p] = "check" => \A o \in Objects : content[p][o] = Missing
  /\ step[p] \in ReadDone \cup {"read"} =>
       /\ "validated" \in qualities[p] /\ snapshot[p] \in SoundStates
       /\ \A o \in Objects : content[p][o] \in {Missing, snapshot[p]}
  /\ step[p] \in ReadDone => \A o \in Objects : content[p][o] = snapshot[p]

(* What a backup has made of its copy.                                      *)
BackupInv(p) ==
  /\ step[p] \notin {"check", "read"}
  /\ step[p] \in FileThere => Uniform(p, 0..commits)
  /\ step[p] \in {"validate", "sync", "publish"} => "standalone" \in qualities[p]
  /\ step[p] \in {"sync", "publish"} => "validated" \in qualities[p] /\ Uniform(p, SoundStates)

AttemptInv(p) ==
  /\ p \in Exports => ExportInv(p)
  /\ p \in Backups => BackupInv(p)
  /\ step[p] \in FileThere => "whole" \in qualities[p]
  /\ step[p] = "publish" => "synced" \in qualities[p]
  /\ result[p] = "none" <=> step[p] # "done"
  /\ destination = p => step[p] \in {"unlink", "done"} /\ Complete(p)
  /\ step[p] = "unlink" /\ p \notin raised => destination = p
  /\ result[p] = "ok" => destination = p
  /\ p \in temp => result[p] \in {"none", "stuck", "crashed"}

AInv ==
  /\ TypeOK
  /\ unsound \subseteq 0..commits
  /\ \A p \in Attempts : AttemptInv(p)

-----------------------------------------------------------------------------
(* Nothing has happened in the initial state.                               *)
LEMMA InitInv == Init => AInv
<1> SUFFICES ASSUME Init PROVE AInv
  OBVIOUS
<1>1. TypeOK
  BY ArtifactsAssumption DEF Init, TypeOK, Attempts, Steps, Results, Qualities, Missing
<1>2. ASSUME NEW p \in Attempts PROVE AttemptInv(p)
  <2>1. destination # p
    BY ArtifactsAssumption DEF Init, Attempts
  <2>2. /\ step[p] = (IF p \in Backups THEN "look" ELSE "check") /\ result[p] = "none" /\ p \notin temp
        /\ \A o \in Objects : content[p][o] = Missing
    BY DEF Init
  <2>3. ~(p \in Backups /\ p \in Exports)
    BY ArtifactsAssumption
  <2> QED
    BY <2>1, <2>2, <2>3 DEF AttemptInv, ExportInv, BackupInv, ReadDone, FileThere, Attempts
<1> QED
  BY <1>1, <1>2 DEF AInv, Init

(* A commit of the source leaves every artifact as sound as it was.          *)
LEMMA SourceStep ==
  ASSUME AInv, NEW breaks \in BOOLEAN, SourceCommit(breaks)
  PROVE  AInv'
<1>1. commits \in Nat /\ commits' \in Nat /\ commits' <= MaxCommits
  BY ArtifactsAssumption DEF AInv, TypeOK, SourceCommit
<1>2. TypeOK' /\ (unsound \subseteq 0..commits)'
  BY <1>1, ArtifactsAssumption DEF AInv, TypeOK, SourceCommit, Attempts
<1>3. SoundStates \subseteq SoundStates' /\ 0..commits \subseteq 0..commits'
  BY <1>1 DEF AInv, SourceCommit, SoundStates
<1>4. ASSUME NEW p \in Attempts PROVE AttemptInv(p)'
  <2>1. AttemptInv(p) BY DEF AInv
  <2>2. UNCHANGED <<destination, temp, step, snapshot, content, qualities, raised, result>>
    BY DEF SourceCommit
  <2>3. \A states, more : states \subseteq more /\ Uniform(p, states) => Uniform(p, more)'
    BY <2>2 DEF Uniform
  <2> QED
    BY <1>3, <2>1, <2>2, <2>3 DEF AttemptInv, ExportInv, BackupInv, Complete
<1> QED
  BY <1>2, <1>4 DEF AInv

(* A step of one attempt leaves what the invariant says of the others, as    *)
(* long as it does not make one of them the destination.                    *)
LEMMA OthersKeep ==
  ASSUME AInv, UNCHANGED source, NEW p \in Attempts, NEW q \in Attempts, q # p,
         step'[q] = step[q], result'[q] = result[q], snapshot'[q] = snapshot[q],
         content'[q] = content[q], qualities'[q] = qualities[q],
         q \in temp' => q \in temp, q \in raised' <=> q \in raised,
         destination' = q <=> destination = q
  PROVE  AttemptInv(q)'
<1>1. AttemptInv(q) BY DEF AInv
<1>2. SoundStates' = SoundStates /\ (0..commits)' = 0..commits
  BY DEF source, SoundStates
<1>3. \A states : Uniform(q, states)' <=> Uniform(q, states)
  BY DEF Uniform
<1> QED
  BY <1>1, <1>2, <1>3 DEF AttemptInv, ExportInv, BackupInv, Complete

(* What a step of the attempt p may touch of the others.                     *)
Local(p) ==
  \A q \in Attempts \ {p} :
    /\ step'[q] = step[q] /\ result'[q] = result[q] /\ snapshot'[q] = snapshot[q]
    /\ content'[q] = content[q] /\ qualities'[q] = qualities[q]
    /\ q \in temp' => q \in temp
    /\ q \in raised' <=> q \in raised
    /\ destination' = q <=> destination = q

LEMMA Assemble ==
  ASSUME AInv, UNCHANGED source, NEW p \in Attempts, Local(p), TypeOK', AttemptInv(p)'
  PROVE  AInv'
<1>1. ASSUME NEW q \in Attempts, q # p PROVE AttemptInv(q)'
  BY <1>1, OthersKeep DEF Local
<1>2. (unsound \subseteq 0..commits)'
  BY DEF AInv, source
<1> QED
  BY <1>1, <1>2 DEF AInv

-----------------------------------------------------------------------------
(* Each step of an attempt keeps the types, touches nothing of the others    *)
(* and keeps what the invariant says of the attempt itself.                 *)
Keeps(p) == TypeOK' /\ Local(p) /\ AttemptInv(p)'

(* How an attempt moves: to its next step, or to its end, with an error or   *)
(* without.                                                                 *)
Moved(p, next, how) ==
  /\ raised' \subseteq Attempts /\ \A q \in Attempts \ {p} : q \in raised' <=> q \in raised
  /\ step' \in [Attempts -> Steps] /\ result' \in [Attempts -> Results]
  /\ step'[p] = next /\ result'[p] = how
  /\ \A q \in Attempts \ {p} : step'[q] = step[q] /\ result'[q] = result[q]

(* Goto, End, Raise and Mark in terms of the values they leave.              *)
LEMMA GotoMoves ==
  ASSUME TypeOK, NEW p \in Attempts, NEW next \in Steps, Goto(p, next)
  PROVE  Moved(p, next, result[p]) /\ raised' = raised
BY DEF TypeOK, Goto, Moved

(* The same of End.                                                         *)
LEMMA EndMoves ==
  ASSUME TypeOK, NEW p \in Attempts, NEW how \in Results, End(p, how)
  PROVE  Moved(p, "done", how)
BY DEF TypeOK, End, Moved, Steps

(* The same of Raise.                                                       *)
LEMMA RaiseMoves ==
  ASSUME TypeOK, NEW p \in Attempts, Raise(p)
  PROVE  IF p \in temp THEN Moved(p, "unlink", result[p]) /\ p \in raised'
                      ELSE Moved(p, "done", "failed")
<1>1. CASE p \in temp
  BY <1>1 DEF TypeOK, Raise, Moved, Steps
<1>2. CASE p \notin temp
  BY <1>2, EndMoves DEF Raise, Results
<1> QED
  BY <1>1, <1>2

Marked(p, quality) ==
  /\ qualities' \in [Attempts -> SUBSET Qualities]
  /\ qualities'[p] = qualities[p] \cup {quality}
  /\ \A q \in Attempts \ {p} : qualities'[q] = qualities[q]

(* The same of Mark.                                                        *)
LEMMA MarkMarks ==
  ASSUME TypeOK, NEW p \in Attempts, NEW quality \in Qualities, Mark(p, quality)
  PROVE  Marked(p, quality)
BY DEF TypeOK, Mark, Marked

(* A set of states is as sound after a step that leaves the source alone,    *)
(* and an artifact as uniform when its content is not touched.               *)
LEMMA SameStates ==
  ASSUME UNCHANGED source
  PROVE  /\ SoundStates' = SoundStates /\ (0..commits)' = 0..commits
         /\ commits' = commits /\ unsound' = unsound
BY DEF source, SoundStates

(* What an attempt that is not yet published needs to keep of itself.        *)
LEMMA NotPublished ==
  ASSUME AInv, NEW p \in Attempts, Running(p), step[p] # "unlink"
  PROVE  destination # p /\ result[p] = "none" /\ step[p] # "done"
BY DEF AInv, AttemptInv, Running

(* An error keeps the invariant: it only ends the attempt.                   *)
LEMMA RaiseKeeps ==
  ASSUME AInv, NEW p \in Attempts, Running(p), step[p] # "unlink", Raise(p),
         UNCHANGED <<source, destination, temp, content, qualities>>,
         snapshot' \in [Attempts -> 0..Missing],
         \A q \in Attempts \ {p} : snapshot'[q] = snapshot[q]
  PROVE  Keeps(p)
<1>1. TypeOK BY DEF AInv
<1>2. IF p \in temp THEN Moved(p, "unlink", result[p]) /\ p \in raised'
                    ELSE Moved(p, "done", "failed")
  BY <1>1, RaiseMoves
<1>3. destination # p /\ result[p] = "none"
  BY NotPublished
<1>4. TypeOK'
  BY <1>1, <1>2 DEF TypeOK, source, Moved
<1>5. Local(p)
  BY <1>2 DEF Local, Moved
<1>6. AttemptInv(p)'
  BY <1>2, <1>3 DEF AttemptInv, ExportInv, BackupInv, ReadDone, FileThere, Moved
<1> QED
  BY <1>4, <1>5, <1>6 DEF Keeps

-----------------------------------------------------------------------------
(* The check of an export's source takes the snapshot it will read.          *)
LEMMA CheckSourceKeeps ==
  ASSUME AInv, NEW p \in Attempts, CheckSource(p) PROVE Keeps(p)
<1>1. TypeOK /\ AttemptInv(p)
  BY DEF AInv
<1>2. Running(p) /\ step[p] = "check"
  BY DEF CheckSource
<1>3. p \in Exports /\ p \notin Backups
  BY <1>1, <1>2, ArtifactsAssumption DEF AttemptInv, BackupInv, Attempts
<1>4. destination # p /\ result[p] = "none"
  BY <1>2, NotPublished
<1>5. /\ snapshot' \in [Attempts -> 0..Missing] /\ snapshot'[p] = commits
      /\ \A q \in Attempts \ {p} : snapshot'[q] = snapshot[q]
  BY <1>1, ArtifactsAssumption DEF CheckSource, TypeOK, Missing
<1>6. CASE commits \in unsound
  BY <1>2, <1>5, <1>6, RaiseKeeps DEF CheckSource
<1>7. CASE commits \notin unsound
  <2>1. Moved(p, "read", result[p]) /\ Marked(p, "validated")
    BY <1>1, <1>7, GotoMoves, MarkMarks DEF CheckSource, Steps, Qualities
  <2>2. UNCHANGED <<source, destination, temp, content>>
    BY DEF CheckSource
  <2>3. TypeOK'
    BY <1>1, <1>5, <2>1, <2>2 DEF TypeOK, source, Moved, Marked
  <2>4. Local(p)
    BY <1>5, <2>1, <2>2 DEF Local, Moved, Marked
  <2>5. commits \in SoundStates'
    BY <1>1, <1>7, <2>2 DEF TypeOK, SoundStates, source
  <2>6. AttemptInv(p)'
    BY <1>1, <1>2, <1>3, <1>4, <1>5, <2>1, <2>2, <2>5
    DEF AttemptInv, ExportInv, ReadDone, FileThere, Moved, Marked
  <2> QED
    BY <2>3, <2>4, <2>6 DEF Keeps
<1> QED
  BY <1>6, <1>7

(* An object is read in the snapshot; the last one completes the artifact.   *)
LEMMA ReadObjectKeeps ==
  ASSUME AInv, NEW p \in Attempts, NEW o \in Objects, ReadObject(p, o) PROVE Keeps(p)
<1>1. TypeOK /\ AttemptInv(p)
  BY DEF AInv
<1>2. /\ Running(p) /\ step[p] = "read"
      /\ UNCHANGED <<source, destination, temp, snapshot, qualities>>
  BY DEF ReadObject
<1>3. p \in Exports /\ p \notin Backups
  BY <1>1, <1>2, ArtifactsAssumption DEF AttemptInv, BackupInv, Attempts
<1>4. destination # p /\ result[p] = "none"
  BY <1>2, NotPublished
<1>5. /\ "validated" \in qualities[p] /\ snapshot[p] \in SoundStates
      /\ \A x \in Objects : content[p][x] \in {Missing, snapshot[p]}
  BY <1>1, <1>2, <1>3 DEF AttemptInv, ExportInv
<1>6. snapshot[p] \in 0..commits /\ snapshot[p] # Missing
  BY <1>1, <1>5, ArtifactsAssumption DEF TypeOK, SoundStates, Missing
<1>7. content' = [content EXCEPT ![p][o] = snapshot[p]]
  BY <1>6 DEF ReadObject, SnapshotState
<1>8. content \in [Attempts -> [Objects -> (0..commits) \cup {Missing}]]
  BY <1>1 DEF TypeOK
<1>9. /\ content' \in [Attempts -> [Objects -> (0..commits) \cup {Missing}]]
      /\ content'[p][o] = snapshot[p]
      /\ \A x \in Objects \ {o} : content'[p][x] = content[p][x]
      /\ \A q \in Attempts \ {p} : content'[q] = content[q]
  BY <1>6, <1>7, <1>8
<1>10. \/ Moved(p, "read", result[p])
       \/ Moved(p, "look", result[p]) /\ \A x \in Objects : content'[p][x] = snapshot[p]
  <2>1. CASE \A other \in Objects \ {o} : content[p][other] # Missing
    <3>1. Moved(p, "look", result[p])
      BY <1>1, <2>1, GotoMoves DEF ReadObject, Steps
    <3>2. \A x \in Objects : content'[p][x] = snapshot[p]
      BY <1>5, <1>9, <2>1
    <3> QED BY <3>1, <3>2
  <2>2. CASE ~(\A other \in Objects \ {o} : content[p][other] # Missing)
    BY <1>1, <1>2, <2>2 DEF ReadObject, Moved, TypeOK
  <2> QED BY <2>1, <2>2
<1>11. TypeOK'
  BY <1>1, <1>2, <1>9, <1>10 DEF TypeOK, source, Moved
<1>12. Local(p)
  BY <1>2, <1>9, <1>10 DEF Local, Moved
<1>13. \A x \in Objects : content'[p][x] \in {Missing, snapshot[p]}
  BY <1>5, <1>9
<1>14. AttemptInv(p)'
  BY <1>1, <1>2, <1>3, <1>4, <1>5, <1>10, <1>13, SameStates
  DEF AttemptInv, ExportInv, ReadDone, FileThere, Moved
<1> QED
  BY <1>11, <1>12, <1>14 DEF Keeps

(* Looking for a file at the destination only decides whether to go on.      *)
LEMMA LookForDestinationKeeps ==
  ASSUME AInv, NEW p \in Attempts, LookForDestination(p) PROVE Keeps(p)
<1>1. TypeOK /\ AttemptInv(p)
  BY DEF AInv
<1>2. /\ Running(p) /\ step[p] = "look"
      /\ UNCHANGED <<source, destination, temp, snapshot, content, qualities>>
  BY DEF LookForDestination
<1>3. CASE destination # Nobody
  BY <1>1, <1>2, <1>3, RaiseKeeps DEF LookForDestination, TypeOK
<1>4. CASE destination = Nobody
  <2>1. Moved(p, "create", result[p])
    BY <1>1, <1>4, GotoMoves DEF LookForDestination, Steps
  <2>2. destination # p /\ result[p] = "none"
    BY <1>2, NotPublished
  <2>3. TypeOK' /\ Local(p)
    BY <1>1, <1>2, <2>1 DEF TypeOK, source, Moved, Local
  <2>4. AttemptInv(p)'
    BY <1>1, <1>2, <2>1, <2>2, SameStates DEF AttemptInv, ExportInv, BackupInv, ReadDone, FileThere, Moved
  <2> QED
    BY <2>3, <2>4 DEF Keeps
<1> QED
  BY <1>3, <1>4

(* Creating the temporary name is remembered while the attempt runs.         *)
LEMMA CreateTempKeeps ==
  ASSUME AInv, NEW p \in Attempts, CreateTemp(p) PROVE Keeps(p)
<1>1. TypeOK /\ AttemptInv(p)
  BY DEF AInv
<1>2. /\ Running(p) /\ step[p] = "create" /\ temp' = temp \cup {p}
      /\ UNCHANGED <<source, destination, snapshot, content, qualities>>
  BY DEF CreateTemp
<1>3. Moved(p, "copy", result[p])
  BY <1>1, GotoMoves DEF CreateTemp, Steps
<1>4. destination # p /\ result[p] = "none"
  BY <1>2, NotPublished
<1>5. TypeOK' /\ Local(p)
  BY <1>1, <1>2, <1>3 DEF TypeOK, source, Moved, Local
<1>6. AttemptInv(p)'
  BY <1>1, <1>2, <1>3, <1>4, SameStates DEF AttemptInv, ExportInv, BackupInv, ReadDone, FileThere, Moved
<1> QED
  BY <1>5, <1>6 DEF Keeps

(* A backup copies one committed state, an export writes what it has read.   *)
LEMMA WriteFileKeeps ==
  ASSUME AInv, NEW p \in Attempts, WriteFile(p) PROVE Keeps(p)
<1>1. TypeOK /\ AttemptInv(p)
  BY DEF AInv
<1>2. /\ Running(p) /\ step[p] = "copy"
      /\ UNCHANGED <<source, destination, temp, snapshot>>
  BY DEF WriteFile
<1>3. Marked(p, "whole")
  BY <1>1, MarkMarks DEF WriteFile, Qualities
<1>4. destination # p /\ result[p] = "none"
  BY <1>2, NotPublished
<1>5. commits \in 0..commits
  BY <1>1, ArtifactsAssumption DEF TypeOK
<1>6. content \in [Attempts -> [Objects -> (0..commits) \cup {Missing}]]
  BY <1>1 DEF TypeOK
<1>7. CASE p \in Backups
  <2>1. content' = [content EXCEPT ![p] = [o \in Objects |-> commits]]
    BY <1>7 DEF WriteFile, CopiedState
  <2>2. /\ content' \in [Attempts -> [Objects -> (0..commits) \cup {Missing}]]
        /\ content'[p] = [o \in Objects |-> commits]
        /\ \A q \in Attempts \ {p} : content'[q] = content[q]
    BY <1>5, <1>6, <2>1
  <2>3. Uniform(p, 0..commits)'
    BY <1>2, <1>5, <2>2, SameStates DEF Uniform
  <2>4. Moved(p, "detach", result[p])
    BY <1>1, <1>7, GotoMoves DEF WriteFile, Steps
  <2>5. TypeOK' /\ Local(p)
    BY <1>1, <1>2, <1>3, <2>2, <2>4 DEF TypeOK, source, Moved, Marked, Local
  <2>6. p \notin Exports
    BY <1>7, ArtifactsAssumption
  <2>7. AttemptInv(p)'
    BY <1>1, <1>2, <1>3, <1>4, <1>7, <2>3, <2>4, <2>6
    DEF AttemptInv, BackupInv, FileThere, Moved, Marked
  <2> QED BY <2>5, <2>7 DEF Keeps
<1>8. CASE p \notin Backups
  <2>1. content' = content /\ p \in Exports
    BY <1>8 DEF WriteFile, Attempts
  <2>2. Moved(p, "sync", result[p])
    BY <1>1, <1>8, GotoMoves DEF WriteFile, Steps
  <2>3. TypeOK' /\ Local(p)
    BY <1>1, <1>2, <1>3, <2>1, <2>2 DEF TypeOK, source, Moved, Marked, Local
  <2>4. AttemptInv(p)'
    BY <1>1, <1>2, <1>3, <1>4, <1>8, <2>1, <2>2, SameStates
    DEF AttemptInv, ExportInv, ReadDone, FileThere, Moved, Marked
  <2> QED BY <2>3, <2>4 DEF Keeps
<1> QED
  BY <1>7, <1>8

(* Leaving WAL mode makes the copy stand alone.                             *)
LEMMA DetachFromWalKeeps ==
  ASSUME AInv, NEW p \in Attempts, DetachFromWal(p) PROVE Keeps(p)
<1>1. TypeOK /\ AttemptInv(p)
  BY DEF AInv
<1>2. /\ Running(p) /\ step[p] = "detach"
      /\ UNCHANGED <<source, destination, temp, snapshot, content>>
  BY DEF DetachFromWal
<1>3. Moved(p, "validate", result[p]) /\ Marked(p, "standalone")
  BY <1>1, GotoMoves, MarkMarks DEF DetachFromWal, Steps, Qualities
<1>4. destination # p /\ result[p] = "none"
  BY <1>2, NotPublished
<1>5. p \notin Exports
  BY <1>1, <1>2 DEF AttemptInv, ExportInv
<1>6. TypeOK' /\ Local(p)
  BY <1>1, <1>2, <1>3 DEF TypeOK, source, Moved, Marked, Local
<1>7. Uniform(p, 0..commits)' <=> Uniform(p, 0..commits)
  BY <1>2, SameStates DEF Uniform
<1>8. AttemptInv(p)'
  BY <1>1, <1>2, <1>3, <1>4, <1>5, <1>7 DEF AttemptInv, BackupInv, FileThere, Moved, Marked
<1> QED
  BY <1>6, <1>8 DEF Keeps

(* A copy that passes the check holds a state which is committed and sound.  *)
LEMMA ValidateBackupKeeps ==
  ASSUME AInv, NEW p \in Attempts, ValidateBackup(p) PROVE Keeps(p)
<1>1. TypeOK /\ AttemptInv(p)
  BY DEF AInv
<1>2. /\ Running(p) /\ step[p] = "validate"
      /\ UNCHANGED <<source, destination, temp, snapshot, content>>
  BY DEF ValidateBackup
<1>3. p \notin Exports /\ p \in Backups
  BY <1>1, <1>2 DEF AttemptInv, ExportInv, Attempts
<1>4. destination # p /\ result[p] = "none"
  BY <1>2, NotPublished
<1>5. CASE ~Sound(p)
  BY <1>1, <1>2, <1>5, RaiseKeeps DEF ValidateBackup, TypeOK
<1>6. CASE Sound(p)
  <2>1. Moved(p, "sync", result[p]) /\ Marked(p, "validated")
    BY <1>1, <1>6, GotoMoves, MarkMarks DEF ValidateBackup, Steps, Qualities
  <2>2. Uniform(p, 0..commits) /\ "standalone" \in qualities[p] /\ "whole" \in qualities[p]
    BY <1>1, <1>2, <1>3 DEF AttemptInv, BackupInv, FileThere
  <2>3. Uniform(p, SoundStates)
    BY <1>6, <2>2, ArtifactsAssumption DEF Uniform, Sound, SoundStates
  <2>4. Uniform(p, SoundStates)' /\ Uniform(p, 0..commits)'
    BY <1>2, <2>2, <2>3, SameStates DEF Uniform
  <2>5. TypeOK' /\ Local(p)
    BY <1>1, <1>2, <2>1 DEF TypeOK, source, Moved, Marked, Local
  <2>6. AttemptInv(p)'
    BY <1>1, <1>2, <1>3, <1>4, <2>1, <2>2, <2>4 DEF AttemptInv, BackupInv, FileThere, Moved, Marked
  <2> QED
    BY <2>5, <2>6 DEF Keeps
<1> QED
  BY <1>5, <1>6

(* Syncing adds a quality and loses none.                                   *)
LEMMA SyncKeeps ==
  ASSUME AInv, NEW p \in Attempts, Sync(p) PROVE Keeps(p)
<1>1. TypeOK /\ AttemptInv(p)
  BY DEF AInv
<1>2. /\ Running(p) /\ step[p] = "sync"
      /\ UNCHANGED <<source, destination, temp, snapshot, content>>
  BY DEF Sync
<1>3. Moved(p, "publish", result[p]) /\ Marked(p, "synced")
  BY <1>1, GotoMoves, MarkMarks DEF Sync, Steps, Qualities
<1>4. destination # p /\ result[p] = "none"
  BY <1>2, NotPublished
<1>5. TypeOK' /\ Local(p)
  BY <1>1, <1>2, <1>3 DEF TypeOK, source, Moved, Marked, Local
<1>6. /\ Uniform(p, 0..commits)' <=> Uniform(p, 0..commits)
      /\ Uniform(p, SoundStates)' <=> Uniform(p, SoundStates)
  BY <1>2, SameStates DEF Uniform
<1>7. p \in Exports => ExportInv(p)'
  BY <1>1, <1>2, <1>3, SameStates DEF AttemptInv, ExportInv, ReadDone, Moved, Marked
<1>8. p \in Backups => BackupInv(p)'
  BY <1>1, <1>2, <1>3, <1>6 DEF AttemptInv, BackupInv, FileThere, Moved, Marked
<1>9. AttemptInv(p)'
  BY <1>1, <1>2, <1>3, <1>4, <1>7, <1>8 DEF AttemptInv, FileThere, Moved, Marked
<1> QED
  BY <1>5, <1>9 DEF Keeps

(* What an attempt publishes is complete: it went through every step.        *)
LEMMA PublishKeeps ==
  ASSUME AInv, NEW p \in Attempts, Publish(p) PROVE Keeps(p)
<1>1. TypeOK /\ AttemptInv(p)
  BY DEF AInv
<1>2. /\ Running(p) /\ step[p] = "publish"
      /\ destination' = (IF destination = Nobody THEN p ELSE destination)
      /\ IF destination = Nobody THEN Goto(p, "unlink") ELSE Raise(p)
      /\ UNCHANGED <<source, temp, snapshot, content, qualities>>
  BY DEF Publish, MayPublish, PublishRaises
<1>3. CASE destination # Nobody
  BY <1>1, <1>2, <1>3, RaiseKeeps DEF TypeOK
<1> SUFFICES ASSUME destination = Nobody PROVE Keeps(p)
  BY <1>3
<1>4. Moved(p, "unlink", result[p]) /\ destination' = p
  BY <1>1, <1>2, GotoMoves DEF Steps
<1>5. destination # p /\ result[p] = "none"
  BY <1>2, NotPublished
<1>6. p \in Exports => Complete(p)
  <2>1. SUFFICES ASSUME p \in Exports PROVE Complete(p)
    OBVIOUS
  <2>2. p \notin Backups
    BY <2>1, ArtifactsAssumption
  <2>3. Uniform(p, SoundStates)
    BY <1>1, <1>2, <2>1 DEF AttemptInv, ExportInv, ReadDone, Uniform
  <2> QED
    BY <1>1, <1>2, <2>1, <2>2, <2>3 DEF AttemptInv, ExportInv, ReadDone, FileThere, Complete
<1>7. p \in Backups => Complete(p)
  BY <1>1, <1>2 DEF AttemptInv, BackupInv, FileThere, Complete
<1>8. Complete(p)'
  BY <1>2, <1>6, <1>7, SameStates DEF Complete, Uniform, Attempts
<1>9. TypeOK'
  BY <1>1, <1>2, <1>4 DEF TypeOK, source, Moved
<1>10. Local(p)
  BY <1>2, <1>4, ArtifactsAssumption DEF Moved, Local, Attempts
<1>11. AttemptInv(p)'
  BY <1>1, <1>2, <1>4, <1>5, <1>8 DEF AttemptInv, ExportInv, BackupInv, ReadDone, FileThere, Moved
<1> QED
  BY <1>9, <1>10, <1>11 DEF Keeps

(* The attempt that goes through the finally clause without an error has      *)
(* published its artifact: publish() raises on a name that exists.           *)
LEMMA UnlinkKeeps ==
  ASSUME AInv, NEW p \in Attempts, NEW removes \in BOOLEAN, NEW ends \in BOOLEAN,
         Unlink(p, removes, ends)
  PROVE  Keeps(p)
<1>1. TypeOK /\ AttemptInv(p)
  BY DEF AInv
<1>2. /\ Running(p) /\ step[p] = "unlink"
      /\ temp' = (IF removes THEN temp \ {p} ELSE temp)
      /\ UNCHANGED <<source, destination, snapshot, content, qualities>>
  BY DEF Unlink, Unlinked
<1> DEFINE how == IF ~removes THEN "stuck"
                  ELSE IF p \in raised \/ ~ends THEN "failed" ELSE "ok"
<1>3. /\ how \in Results /\ how # "none"
      /\ how = "ok" => destination = p
      /\ ~removes => how = "stuck"
  BY <1>1, <1>2 DEF Results, AttemptInv
<1>4. End(p, how)
  BY DEF Unlink
<1> HIDE DEF how
<1>5. Moved(p, "done", how)
  BY <1>1, <1>3, <1>4, EndMoves
<1>6. TypeOK' /\ Local(p)
  BY <1>1, <1>2, <1>5 DEF TypeOK, source, Moved, Local
<1>7. Complete(p)' <=> Complete(p)
  BY <1>2, SameStates DEF Complete, Uniform
<1>8. p \in temp' => how = "stuck"
  BY <1>2, <1>3
<1>9. AttemptInv(p)'
  BY <1>1, <1>2, <1>3, <1>5, <1>7, <1>8
  DEF AttemptInv, ExportInv, BackupInv, ReadDone, FileThere, Moved
<1> QED
  BY <1>6, <1>9 DEF Keeps

(* A process that dies leaves its files as they are.                        *)
LEMMA ProcessDiesKeeps ==
  ASSUME AInv, NEW p \in Attempts, ProcessDies(p) PROVE Keeps(p)
<1>1. TypeOK /\ AttemptInv(p)
  BY DEF AInv
<1>2. Running(p) /\ UNCHANGED <<source, destination, temp, snapshot, content, qualities>>
  BY DEF ProcessDies
<1>3. Moved(p, "done", "crashed")
  BY <1>1, EndMoves DEF ProcessDies, Results
<1>4. TypeOK' /\ Local(p)
  BY <1>1, <1>2, <1>3 DEF TypeOK, source, Moved, Local
<1>5. Complete(p)' <=> Complete(p)
  BY <1>2, SameStates DEF Complete, Uniform
<1>6. AttemptInv(p)'
  BY <1>1, <1>2, <1>3, <1>5 DEF AttemptInv, ExportInv, BackupInv, ReadDone, FileThere, Moved
<1> QED
  BY <1>4, <1>6 DEF Keeps

-----------------------------------------------------------------------------
(* A file that other software creates is no attempt's artifact.              *)
LEMMA OutsiderStep ==
  ASSUME AInv, OutsiderCreates PROVE AInv'
<1>1. TypeOK' /\ (unsound \subseteq 0..commits)'
  BY DEF AInv, TypeOK, OutsiderCreates, source
<1>2. ASSUME NEW p \in Attempts PROVE AttemptInv(p)'
  <2>1. p # Nobody /\ p # Outsider
    BY ArtifactsAssumption DEF Attempts
  <2>2. AttemptInv(p) BY DEF AInv
  <2> QED
    BY <2>1, <2>2, SameStates DEF OutsiderCreates, AttemptInv, ExportInv, BackupInv, Complete, Uniform, ReadDone, FileThere
<1> QED
  BY <1>1, <1>2 DEF AInv

(* Every step of the system keeps the invariant.                            *)
LEMMA StepInv == AInv /\ [Next]_vars => AInv'
<1> SUFFICES ASSUME AInv, [Next]_vars PROVE AInv'
  OBVIOUS
<1>1. ASSUME NEW p \in Attempts, Keeps(p), UNCHANGED source PROVE AInv'
  BY <1>1, Assemble DEF Keeps
<1>2. ASSUME NEW p \in Attempts, Step(p) PROVE AInv'
  <2>1. UNCHANGED source
    BY <1>2 DEF Step, ReadObject, CheckSource, LookForDestination, CreateTemp, WriteFile, DetachFromWal, ValidateBackup, Sync, Publish, Unlink
  <2>2. CASE \E o \in Objects : ReadObject(p, o)
    BY <2>2, ReadObjectKeeps, <1>1, <2>1
  <2>3. CASE CheckSource(p)
    BY <2>3, CheckSourceKeeps, <1>1, <2>1
  <2>4. CASE LookForDestination(p)
    BY <2>4, LookForDestinationKeeps, <1>1, <2>1
  <2>5. CASE CreateTemp(p)
    BY <2>5, CreateTempKeeps, <1>1, <2>1
  <2>6. CASE WriteFile(p)
    BY <2>6, WriteFileKeeps, <1>1, <2>1
  <2>7. CASE DetachFromWal(p)
    BY <2>7, DetachFromWalKeeps, <1>1, <2>1
  <2>8. CASE ValidateBackup(p)
    BY <2>8, ValidateBackupKeeps, <1>1, <2>1
  <2>9. CASE Sync(p)
    BY <2>9, SyncKeeps, <1>1, <2>1
  <2>10. CASE Publish(p)
    BY <2>10, PublishKeeps, <1>1, <2>1
  <2>11. CASE \E removes, ends \in BOOLEAN : Unlink(p, removes, ends)
    BY <2>11, UnlinkKeeps, <1>1, <2>1
  <2> QED
    BY <1>2, <2>2, <2>3, <2>4, <2>5, <2>6, <2>7, <2>8, <2>9, <2>10, <2>11 DEF Step
<1>3. ASSUME NEW p \in Attempts, Fault(p) PROVE AInv'
  <2>1. Keeps(p) /\ UNCHANGED source
    BY <1>3, RaiseKeeps DEF Fault, AInv, TypeOK
  <2> QED BY <2>1, <1>1
<1>4. ASSUME NEW p \in Attempts, ProcessDies(p) PROVE AInv'
  BY <1>1, <1>4, ProcessDiesKeeps DEF ProcessDies
<1>5. CASE UNCHANGED vars
  <2>1. TypeOK' /\ (unsound \subseteq 0..commits)'
    BY <1>5 DEF AInv, TypeOK, vars
  <2>2. ASSUME NEW p \in Attempts PROVE AttemptInv(p)'
    BY <1>5 DEF AInv, vars, AttemptInv, ExportInv, BackupInv, Complete, Uniform, SoundStates
  <2> QED BY <2>1, <2>2 DEF AInv
<1> QED
  BY <1>2, <1>3, <1>4, <1>5, SourceStep, OutsiderStep DEF Next

(* The inductive invariant holds in every reachable state.                   *)
LEMMA AlwaysInv == Spec => []AInv
  BY InitInv, StepInv, PTL DEF Spec

-----------------------------------------------------------------------------
(* Every variable keeps its type.                                           *)
THEOREM ArtifactTypes == Spec => []TypeOK
<1>1. AInv => TypeOK BY DEF AInv
<1> QED BY <1>1, AlwaysInv, PTL

(* What bears the destination's name is a complete, sound, synced artifact   *)
(* of one committed state (backup, _write_artifact).                        *)
THEOREM NameMeansComplete == Spec => []PublishedIsComplete
<1>1. AInv => PublishedIsComplete
  BY DEF AInv, AttemptInv, Complete, Uniform, SoundStates, PublishedIsComplete
<1> QED BY <1>1, AlwaysInv, PTL

(* An attempt that returned normally has published its own artifact, though   *)
(* it never looks at the destination after its publication (publish,         *)
(* backup, export): every error on the way there reaches its caller.         *)
THEOREM SuccessIsTrue == Spec => []SuccessIsPublished
<1>1. AInv => SuccessIsPublished
  BY DEF AInv, AttemptInv, SuccessIsPublished
<1> QED BY <1>1, AlwaysInv, PTL

(* A temporary file outlives its attempt only where the process died or the  *)
(* removal failed.                                                          *)
THEOREM TempsAreRemoved == Spec => []NoLeftovers
<1>1. AInv => NoLeftovers
  <2> SUFFICES ASSUME AInv, NEW p \in temp PROVE result[p] \in {"none", "stuck", "crashed"}
    BY DEF NoLeftovers
  <2>1. p \in Attempts BY DEF AInv, TypeOK
  <2> QED BY <2>1 DEF AInv, AttemptInv
<1> QED BY <1>1, AlwaysInv, PTL

(* No step replaces the file at the destination or writes into an artifact   *)
(* that bears its name: publishing is a hard link, which fails on a name.    *)
THEOREM DestinationIsFinal == Spec => NeverOverwritten
<1>1. AInv /\ [Next]_vars =>
        [destination # Nobody =>
          /\ destination' = destination
          /\ destination \in Attempts => content'[destination] = content[destination]]_vars
  <2> SUFFICES ASSUME AInv, Next, destination # Nobody
               PROVE  /\ destination' = destination
                      /\ destination \in Attempts => content'[destination] = content[destination]
    OBVIOUS
  <2>1. destination' = destination
    BY DEF Next, Step, SourceCommit, OutsiderCreates, ReadObject, CheckSource, LookForDestination, CreateTemp, WriteFile, DetachFromWal, ValidateBackup, Sync, Publish, MayPublish, Unlink, Fault, ProcessDies
  <2>2. destination \in Attempts => step[destination] \in {"unlink", "done"}
    BY DEF AInv, AttemptInv
  <2>3. content \in [Attempts -> [Objects -> (0..commits) \cup {Missing}]]
    BY DEF AInv, TypeOK
  <2>4. ASSUME NEW p \in Attempts, NEW o \in Objects, ReadObject(p, o), destination \in Attempts
        PROVE  content'[destination] = content[destination]
    BY <2>2, <2>3, <2>4 DEF ReadObject
  <2>5. ASSUME NEW p \in Attempts, WriteFile(p), destination \in Attempts
        PROVE  content'[destination] = content[destination]
    BY <2>2, <2>3, <2>5 DEF WriteFile
  <2>6. \/ content' = content
        \/ \E p \in Attempts : WriteFile(p) \/ \E o \in Objects : ReadObject(p, o)
    BY DEF Next, Step, SourceCommit, OutsiderCreates, CheckSource, LookForDestination, CreateTemp, DetachFromWal, ValidateBackup, Sync, Publish, Unlink, Fault, ProcessDies
  <2> QED
    BY <2>1, <2>4, <2>5, <2>6
<1> QED BY <1>1, AlwaysInv, PTL DEF Spec, NeverOverwritten
=============================================================================
