------------------------------ MODULE Maintenance ------------------------------
(***************************************************************************)
(* The processes of OpenFile use the file they opened: scopes read and write  *)
(* it, and one handle runs maintain_sqlite, statistics under a bounded        *)
(* analysis limit and then a checkpoint of the WAL with its report, while     *)
(* the others open, convert and use the file.                               *)
(*                                                                         *)
(* The WAL is a number of frames; a prefix of them is copied to the database *)
(* file.  A scope sees the file and the frames up to its mark; one that      *)
(* found every frame copied reads the file alone, at mark 0.                *)
(***************************************************************************)
EXTENDS OpenFile, Integers, FiniteSets, FiniteSetsExt

CONSTANTS
  Keeper,          \* the process whose handle maintains the file
  MaxFrames,       \* bound on the frames of the WAL
  Off              \* no mark, no writer, no limit saved, no report

ASSUME MaintenanceAssumption ==
  Keeper \in Openers /\ MaxFrames \in Nat /\ Off \notin Openers \cup Nat

VARIABLES
  frames,          \* committed frames of the WAL
  copied,          \* how many of them are in the database file
  mark,            \* per process: the mark of its scope
  writer,          \* the process that is in a write scope
  job,             \* how far the keeper's call is
  limit,           \* the keeper's analysis_limit: 0 is the application's
  previous,        \* the limit to restore
  result           \* the checkpoint that was just reported

wal == <<frames, copied>>
scopes == <<mark, writer>>
call == <<job, limit, previous>>
allVars == <<vars, wal, scopes, call, result>>

Checkpoints == {"passive", "full", "restart", "truncate"}
Report == [mode : Checkpoints, busy : BOOLEAN, active : BOOLEAN, complete : BOOLEAN]

MaintenanceTypeOK ==
  /\ TypeOK
  /\ frames \in 0..MaxFrames /\ copied \in 0..frames /\ (file # "wal" => frames = 0)
  /\ mark \in [Openers -> (0..MaxFrames) \cup {Off}]
  /\ \A p \in Openers : mark[p] # Off => pc[p] = "scope"
  /\ writer \in Openers \cup {Off} /\ (writer # Off => pc[writer] = "scope")
  /\ job \in {"none", "optimize", "analyze", "limited", "restore", "failing", "checkpoint"}
  /\ job # "none" => pc[Keeper] = "open" /\ Writable(Keeper)
  /\ limit \in {0, 400} /\ previous \in {0, 400, Off}
  /\ previous # Off <=> job \in {"limited", "restore", "failing"}
  /\ result \in Report \cup {Off}

-----------------------------------------------------------------------------
(* Forms of the definitions below that a mistake in the code would give;    *)
(* no specification uses them.                                              *)

FramesOnly(busy, log, done) == log >= 0 /\ log = done

OnSuccessOnly(next) ==
  job' = next /\ limit' = (IF job = "restore" THEN previous ELSE limit) /\ previous' = Off

-----------------------------------------------------------------------------
MaintenanceInit ==
  /\ Init
  /\ frames = 0 /\ copied = 0 /\ mark = [p \in Openers |-> Off] /\ writer = Off
  /\ job = "none" /\ limit = 0 /\ previous = Off /\ result = Off

Marks == {mark[p] : p \in Openers} \ {Off}

(* How far SQLite can copy: not past a mark, and not at all while a scope     *)
(* uses the file alone.                                                     *)
Copyable == IF 0 \in Marks THEN copied ELSE Max({copied, Min(Marks \cup {frames})})

(* PRAGMA wal_checkpoint.  The modes above PASSIVE also need the writer gone *)
(* and every frame copied, RESTART and TRUNCATE need no reader in the WAL,   *)
(* and TRUNCATE empties it and answers with zeros.                          *)
Obstructed(mode) ==
  /\ mode # "passive"
  /\ \/ writer # Off \/ Copyable < frames
     \/ mode \in {"restart", "truncate"} /\ Marks \ {0} # {}

Emptied(mode) == mode = "truncate" /\ ~Obstructed(mode)

(* complete, of the answer to the PRAGMA.                                   *)
Complete(busy, log, done) == log >= 0 /\ ~busy /\ log = done

Answer(mode, busy, log, done) ==
  [mode |-> mode, busy |-> busy, active |-> log >= 0 /\ done >= 0,
   complete |-> Complete(busy, log, done)]

-----------------------------------------------------------------------------
(* Database.maintain_sqlite accepts the call: the handle is writable and not  *)
(* in a scope.                                                              *)
Call(first) ==
  /\ job = "none" /\ pc[Keeper] = "open" /\ Writable(Keeper)
  /\ job' = first
  /\ UNCHANGED <<vars, wal, scopes, limit, previous>>

(* Libraries before 3.46 run PRAGMA optimize without a limit of their own.   *)
Unlimited == ~AtLeast(version[Keeper], <<3, 46, 0>>)

LowerLimit ==
  /\ job = "optimize" /\ Unlimited
  /\ previous' = limit /\ limit' = 400 /\ job' = "limited"
  /\ UNCHANGED <<vars, wal, scopes>>

(* The caller may have asked for no checkpoint.                             *)
AfterStatistics == {"checkpoint", "none"}

(* PRAGMA optimize or ANALYZE, which may raise for a lock or disk trouble,    *)
(* and may have read the file.                                              *)
Statistics(raises) ==
  /\ \/ job = "limited" /\ job' = IF raises THEN "failing" ELSE "restore"
     \/ /\ job = "analyze" \/ (job = "optimize" /\ ~Unlimited)
        /\ job' \in IF raises THEN {"none"} ELSE AfterStatistics
  /\ Reread(Keeper) \/ UNCHANGED vars
  /\ UNCHANGED <<wal, scopes, limit, previous>>

Restored(next) == job' = next /\ limit' = previous /\ previous' = Off

(* The finally clause, after success or failure.                            *)
RestoreLimit ==
  /\ \/ job = "failing" /\ Restored("none")
     \/ job = "restore" /\ \E next \in AfterStatistics : Restored(next)
  /\ UNCHANGED <<vars, wal, scopes>>

(* A connection that does not know of the WAL leaves it alone.               *)
Checkpoint(mode) ==
  /\ job = "checkpoint" /\ job' = "none"
  /\ IF known[Keeper] # "wal"
       THEN result' = Answer(mode, FALSE, -1, -1) /\ UNCHANGED wal
     ELSE IF Emptied(mode)
       THEN frames' = 0 /\ copied' = 0 /\ result' = Answer(mode, FALSE, 0, 0)
     ELSE /\ copied' = Copyable /\ UNCHANGED frames
          /\ result' = Answer(mode, Obstructed(mode), frames, Copyable)
  /\ UNCHANGED <<vars, scopes, limit, previous>>

CheckpointFails ==
  /\ job = "checkpoint" /\ job' = "none"
  /\ UNCHANGED <<vars, wal, scopes, limit, previous>>

-----------------------------------------------------------------------------
(* A handle's thread is in a call until it returns.                          *)
Free(p) == p = Keeper => job = "none"

EnterScope(p) ==
  /\ Free(p) /\ Enter(p)
  /\ mark' = [mark EXCEPT ![p] = IF file # "wal" THEN Off ELSE IF copied = frames THEN 0 ELSE frames]
  /\ \/ UNCHANGED writer
     \/ writer = Off /\ Writable(p) /\ writer' = p
  /\ UNCHANGED <<wal, call>>

(* A commit appends a frame, or starts the WAL anew if every frame is copied *)
(* and no scope needs one.                                                  *)
Appended ==
  IF frames > 0 /\ copied = frames /\ Marks \subseteq {0}
  THEN frames' = 1 /\ copied' = 0
  ELSE frames < MaxFrames /\ frames' = frames + 1 /\ UNCHANGED copied

LeaveScope(p, commits) ==
  /\ Leave(p)
  /\ IF commits THEN writer = p /\ file = "wal" /\ Appended ELSE UNCHANGED wal
  /\ mark' = [mark EXCEPT ![p] = Off] /\ writer' = IF writer = p THEN Off ELSE writer
  /\ UNCHANGED call

(* The last connection to leave a WAL file copies and removes the WAL, unless *)
(* it dies.                                                                 *)
CloseFile(p) ==
  /\ Close(p)
  /\ \/ UNCHANGED wal
     \/ /\ Writable(p) /\ known[p] = "wal" /\ \A q \in Others(p) : known[q] # "wal"
        /\ frames' = 0 /\ copied' = 0
  /\ mark' = [mark EXCEPT ![p] = Off] /\ writer' = IF writer = p THEN Off ELSE writer
  /\ IF p = Keeper THEN job' = "none" /\ limit' = 0 /\ previous' = Off ELSE UNCHANGED call

(* The conversion to DELETE copies and removes the WAL.                      *)
OpenStep(p) ==
  /\ \/ \E wants \in Modes \cup {"none"}, ro \in BOOLEAN : Look(p, wants, ro)
     \/ Connect(p) \/ ReadMode(p) \/ Configure(p) \/ OpenFails(p)
  /\ UNCHANGED <<wal, scopes, call>>

ConvertFile(p) ==
  /\ Convert(p)
  /\ IF file' = file THEN UNCHANGED wal ELSE frames' = 0 /\ copied' = 0
  /\ UNCHANGED <<scopes, call>>

MaintenanceNext ==
  \/ \E mode \in Checkpoints : Checkpoint(mode)
  \/ /\ \/ \E first \in {"optimize", "analyze", "checkpoint"} : Call(first)
        \/ LowerLimit \/ RestoreLimit \/ CheckpointFails
        \/ \E raises \in BOOLEAN : Statistics(raises)
        \/ \E p \in Openers :
             \/ OpenStep(p) \/ ConvertFile(p) \/ EnterScope(p) \/ CloseFile(p)
             \/ \E commits \in BOOLEAN : LeaveScope(p, commits)
     /\ result' = Off

MaintenanceSpec == MaintenanceInit /\ [][MaintenanceNext]_allVars

-----------------------------------------------------------------------------
(* A checkpoint reported complete has brought every committed frame into     *)
(* the database file, whatever the scopes of other processes held back, and   *)
(* if it was to truncate the WAL, has emptied it.                           *)
CompleteIsTrue ==
  [][result' # Off /\ result'.complete =>
       /\ file = "wal" /\ copied' = frames'
       /\ result'.mode = "truncate" => frames' = 0]_allVars

(* No failure leaves the lowered limit on the connection.                   *)
LimitRestored == job = "none" => limit = 0
=============================================================================
