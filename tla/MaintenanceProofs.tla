--------------------------- MODULE MaintenanceProofs ---------------------------
(***************************************************************************)
(* The journal mode of a file shared by any number of processes with any      *)
(* libraries, and the analysis limit of the handle that maintains it:         *)
(* Maintenance implements OpenFile, whose invariant gives its safety.         *)
(***************************************************************************)
EXTENDS Maintenance, WellFoundedInduction, TLAPS

Checked == {"configuring", "open", "scope"}

(* A connection has made the file.                                          *)
FileInv == \A p \in Openers : pc[p] \notin {"closed", "looked"} => file # "absent"

(* The mode selected was asked for, or is the default for a file not found.  *)
SelectedInv ==
  \A p \in Openers : pc[p] # "closed" =>
    /\ selected[p] = asked[p] \/ p \in founders
    /\ selected[p] = "wal" /\ Writable(p) => Qualified(p)

ConvertingInv ==
  \A p \in Openers : pc[p] = "converting" => Writable(p) /\ selected[p] \in Modes

(* A handle that selected WAL has the WAL open, which keeps it.               *)
WalInv ==
  \A p \in Openers : pc[p] \in Checked /\ selected[p] = "wal" => known[p] = "wal" /\ file = "wal"

(* A scope pins the mode; an open handle knows it unless overtaken.          *)
KnownInv ==
  \A p \in Openers :
    pc[p] = "scope" \/ (pc[p] = "open" /\ p \notin overtaken) => known[p] = file

UnsafeInv ==
  \A p \in Openers :
    pc[p] \in Checked /\ Writable(p) /\ ~Qualified(p) /\ file = "wal" => p \in overtaken

OInv == TypeOK /\ FileInv /\ SelectedInv /\ ConvertingInv /\ WalInv /\ KnownInv /\ UnsafeInv

-----------------------------------------------------------------------------
LEMMA OInit == Init => OInv
BY DEF Init, OInv, TypeOK, FileInv, SelectedInv, ConvertingInv, WalInv, KnownInv, UnsafeInv,
       Modes, Checked

LEMMA QualifiedStays ==
  ASSUME version' = version, NEW p \in Openers
  PROVE  Qualified(p)' <=> Qualified(p)
BY DEF Qualified, WalSafe, AtLeast

LEMMA LookStep ==
  ASSUME OInv, NEW p \in Openers, NEW wants \in Modes \cup {"none"}, NEW ro \in BOOLEAN,
         Look(p, wants, ro)
  PROVE  OInv'
<1> DEFINE mode == IF TakesDefault(wants, file # "absent") THEN Default(p) ELSE wants
<1>1. version' = version /\ file' = file /\ known' = known /\ walWorks' = walWorks
  BY DEF Look
<1>2. /\ pc' = [pc EXCEPT ![p] = "looked"] /\ selected' = [selected EXCEPT ![p] = mode]
      /\ asked' = [asked EXCEPT ![p] = wants] /\ overtaken' = overtaken \ {p}
      /\ readonly' = IF ro THEN readonly \cup {p} ELSE readonly
      /\ founders' = IF file = "absent" THEN founders \cup {p} ELSE founders \ {p}
      /\ pc[p] = "closed" /\ ~Refused(p, mode, ro)
  BY DEF Look, At
<1>3. mode \in Modes \cup {"none"} /\ (mode = wants \/ file = "absent")
  BY DEF TakesDefault, Default, Modes
<1>4. mode = "wal" /\ ~ro => Qualified(p)
  BY <1>2 DEF Refused
<1> HIDE DEF mode
<1>5. TypeOK'
  BY <1>1, <1>2, <1>3 DEF OInv, TypeOK, Modes
<1>6. FileInv' /\ ConvertingInv' /\ WalInv' /\ KnownInv'
  BY <1>1, <1>2, <1>3 DEF OInv, TypeOK, FileInv, ConvertingInv, WalInv, KnownInv, Checked, Writable
<1>7. SelectedInv'
  BY <1>1, <1>2, <1>3, <1>4, QualifiedStays DEF OInv, TypeOK, SelectedInv, Writable
<1>8. UnsafeInv'
  BY <1>1, <1>2, QualifiedStays DEF OInv, TypeOK, UnsafeInv, Checked, Writable
<1> QED BY <1>5, <1>6, <1>7, <1>8 DEF OInv

LEMMA ConnectStep ==
  ASSUME OInv, NEW p \in Openers, Connect(p)
  PROVE  OInv'
<1>1. TypeOK'
  BY DEF Connect, At, seen, OInv, TypeOK, Modes
<1>2. FileInv' /\ SelectedInv' /\ ConvertingInv'
  BY QualifiedStays
  DEF Connect, At, seen, OInv, TypeOK, FileInv, SelectedInv, ConvertingInv, Writable, Modes
<1>3. WalInv' /\ KnownInv' /\ UnsafeInv'
  BY QualifiedStays
  DEF Connect, At, seen, OInv, TypeOK, FileInv, WalInv, KnownInv, UnsafeInv, Writable, Checked
<1> QED BY <1>1, <1>2, <1>3 DEF OInv

LEMMA SettleType ==
  ASSUME TypeOK, NEW p \in Openers, NEW mode \in Modes, Settle(p, mode), version' = version,
         walWorks' = walWorks, file' \in Modes, overtaken' \subseteq Openers, founders' = founders
  PROVE  TypeOK'
BY DEF Settle, ToClosed, At, TypeOK, Modes

LEMMA ReadModeStep ==
  ASSUME OInv, NEW p \in Openers, ReadMode(p)
  PROVE  OInv'
<1>1. /\ version' = version /\ file' = file /\ walWorks' = walWorks /\ founders' = founders
      /\ overtaken' = overtaken /\ pc[p] = "connected" /\ file \in Modes
  BY DEF ReadMode, seen, OInv, TypeOK, FileInv
<1>2. CASE selected[p] \in Modes \ {file} /\ Writable(p)
  <2>1. /\ pc' = [pc EXCEPT ![p] = "converting"] /\ known' = [known EXCEPT ![p] = file]
        /\ asked' = asked /\ readonly' = readonly /\ selected' = selected
    BY <1>2 DEF ReadMode, At
  <2>2. TypeOK' BY <1>1, <2>1 DEF OInv, TypeOK
  <2>3. FileInv' /\ SelectedInv' /\ ConvertingInv'
    BY <1>1, <1>2, <2>1, QualifiedStays
    DEF OInv, TypeOK, FileInv, SelectedInv, ConvertingInv, Writable, Modes
  <2>4. WalInv' /\ KnownInv' /\ UnsafeInv'
    BY <1>1, <2>1, QualifiedStays
    DEF OInv, TypeOK, WalInv, KnownInv, UnsafeInv, Writable, Checked
  <2> QED BY <2>2, <2>3, <2>4 DEF OInv
<1>3. CASE ~(selected[p] \in Modes \ {file} /\ Writable(p))
  <2>1. Settle(p, file) BY <1>3 DEF ReadMode
  <2>2. TypeOK' BY <1>1, <2>1, SettleType DEF OInv, TypeOK
  <2>3. CASE Acceptable(p, file)
    <3>1. /\ pc' = [pc EXCEPT ![p] = "configuring"] /\ known' = [known EXCEPT ![p] = file]
          /\ asked' = asked /\ readonly' = readonly /\ selected' = selected
      BY <2>1, <2>3 DEF Settle, At
    <3>2. FileInv' /\ SelectedInv' /\ ConvertingInv'
      BY <1>1, <3>1, QualifiedStays
      DEF OInv, TypeOK, FileInv, SelectedInv, ConvertingInv, Writable, Modes
    <3>3. WalInv' /\ KnownInv' /\ UnsafeInv'
      BY <1>1, <2>3, <3>1, QualifiedStays
      DEF OInv, TypeOK, WalInv, KnownInv, UnsafeInv, Writable, Checked, Acceptable
    <3> QED BY <2>2, <3>2, <3>3 DEF OInv
  <2>4. CASE ~Acceptable(p, file)
    <3>1. ToClosed(p) BY <2>1, <2>4 DEF Settle
    <3> QED BY <1>1, <2>2, <3>1, QualifiedStays
        DEF ToClosed, OInv, TypeOK, FileInv, SelectedInv, ConvertingInv, WalInv, KnownInv,
            UnsafeInv, Writable, Checked
  <2> QED BY <2>3, <2>4
<1> QED BY <1>2, <1>3

(* The only step that changes the mode of a file there is.  Leaving WAL needs *)
(* the others to have let go of it, entering it needs them out of their       *)
(* scopes and overtakes those that have been checked.                       *)
LEMMA ConvertStep ==
  ASSUME OInv, NEW p \in Openers, Convert(p)
  PROVE  OInv'
<1> DEFINE mode == IF selected[p] = "wal" /\ ~walWorks THEN file ELSE selected[p]
<1>1. /\ version' = version /\ walWorks' = walWorks /\ founders' = founders
      /\ pc[p] = "converting" /\ selected[p] \in Modes /\ file \in Modes /\ Writable(p)
  BY DEF Convert, OInv, ConvertingInv, FileInv, TypeOK
<1>2. mode \in Modes /\ file' = mode /\ Settle(p, mode) /\ (mode = file \/ mode = selected[p])
  BY <1>1 DEF Convert
<1>3. mode = file =>
        overtaken' = overtaken
  BY <1>2 DEF Convert
<1>4. mode # file /\ mode = "wal" =>
        /\ overtaken' = overtaken \cup {q \in Others(p) : pc[q] \in {"configuring", "open"}}
        /\ \A q \in Others(p) : pc[q] # "scope"
  BY <1>1, <1>2 DEF Convert, Convertible, Modes
<1>5. mode # file /\ mode = "delete" =>
        overtaken' = overtaken /\ \A q \in Others(p) : known[q] # "wal"
  BY <1>1, <1>2 DEF Convert, Convertible, Modes
<1>6. overtaken \subseteq overtaken' /\ overtaken' \subseteq Openers
  BY <1>2, <1>3, <1>4, <1>5 DEF Modes, OInv, TypeOK, Others
<1> HIDE DEF mode
<1>7. TypeOK' BY <1>1, <1>2, <1>6, SettleType DEF OInv
(* What becomes of the others.                                              *)
<1>8. ASSUME NEW q \in Others(p)
      PROVE  /\ pc'[q] = pc[q] /\ known'[q] = known[q] /\ selected'[q] = selected[q]
             /\ asked'[q] = asked[q] /\ (Writable(q)' <=> Writable(q)) /\ (Qualified(q)' <=> Qualified(q))
  BY <1>1, <1>2, QualifiedStays DEF Settle, ToClosed, At, Others, OInv, TypeOK, Writable
<1>9. ASSUME NEW q \in Others(p)
      PROVE  /\ pc[q] \in Checked /\ selected[q] = "wal" => known[q] = "wal" /\ file' = "wal"
             /\ pc[q] = "scope" \/ (pc[q] = "open" /\ q \notin overtaken') => known[q] = file'
             /\ pc[q] \in Checked /\ Writable(q) /\ ~Qualified(q) /\ file' = "wal" => q \in overtaken'
  <2> USE <1>1, <1>2, <1>6, <1>9 DEF OInv, WalInv, KnownInv, UnsafeInv, Checked, Others, Modes
  <2>1. CASE mode = file
    BY <2>1
  <2>2. CASE mode # file /\ mode = "wal"
    BY <2>2, <1>4
  <2>3. CASE mode # file /\ mode = "delete"
    BY <2>3, <1>5
  <2> QED BY <2>1, <2>2, <2>3
(* What becomes of the converter.                                           *)
<1>10. \/ /\ Acceptable(p, mode) /\ pc'[p] = "configuring" /\ known'[p] = mode
          /\ selected'[p] = selected[p] /\ asked'[p] = asked[p] /\ (Writable(p)' <=> Writable(p))
       \/ pc'[p] = "closed"
  BY <1>1, <1>2 DEF Settle, ToClosed, At, OInv, TypeOK, Writable
<1>11. FileInv' /\ ConvertingInv' /\ SelectedInv'
  <2>1. FileInv' BY <1>2 DEF FileInv, Modes
  <2>2. ConvertingInv'
    BY <1>8, <1>10 DEF ConvertingInv, OInv, Others
  <2>3. SelectedInv'
    <3> SUFFICES ASSUME NEW q \in Openers, pc'[q] # "closed"
                 PROVE  /\ selected'[q] = asked'[q] \/ q \in founders'
                        /\ selected'[q] = "wal" /\ Writable(q)' => Qualified(q)'
      BY DEF SelectedInv
    <3>1. CASE q = p BY <3>1, <1>1, <1>10, QualifiedStays DEF SelectedInv, OInv
    <3>2. CASE q # p
      <4>1. q \in Others(p) BY <3>2 DEF Others
      <4> QED BY <4>1, <1>1, <1>8 DEF SelectedInv, OInv
    <3> QED BY <3>1, <3>2
  <2> QED BY <2>1, <2>2, <2>3
<1>12. WalInv'
  <2> SUFFICES ASSUME NEW q \in Openers, pc'[q] \in Checked, selected'[q] = "wal"
               PROVE  known'[q] = "wal" /\ file' = "wal"
    BY DEF WalInv
  <2>1. CASE q = p BY <2>1, <1>2, <1>10 DEF Acceptable, Checked
  <2>2. CASE q # p
    <3>1. q \in Others(p) BY <2>2 DEF Others
    <3> QED BY <3>1, <1>8, <1>9
  <2> QED BY <2>1, <2>2
<1>13. KnownInv'
  <2> SUFFICES ASSUME NEW q \in Openers, pc'[q] = "scope" \/ (pc'[q] = "open" /\ q \notin overtaken')
               PROVE  known'[q] = file'
    BY DEF KnownInv
  <2>1. q # p BY <1>10
  <2>2. q \in Others(p) BY <2>1 DEF Others
  <2> QED BY <2>2, <1>8, <1>9
<1>14. UnsafeInv'
  <2> SUFFICES ASSUME NEW q \in Openers,
                      pc'[q] \in Checked, Writable(q)', ~Qualified(q)', file' = "wal"
               PROVE  q \in overtaken'
    BY DEF UnsafeInv
  <2>1. CASE q = p
    BY <2>1, <1>1, <1>2, <1>10, QualifiedStays DEF Acceptable, Checked
  <2>2. CASE q # p
    <3>1. q \in Others(p) BY <2>2 DEF Others
    <3> QED BY <3>1, <1>8, <1>9
  <2> QED BY <2>1, <2>2
<1> QED BY <1>7, <1>11, <1>12, <1>13, <1>14 DEF OInv

LEMMA ConfigureStep ==
  ASSUME OInv, NEW p \in Openers, Configure(p)
  PROVE  OInv'
BY QualifiedStays
DEF Configure, At, seen, OInv, TypeOK, FileInv, SelectedInv, ConvertingInv, WalInv, KnownInv,
    UnsafeInv, Writable, Checked

(* OpenFails and Close.                                                     *)
LEMMA ClosedStep ==
  ASSUME OInv, NEW p \in Openers, ToClosed(p), UNCHANGED <<file, walWorks, version, seen>>
  PROVE  OInv'
BY QualifiedStays
DEF ToClosed, seen, OInv, TypeOK, FileInv, SelectedInv, ConvertingInv, WalInv, KnownInv,
    UnsafeInv, Writable, Checked

LEMMA EnterStep ==
  ASSUME OInv, NEW p \in Openers, Enter(p)
  PROVE  OInv'
BY QualifiedStays
DEF Enter, At, seen, OInv, TypeOK, FileInv, SelectedInv, ConvertingInv, WalInv, KnownInv,
    UnsafeInv, Writable, Checked

LEMMA LeaveStep ==
  ASSUME OInv, NEW p \in Openers, Leave(p)
  PROVE  OInv'
BY QualifiedStays
DEF Leave, At, seen, OInv, TypeOK, FileInv, SelectedInv, ConvertingInv, WalInv, KnownInv,
    UnsafeInv, Writable, Checked

LEMMA RereadStep ==
  ASSUME OInv, NEW p \in Openers, Reread(p)
  PROVE  OInv'
BY QualifiedStays
DEF Reread, seen, OInv, TypeOK, FileInv, SelectedInv, ConvertingInv, WalInv, KnownInv,
    UnsafeInv, Writable, Checked

LEMMA OStep == OInv /\ [Next]_vars => OInv'
<1> SUFFICES ASSUME OInv, [Next]_vars PROVE OInv'
  OBVIOUS
<1>1. ASSUME NEW p \in Openers, NEW wants \in Modes \cup {"none"}, NEW ro \in BOOLEAN,
             Look(p, wants, ro)
      PROVE  OInv'
  BY <1>1, LookStep
<1>2. ASSUME NEW p \in Openers, Connect(p) PROVE OInv'
  BY <1>2, ConnectStep
<1>3. ASSUME NEW p \in Openers, ReadMode(p) PROVE OInv'
  BY <1>3, ReadModeStep
<1>4. ASSUME NEW p \in Openers, Convert(p) PROVE OInv'
  BY <1>4, ConvertStep
<1>5. ASSUME NEW p \in Openers, Configure(p) PROVE OInv'
  BY <1>5, ConfigureStep
<1>6. ASSUME NEW p \in Openers, OpenFails(p) \/ Close(p) PROVE OInv'
  BY <1>6, ClosedStep DEF OpenFails, Close
<1>7. ASSUME NEW p \in Openers, Enter(p) PROVE OInv'
  BY <1>7, EnterStep
<1>8. ASSUME NEW p \in Openers, Leave(p) PROVE OInv'
  BY <1>8, LeaveStep
<1>9. ASSUME NEW p \in Openers, Reread(p) PROVE OInv'
  BY <1>9, RereadStep
<1>10. CASE UNCHANGED vars
  BY <1>10, QualifiedStays
  DEF vars, seen, OInv, TypeOK, FileInv, SelectedInv, ConvertingInv, WalInv, KnownInv, UnsafeInv,
      Writable, Checked
<1> QED BY <1>1, <1>2, <1>3, <1>4, <1>5, <1>6, <1>7, <1>8, <1>9, <1>10 DEF Next

-----------------------------------------------------------------------------
(* Whatever scopes and maintenance do, the opening of the file goes on as     *)
(* OpenFile has it.                                                         *)
LEMMA MaintenanceStep == [MaintenanceNext]_allVars => [Next]_vars
<1> SUFFICES ASSUME [MaintenanceNext]_allVars PROVE [Next]_vars
  OBVIOUS
<1>1. ASSUME NEW mode \in Checkpoints, Checkpoint(mode) PROVE [Next]_vars
  BY <1>1 DEF Checkpoint
<1>2. ASSUME NEW first \in {"optimize", "analyze", "checkpoint"}, Call(first) PROVE [Next]_vars
  BY <1>2 DEF Call
<1>3. CASE LowerLimit \/ RestoreLimit \/ CheckpointFails
  BY <1>3 DEF LowerLimit, RestoreLimit, CheckpointFails
<1>4. ASSUME NEW raises \in BOOLEAN, Statistics(raises) PROVE [Next]_vars
  BY <1>4, MaintenanceAssumption DEF Statistics, Next
<1>5. ASSUME NEW p \in Openers, OpenStep(p) PROVE [Next]_vars
  BY <1>5 DEF OpenStep, Next
<1>6. ASSUME NEW p \in Openers, ConvertFile(p) PROVE [Next]_vars
  BY <1>6 DEF ConvertFile, Next
<1>7. ASSUME NEW p \in Openers, EnterScope(p) PROVE [Next]_vars
  BY <1>7 DEF EnterScope, Next
<1>8. ASSUME NEW p \in Openers, CloseFile(p) PROVE [Next]_vars
  BY <1>8 DEF CloseFile, Next
<1>9. ASSUME NEW p \in Openers, NEW commits \in BOOLEAN, LeaveScope(p, commits) PROVE [Next]_vars
  BY <1>9 DEF LeaveScope, Next
<1>10. CASE UNCHANGED allVars
  BY <1>10 DEF allVars
<1> QED BY <1>1, <1>2, <1>3, <1>4, <1>5, <1>6, <1>7, <1>8, <1>9, <1>10 DEF MaintenanceNext

(* The composition implements the module it composes.                        *)
THEOREM MaintenanceOpens == MaintenanceSpec => Spec
<1>1. MaintenanceInit => Init BY DEF MaintenanceInit
<1> QED BY <1>1, MaintenanceStep, PTL DEF MaintenanceSpec, Spec

LEMMA OInvariant == MaintenanceSpec => []OInv
<1>1. Spec => []OInv BY OInit, OStep, PTL DEF Spec
<1> QED BY <1>1, MaintenanceOpens, PTL

(* The openings keep their types (Backend.__init__).                         *)
THEOREM OpenFileTypes == MaintenanceSpec => []TypeOK
<1>1. OInv => TypeOK BY DEF OInv
<1> QED BY OInvariant, <1>1, PTL

(* A handle that selected WAL works on a WAL file until it is closed          *)
(* (Backend.__init__).                                                      *)
THEOREM WalHolds == MaintenanceSpec => []SelectedWalHolds
<1>1. OInv => SelectedWalHolds BY DEF OInv, WalInv, Checked, SelectedWalHolds
<1> QED BY OInvariant, <1>1, PTL

(* An unqualified library writes a WAL file only after it was overtaken       *)
(* (the checks of wal_safe).                                                *)
THEOREM UnsafeWereOvertaken == MaintenanceSpec => []UnsafeWritersWereOvertaken
<1>1. OInv => UnsafeWritersWereOvertaken BY DEF OInv, UnsafeInv, Checked, UnsafeWritersWereOvertaken
<1> QED BY OInvariant, <1>1, PTL

(* The reported journal mode is in effect unless the handle was overtaken     *)
(* (sqlite_runtime).                                                        *)
THEOREM ReportsEffective == MaintenanceSpec => []ReportIsEffective
<1>1. OInv => ReportIsEffective BY DEF OInv, KnownInv, ReportIsEffective, SqliteRuntime
<1> QED BY OInvariant, <1>1, PTL

(* The steps that change the file.                                          *)
LEMMA FileChanges ==
  ASSUME OInv, [Next]_vars, file' # file, file # "absent"
  PROVE  \E p \in Openers :
           Convert(p) /\ pc[p] = "converting" /\ pc'[p] # "converting" /\ selected[p] = file'
<1>1. PICK p \in Openers : Convert(p)
  BY DEF Next, vars, Look, Connect, ReadMode, Configure, OpenFails, Enter, Leave, Reread, Close
<1>2. pc[p] = "converting" /\ selected[p] = file' /\ Settle(p, file')
  BY <1>1 DEF Convert
<1>3. pc'[p] # "converting"
  BY <1>2 DEF Settle, ToClosed, At, OInv, TypeOK
<1> QED BY <1>1, <1>2, <1>3

(* The mode of a file that is there changes only at the hands of a process    *)
(* that was asked for the new mode or had found no file, and that has the fix *)
(* if the file becomes WAL (Backend.__init__, wal_safe).                     *)
THEOREM ModesOnRequest == MaintenanceSpec => ModeChangesOnRequest
<1> DEFINE Changed ==
      \E p \in Openers :
        /\ pc[p] = "converting" /\ pc'[p] # "converting" /\ selected[p] = file'
        /\ asked[p] = file' \/ p \in founders
        /\ file' = "wal" => Qualified(p)
<1>1. OInv /\ [Next]_vars => [file' # file /\ file # "absent" => Changed]_vars
  <2> SUFFICES ASSUME OInv, [Next]_vars, file' # file, file # "absent"
               PROVE  Changed
    OBVIOUS
  <2>1. PICK p \in Openers : pc[p] = "converting" /\ pc'[p] # "converting" /\ selected[p] = file'
    BY FileChanges
  <2>2. asked[p] = file' \/ p \in founders
    BY <2>1 DEF OInv, SelectedInv
  <2>3. file' = "wal" => Qualified(p)
    BY <2>1 DEF OInv, SelectedInv, ConvertingInv
  <2> QED BY <2>1, <2>2, <2>3
<1> QED BY <1>1, OInvariant, MaintenanceOpens, PTL DEF Spec, ModeChangesOnRequest

-----------------------------------------------------------------------------
(* While a limit is saved it is the application's, and otherwise it is set.   *)
LimitInv ==
  IF job \in {"limited", "restore", "failing"} THEN previous = 0 ELSE limit = 0

(* No failure of PRAGMA optimize leaves the lowered analysis_limit behind      *)
(* (maintain_sqlite).                                                       *)
THEOREM LimitIsRestored == MaintenanceSpec => []LimitRestored
<1>1. MaintenanceInit => LimitInv
  BY DEF MaintenanceInit, LimitInv
<1>2. LimitInv /\ [MaintenanceNext]_allVars => LimitInv'
  <2> SUFFICES ASSUME LimitInv, [MaintenanceNext]_allVars PROVE LimitInv'
    OBVIOUS
  <2>1. ASSUME NEW mode \in Checkpoints, Checkpoint(mode) PROVE LimitInv'
    BY <2>1 DEF Checkpoint, LimitInv
  <2>2. ASSUME NEW first \in {"optimize", "analyze", "checkpoint"}, Call(first) PROVE LimitInv'
    BY <2>2 DEF Call, LimitInv
  <2>3. CASE LowerLimit \/ RestoreLimit \/ CheckpointFails
    BY <2>3 DEF LowerLimit, RestoreLimit, Restored, AfterStatistics, CheckpointFails, LimitInv
  <2>4. ASSUME NEW raises \in BOOLEAN, Statistics(raises) PROVE LimitInv'
    BY <2>4 DEF Statistics, AfterStatistics, LimitInv
  <2>5. ASSUME NEW p \in Openers, OpenStep(p) \/ ConvertFile(p) \/ EnterScope(p) PROVE LimitInv'
    BY <2>5 DEF OpenStep, ConvertFile, EnterScope, call, LimitInv
  <2>6. ASSUME NEW p \in Openers, CloseFile(p) PROVE LimitInv'
    BY <2>6 DEF CloseFile, call, LimitInv
  <2>7. ASSUME NEW p \in Openers, NEW commits \in BOOLEAN, LeaveScope(p, commits) PROVE LimitInv'
    BY <2>7 DEF LeaveScope, call, LimitInv
  <2>8. CASE UNCHANGED allVars
    BY <2>8 DEF allVars, call, LimitInv
  <2> QED BY <2>1, <2>2, <2>3, <2>4, <2>5, <2>6, <2>7, <2>8 DEF MaintenanceNext
<1>3. LimitInv => LimitRestored
  BY DEF LimitInv, LimitRestored
<1> QED BY <1>1, <1>2, <1>3, PTL DEF MaintenanceSpec

-----------------------------------------------------------------------------
(* A connection that knows the file as a WAL file is right: the others cannot *)
(* end WAL while it has the file open.                                       *)
WalKnown == \A p \in Openers : known[p] = "wal" => file = "wal"

LEMMA WalKnownStep == OInv /\ WalKnown /\ [Next]_vars => WalKnown'
<1> SUFFICES ASSUME OInv, WalKnown, [Next]_vars, NEW q \in Openers, known'[q] = "wal"
             PROVE  file' = "wal"
  BY DEF WalKnown
<1>1. ASSUME NEW p \in Openers, Convert(p) PROVE file' = "wal"
  <2> DEFINE mode == IF selected[p] = "wal" /\ ~walWorks THEN file ELSE selected[p]
  <2>1. file' = mode /\ Settle(p, mode) /\ Convertible(p) /\ selected[p] \in Modes
    BY <1>1 DEF Convert, OInv, ConvertingInv
  <2>2. CASE q = p BY <2>1, <2>2 DEF Settle, ToClosed, At, OInv, TypeOK
  <2>3. CASE q # p
    <3>1. known[q] = "wal" BY <2>1, <2>3 DEF Settle, ToClosed, At, OInv, TypeOK
    <3>2. file = "wal" /\ q \in Others(p) BY <2>3, <3>1 DEF WalKnown, Others
    <3> QED BY <2>1, <3>1, <3>2 DEF Convertible, Modes
  <2> QED BY <2>2, <2>3
<1>2. ASSUME NEW p \in Openers, Connect(p) PROVE file' = "wal"
  BY <1>2 DEF Connect, WalKnown
<1>3. ASSUME NEW p \in Openers, ReadMode(p) PROVE file' = "wal"
  BY <1>3 DEF ReadMode, Settle, ToClosed, WalKnown, OInv, TypeOK
<1>4. ASSUME NEW p \in Openers,
             \/ \E wants \in Modes \cup {"none"}, ro \in BOOLEAN : Look(p, wants, ro)
             \/ Configure(p) \/ Enter(p) \/ Leave(p) \/ Reread(p)
      PROVE  file' = "wal"
  BY <1>4 DEF Look, Configure, Enter, Leave, Reread, WalKnown, OInv, TypeOK
<1>5. ASSUME NEW p \in Openers, OpenFails(p) \/ Close(p) PROVE file' = "wal"
  BY <1>5 DEF OpenFails, Close, ToClosed, WalKnown, OInv, TypeOK
<1>6. CASE UNCHANGED vars BY <1>6 DEF vars, WalKnown
<1> QED BY <1>1, <1>2, <1>3, <1>4, <1>5, <1>6 DEF Next

(* A checkpoint reported complete has brought every frame into the file, which *)
(* is still a WAL file although the connection did not look again             *)
(* (checkpoint_sqlite).                                                     *)
THEOREM CompleteIsComplete == MaintenanceSpec => CompleteIsTrue
<1> DEFINE True ==
      /\ file = "wal" /\ copied' = frames'
      /\ result'.mode = "truncate" => frames' = 0
<1>1. WalKnown /\ [MaintenanceNext]_allVars => [result' # Off /\ result'.complete => True]_allVars
  <2> SUFFICES ASSUME WalKnown, MaintenanceNext, result' # Off, result'.complete
               PROVE  True
    OBVIOUS
  <2>1. PICK mode \in Checkpoints : Checkpoint(mode)
    BY DEF MaintenanceNext
  <2>2. known[Keeper] = "wal"
    <3> SUFFICES ASSUME known[Keeper] # "wal" PROVE FALSE OBVIOUS
    <3>1. result' = Answer(mode, FALSE, -1, -1) BY <2>1 DEF Checkpoint
    <3>2. ~Complete(FALSE, -1, -1) BY DEF Complete
    <3>3. result'.complete = Complete(FALSE, -1, -1) BY <3>1, Zenon DEF Answer
    <3> QED BY <3>2, <3>3
  <2>3. file = "wal"
    BY <2>2, MaintenanceAssumption DEF WalKnown
  <2>4. CASE Emptied(mode)
    BY <2>1, <2>2, <2>3, <2>4 DEF Checkpoint, Answer
  <2>5. CASE ~Emptied(mode)
    <3>1. /\ copied' = Copyable /\ frames' = frames
          /\ result' = Answer(mode, Obstructed(mode), frames, Copyable)
      BY <2>1, <2>2, <2>5 DEF Checkpoint
    <3>2. ~Obstructed(mode) /\ frames = Copyable /\ result'.mode = mode
      BY <3>1 DEF Answer, Complete
    <3> QED BY <2>3, <2>5, <3>1, <3>2 DEF Emptied
  <2> QED BY <2>4, <2>5
<1>2. MaintenanceSpec => []WalKnown
  <2>1. Init => WalKnown BY DEF Init, WalKnown
  <2>2. Spec => []WalKnown BY <2>1, WalKnownStep, OInit, OStep, PTL DEF Spec
  <2> QED BY <2>2, MaintenanceOpens, PTL
<1> QED BY <1>1, <1>2, PTL DEF MaintenanceSpec, CompleteIsTrue

-----------------------------------------------------------------------------
(* A set of numbers that is not empty has a least one.                        *)
LEMMA Least ==
  ASSUME NEW T, T \subseteq Nat, T # {}
  PROVE  Min(T) \in T /\ \A m \in T : Min(T) <= m
<1> DEFINE R == OpToRel(<, Nat)
<1>1. \A a, b \in Nat : a < b => <<a, b>> \in R BY DEF OpToRel
<1>2. IsWellFoundedOn(R, Nat) BY NatLessThanWellFounded
<1> HIDE DEF R
<1>3. PICK n \in T : \A m \in T : <<m, n>> \notin R BY <1>2, WFMin
<1>4. \A m \in T : n <= m
  <2> TAKE m \in T
  <2>1. m \in Nat /\ n \in Nat /\ ~(m < n) BY <1>1, <1>3
  <2> QED BY <2>1
<1> QED BY <1>4 DEF Min

(* The WAL, and the part of it that is in the database file.                  *)
WalTypes ==
  /\ frames \in 0..MaxFrames /\ copied \in 0..frames /\ (file # "wal" => frames = 0)
  /\ mark \in [Openers -> (0..MaxFrames) \cup {Off}]

(* Only a process in a scope has a mark or writes.                           *)
ScopeTypes ==
  /\ \A p \in Openers : mark[p] # Off => pc[p] = "scope"
  /\ writer \in Openers \cup {Off} /\ (writer # Off => pc[writer] = "scope")

(* The keeper's call, which its handle outlives.                             *)
JobTypes ==
  /\ job \in {"none", "optimize", "analyze", "limited", "restore", "failing", "checkpoint"}
  /\ job # "none" => pc[Keeper] = "open" /\ Writable(Keeper)
  /\ limit \in {0, 400} /\ previous \in {0, 400, Off}
  /\ previous # Off <=> job \in {"limited", "restore", "failing"}

MTypes == WalTypes /\ ScopeTypes /\ JobTypes /\ result \in Report \cup {Off}

(* What a checkpoint copies is more than before and not beyond the WAL.       *)
LEMMA CopyableBounds ==
  ASSUME WalTypes
  PROVE  Copyable \in copied..frames
<1> DEFINE low == Min(Marks \cup {frames})
<1>1. frames \in Nat /\ copied \in Nat /\ copied <= frames /\ MaxFrames \in Nat
  BY MaintenanceAssumption DEF WalTypes
<1>2. Marks \cup {frames} \subseteq Nat BY <1>1 DEF Marks, WalTypes
<1>3. low \in Nat /\ low <= frames BY <1>2, Least
<1> HIDE DEF low
<1>4. CASE 0 \in Marks BY <1>1, <1>4 DEF Copyable
<1>5. CASE 0 \notin Marks
  <2> DEFINE most == IF copied >= low THEN copied ELSE low
  <2>1. most \in {copied, low} /\ \A y \in {copied, low} : most >= y BY <1>1, <1>3
  <2>2. ASSUME NEW x \in {copied, low}, \A y \in {copied, low} : x >= y PROVE x \in copied..frames
    BY <1>1, <1>3, <2>2
  <2>3. Max({copied, low}) \in copied..frames BY <2>1, <2>2 DEF Max
  <2> QED BY <1>5, <2>3 DEF Copyable, low
<1> QED BY <1>4, <1>5

LEMMA CheckpointTypes ==
  ASSUME MTypes, NEW mode \in Checkpoints, Checkpoint(mode)
  PROVE  MTypes'
<1>1. /\ job' = "none" /\ job = "checkpoint" /\ UNCHANGED <<vars, scopes, limit, previous>>
      /\ limit \in {0, 400} /\ previous = Off
  BY DEF Checkpoint, MTypes, JobTypes
<1>2. ScopeTypes' /\ JobTypes'
  BY <1>1 DEF MTypes, ScopeTypes, JobTypes, vars, scopes
<1>3. \A busy \in BOOLEAN, log, done \in Int : Answer(mode, busy, log, done) \in Report
  BY DEF Answer, Report, Complete
<1>4. frames \in Nat /\ Copyable \in copied..frames /\ copied \in Nat /\ Obstructed(mode) \in BOOLEAN
  BY CopyableBounds, MaintenanceAssumption DEF MTypes, WalTypes, Obstructed
<1>5. Copyable \in Int /\ frames \in Int BY <1>4
<1> HIDE DEF Copyable, Obstructed, Report
<1>6. result' \in Report
  <2>1. \/ result' = Answer(mode, FALSE, -1, -1)
        \/ result' = Answer(mode, FALSE, 0, 0)
        \/ result' = Answer(mode, Obstructed(mode), frames, Copyable)
    BY Zenon DEF Checkpoint
  <2>2. \A log, done \in Int : Answer(mode, FALSE, log, done) \in Report BY <1>3
  <2>3. Answer(mode, FALSE, -1, -1) \in Report /\ Answer(mode, FALSE, 0, 0) \in Report
    <3>1. -1 \in Int /\ 0 \in Int OBVIOUS
    <3> QED BY <2>2, <3>1, Zenon
  <2>4. Answer(mode, Obstructed(mode), frames, Copyable) \in Report BY <1>3, <1>4, <1>5
  <2> QED BY <2>1, <2>3, <2>4
<1>7. WalTypes'
  <2>1. \/ frames' = frames /\ copied' = copied
        \/ frames' = 0 /\ copied' = 0
        \/ frames' = frames /\ copied' = Copyable
    BY DEF Checkpoint, wal
  <2>2. file' = file /\ mark' = mark BY <1>1 DEF vars, scopes
  <2>3. copied' \in 0..frames' /\ frames' \in {frames, 0} BY <1>4, <2>1
  <2> QED BY <2>2, <2>3, MaintenanceAssumption DEF MTypes, WalTypes
<1> QED BY <1>2, <1>6, <1>7 DEF MTypes

LEMMA MaintainTypes ==
  ASSUME MTypes, result' = Off,
         \/ \E first \in {"optimize", "analyze", "checkpoint"} : Call(first)
         \/ LowerLimit \/ RestoreLimit \/ CheckpointFails
         \/ \E raises \in BOOLEAN : Statistics(raises)
  PROVE  MTypes'
<1>1. /\ pc' = pc /\ readonly' = readonly /\ file' = file /\ UNCHANGED <<wal, scopes>>
  BY DEF Call, LowerLimit, RestoreLimit, CheckpointFails, Statistics, Reread, vars, seen
<1>2. WalTypes' /\ ScopeTypes'
  BY <1>1 DEF MTypes, WalTypes, ScopeTypes, wal, scopes
<1>3. limit # Off /\ 0 # Off /\ (Writable(Keeper)' <=> Writable(Keeper))
  BY <1>1, MaintenanceAssumption DEF MTypes, JobTypes, Writable
<1> SUFFICES JobTypes' BY <1>2 DEF MTypes
<1> USE <1>1, <1>3 DEF MTypes, JobTypes
<1>4. ASSUME NEW first \in {"optimize", "analyze", "checkpoint"}, Call(first) PROVE JobTypes'
  BY <1>4 DEF Call
<1>5. CASE LowerLimit BY <1>5 DEF LowerLimit
<1>6. CASE RestoreLimit
  <2>1. /\ job \in {"failing", "restore"} /\ job' \in {"none", "checkpoint"}
        /\ limit' = previous /\ previous' = Off
    BY <1>6 DEF RestoreLimit, Restored, AfterStatistics
  <2> QED BY <2>1
<1>7. CASE CheckpointFails BY <1>7 DEF CheckpointFails
<1>8. ASSUME NEW raises \in BOOLEAN, Statistics(raises) PROVE JobTypes'
  BY <1>8 DEF Statistics, AfterStatistics
<1> QED BY <1>4, <1>5, <1>6, <1>7, <1>8

LEMMA OpenTypes ==
  ASSUME OInv, MTypes, result' = Off, NEW p \in Openers, OpenStep(p) \/ ConvertFile(p)
  PROVE  MTypes'
<1>1. /\ pc[p] \notin {"open", "scope"} /\ UNCHANGED <<scopes, call>>
      /\ \A q \in Others(p) : pc'[q] = pc[q] /\ (Writable(q)' <=> Writable(q))
  BY DEF OpenStep, ConvertFile, Look, Connect, ReadMode, Configure, Convert, OpenFails, Settle,
         ToClosed, At, Others, Writable, OInv, TypeOK
<1>2. /\ \A q \in Openers : pc[q] \in {"open", "scope"} => q \in Others(p)
  BY <1>1 DEF Others
<1>3. ScopeTypes'
  BY <1>1, <1>2 DEF MTypes, ScopeTypes, scopes
<1>4. JobTypes'
  BY <1>1, <1>2, MaintenanceAssumption DEF MTypes, JobTypes, call
<1>5. CASE OpenStep(p)
  <2>1. frames' = frames /\ copied' = copied /\ mark' = mark BY <1>1, <1>5 DEF OpenStep, wal, scopes
  <2>2. file = "wal" => file' = "wal"
    BY <1>5 DEF OpenStep, Look, Connect, ReadMode, Configure, OpenFails
  <2> QED BY <1>3, <1>4, <2>1, <2>2 DEF MTypes, WalTypes
<1>6. CASE ConvertFile(p)
  <2>1. mark' = mark /\ (file' # file => frames' = 0 /\ copied' = 0)
        /\ (file' = file => frames' = frames /\ copied' = copied)
    BY <1>1, <1>6 DEF ConvertFile, wal, scopes
  <2> QED BY <1>3, <1>4, <2>1, MaintenanceAssumption DEF MTypes, WalTypes
<1> QED BY <1>5, <1>6

LEMMA EnterTypes ==
  ASSUME OInv, MTypes, result' = Off, NEW p \in Openers, EnterScope(p)
  PROVE  MTypes'
<1>1. /\ pc[p] = "open" /\ pc' = [pc EXCEPT ![p] = "scope"] /\ UNCHANGED <<file, readonly, wal, call>>
      /\ mark' = [mark EXCEPT ![p] = IF file # "wal" THEN Off ELSE IF copied = frames THEN 0 ELSE frames]
      /\ writer' \in {writer, p} /\ Free(p)
  BY DEF EnterScope, Enter, At
<1>2. WalTypes'
  BY <1>1, MaintenanceAssumption DEF MTypes, WalTypes, wal
<1>3. ScopeTypes'
  BY <1>1 DEF MTypes, ScopeTypes, WalTypes, OInv, TypeOK
<1>4. JobTypes'
  BY <1>1, MaintenanceAssumption DEF EnterScope, Free, MTypes, JobTypes, Writable, call, OInv, TypeOK
<1> QED BY <1>2, <1>3, <1>4 DEF MTypes

LEMMA LeaveTypes ==
  ASSUME OInv, MTypes, result' = Off, NEW p \in Openers, NEW commits \in BOOLEAN, LeaveScope(p, commits)
  PROVE  MTypes'
<1>1. /\ pc[p] = "scope" /\ pc' = [pc EXCEPT ![p] = "open"] /\ UNCHANGED <<file, readonly, call>>
      /\ mark' = [mark EXCEPT ![p] = Off] /\ writer' = IF writer = p THEN Off ELSE writer
  BY DEF LeaveScope, Leave, At
<1>2. UNCHANGED wal \/ (file = "wal" /\ Appended)
  BY DEF LeaveScope
<1>3. WalTypes'
  BY <1>1, <1>2, MaintenanceAssumption DEF MTypes, WalTypes, wal, Appended
<1>4. ScopeTypes'
  BY <1>1 DEF MTypes, ScopeTypes, WalTypes, OInv, TypeOK
<1>5. JobTypes'
  BY <1>1, MaintenanceAssumption DEF MTypes, JobTypes, Writable, call, OInv, TypeOK
<1> QED BY <1>3, <1>4, <1>5 DEF MTypes

LEMMA CloseTypes ==
  ASSUME OInv, MTypes, result' = Off, NEW p \in Openers, CloseFile(p)
  PROVE  MTypes'
<1>1. /\ pc' = [pc EXCEPT ![p] = "closed"] /\ readonly' = readonly \ {p} /\ file' = file
      /\ mark' = [mark EXCEPT ![p] = Off] /\ writer' = IF writer = p THEN Off ELSE writer
  BY DEF CloseFile, Close, ToClosed
<1>2. UNCHANGED wal \/ (frames' = 0 /\ copied' = 0)
  BY DEF CloseFile
<1>3. WalTypes'
  BY <1>1, <1>2, MaintenanceAssumption DEF MTypes, WalTypes, wal
<1>4. ScopeTypes'
  BY <1>1 DEF MTypes, ScopeTypes, WalTypes, OInv, TypeOK
<1>5. CASE p = Keeper
  <2>1. JobTypes' BY <1>5 DEF CloseFile, JobTypes
  <2> QED BY <1>3, <1>4, <2>1 DEF MTypes
<1>6. CASE p # Keeper
  <2>1. JobTypes'
    BY <1>1, <1>6, MaintenanceAssumption DEF CloseFile, MTypes, JobTypes, Writable, call, OInv, TypeOK
  <2> QED BY <1>3, <1>4, <2>1 DEF MTypes
<1> QED BY <1>5, <1>6

(* The WAL and the scopes, jobs and reports about it keep their types: what    *)
(* is copied is part of the WAL, a file in another mode has none, marks and    *)
(* the writer belong to scopes and a job to an open, writable handle           *)
(* (maintain_sqlite, checkpoint_sqlite).                                     *)
THEOREM MaintenanceTypes == MaintenanceSpec => []MaintenanceTypeOK
<1>1. MaintenanceInit => MTypes
  BY MaintenanceAssumption DEF MaintenanceInit, Init, MTypes, WalTypes, ScopeTypes, JobTypes
<1>2. OInv /\ MTypes /\ [MaintenanceNext]_allVars => MTypes'
  <2> SUFFICES ASSUME OInv, MTypes, [MaintenanceNext]_allVars PROVE MTypes' OBVIOUS
  <2>1. CASE UNCHANGED allVars
    BY <2>1 DEF allVars, vars, wal, scopes, call, MTypes, WalTypes, ScopeTypes, JobTypes, Writable
  <2>2. CASE MaintenanceNext
    BY <2>2, CheckpointTypes, MaintainTypes, OpenTypes, EnterTypes, LeaveTypes, CloseTypes
    DEF MaintenanceNext
  <2> QED BY <2>1, <2>2
<1>3. OInv /\ MTypes => MaintenanceTypeOK
  BY DEF OInv, MTypes, WalTypes, ScopeTypes, JobTypes, MaintenanceTypeOK
<1> QED BY <1>1, <1>2, <1>3, OInvariant, PTL DEF MaintenanceSpec
=================================================================================
