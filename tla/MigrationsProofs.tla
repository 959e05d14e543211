--------------------------- MODULE MigrationsProofs ---------------------------
(***************************************************************************)
(* What migrations leave behind, for any number of clients and any lists of  *)
(* revisions: metadata, SQL objects and rows that agree, revisions that are   *)
(* in effect as a whole, and a log that grows as RevisionLog says.            *)
(***************************************************************************)
EXTENDS Migrations, WellFoundedInduction, TLAPS

Working == {"look", "make", "note", "record"}

(* Where in its call a client can be.                                       *)
Place(c) ==
  /\ pc[c] # "idle" => call[c] \in Calls
  /\ pc[c] \in {"ensure", "metadata", "lock"} => revision[c] = 1 /\ operation[c] = 1
  /\ pc[c] = "revision" => call[c] \in Requests /\ revision[c] \in 1..(Len(call[c]) + 1) /\ operation[c] = 1
  /\ pc[c] \in Working => revision[c] \in DOMAIN call[c]
  /\ pc[c] \in {"look", "make", "note"} => operation[c] \in DOMAIN This(c).operations
  /\ pc[c] \notin {"idle", "ensure"} => Supported(c)

(* The metadata tables come first, before them there is nothing.             *)
Metadata(c) ==
  IF pc[c] \in {"idle", "ensure", "metadata"} THEN mine[c] = Empty ELSE db.meta \/ mine[c].meta

(* The object that is made and not yet noted.                               *)
Made(c) == IF pc[c] = "note" THEN {Op(c)} ELSE {}

Objects(c) == mine[c].objects \cup {o \in Made(c) : o.op \in Kinds}
Tables(c) == db.tables \cup mine[c].tables

Noting(c) ==
  /\ mine[c].tables = {o.name : o \in Objects(c)}
  /\ mine[c].guards = mine[c].rules \cup {o \in Made(c) : o.op \notin Kinds}

(* The objects of a scope are distinct and stand on what it sees.            *)
Fits(c) ==
  /\ \A o, p \in Objects(c) : o.name = p.name => o = p
  /\ \A o \in Objects(c) : o.ends \subseteq Tables(c)
  /\ pc[c] = "make" /\ Op(c).op \in Kinds => Op(c).name \notin mine[c].tables /\ Op(c).ends \subseteq Tables(c)

(* The operations behind a client are in effect, and those of its revisions.  *)
Effective(c) == db.objects \cup db.rules \cup mine[c].objects \cup mine[c].rules

Behind(c) ==
  /\ pc[c] \in {"look", "make", "note"} => \A k \in 1..(operation[c] - 1) : This(c).operations[k] \in Effective(c)
  /\ pc[c] = "record" => ToSet(This(c).operations) \subseteq Effective(c)
  /\ \A r \in ToSet(mine[c].log) : ToSet(r.operations) \subseteq Effective(c)

(* No row breaks a rule that is about to be installed or has been.            *)
Guarding(c) ==
  /\ mine[c].guards \cap rows = {}
  /\ backend = "pg" => mine[c].guards = {}
  /\ pc[c] = "make" /\ Op(c).op \notin Kinds => Op(c) \notin rows

Local(c) == Place(c) /\ Metadata(c) /\ Noting(c) /\ Fits(c) /\ Behind(c) /\ Guarding(c)

(* SQLite has one writer; PostgreSQL makes the second CREATE TABLE wait.      *)
Alone == backend = "sqlite" => \A c, d \in Clients : pc[c] # "idle" /\ pc[d] # "idle" => c = d

Apart ==
  \A c \in Clients :
    /\ mine[c].tables \cap db.tables = {}
    /\ \A d \in Others(c) : mine[c].tables \cap mine[d].tables = {}

Sound == MetadataMatchesSchema /\ RecordedIsInstalled /\ RulesHold

MInv == TypeOK /\ Alone /\ Apart /\ Sound /\ \A c \in Clients : Local(c)

-----------------------------------------------------------------------------
(* What a call is made of.                                                  *)
LEMMA CallShape ==
  ASSUME NEW q \in Calls
  PROVE  /\ Len(q) \in Nat /\ DOMAIN q = 1..Len(q) /\ 1 \in DOMAIN q
         /\ \A i \in DOMAIN q :
              /\ Len(q[i].operations) \in Nat
              /\ DOMAIN q[i].operations = 1..Len(q[i].operations)
              /\ \A k \in DOMAIN q[i].operations : q[i].operations[k] \in ToSet(q[i].operations)
              /\ ToSet(q[i].operations) = {q[i].operations[k] : k \in DOMAIN q[i].operations}
              /\ ToSet(q[i].operations) \subseteq Operations
              /\ q[i].id # Unrecorded => q \in Requests /\ q[i] \in Revisions
              /\ q[i].id = Unrecorded => q \notin Requests
<1>1. /\ \A s, i : i \in DOMAIN s => s[i] \in ToSet(s)
      /\ \A s : ToSet(s) = {s[k] : k \in DOMAIN s}
  BY DEF ToSet
<1>2. \A i \in DOMAIN q : ToSet(q[i].operations) \subseteq Operations
  BY <1>1 DEF Operations
<1>3. CASE q \in Requests
  <2>1. q # << >> /\ q \in Seq(ToSet(q)) BY <1>3, MigrationsAssumption
  <2>2. Len(q) \in Nat /\ DOMAIN q = 1..Len(q) /\ 1 \in DOMAIN q BY <2>1
  <2>3. \A i \in DOMAIN q : q[i] \in Revisions BY <1>1, <1>3 DEF Revisions
  <2>4. \A i \in DOMAIN q : q[i].id # Unrecorded /\ q[i].operations \in Seq(ToSet(q[i].operations))
    BY <2>3, MigrationsAssumption
  <2>5. \A i \in DOMAIN q : Len(q[i].operations) \in Nat /\ DOMAIN q[i].operations = 1..Len(q[i].operations)
    BY <2>4
  <2> QED BY <1>1, <1>2, <1>3, <2>2, <2>3, <2>4, <2>5
<1>4. CASE q \notin Requests
  <2>1. PICK n \in Implicit : q = Creation(n) BY <1>4 DEF Calls
  <2>2. q = <<[id |-> Unrecorded, operations |-> <<Collection(n)>>]>> BY <2>1 DEF Creation
  <2>3. Len(q) = 1 /\ DOMAIN q = 1..1 /\ q[1].id = Unrecorded /\ q[1].operations = <<Collection(n)>>
    BY <2>2
  <2>4. Len(q[1].operations) = 1 /\ DOMAIN q[1].operations = 1..1 BY <2>3
  <2> QED BY <1>1, <1>2, <1>4, <2>3, <2>4
<1> QED BY <1>3, <1>4

LEMMA EmptyFields ==
  /\ Empty \in Schema /\ ~Empty.meta /\ Empty.tables = {} /\ Empty.guards = {}
  /\ Empty.objects = {} /\ Empty.rules = {} /\ Empty.log = << >>
BY DEF Empty, Schema

LEMMA WithMeta ==
  ASSUME NEW m \in Schema
  PROVE  LET n == [m EXCEPT !.meta = TRUE]
         IN /\ n \in Schema /\ n.meta /\ n.tables = m.tables /\ n.guards = m.guards
            /\ n.objects = m.objects /\ n.rules = m.rules /\ n.log = m.log
BY DEF Schema

LEMMA WithTable ==
  ASSUME NEW m \in Schema, NEW t \in Names
  PROVE  LET n == [m EXCEPT !.tables = @ \cup {t}]
         IN /\ n \in Schema /\ n.tables = m.tables \cup {t}
            /\ n.meta = m.meta /\ n.guards = m.guards /\ n.objects = m.objects /\ n.rules = m.rules /\ n.log = m.log
BY DEF Schema

LEMMA WithGuard ==
  ASSUME NEW m \in Schema, NEW o \in RuleOps
  PROVE  LET n == [m EXCEPT !.guards = @ \cup {o}]
         IN /\ n \in Schema /\ n.guards = m.guards \cup {o}
            /\ n.meta = m.meta /\ n.tables = m.tables /\ n.objects = m.objects /\ n.rules = m.rules /\ n.log = m.log
BY DEF Schema

LEMMA WithObject ==
  ASSUME NEW m \in Schema, NEW o \in Declarations
  PROVE  LET n == [m EXCEPT !.objects = @ \cup {o}]
         IN /\ n \in Schema /\ n.objects = m.objects \cup {o}
            /\ n.meta = m.meta /\ n.tables = m.tables /\ n.guards = m.guards /\ n.rules = m.rules /\ n.log = m.log
BY DEF Schema

LEMMA WithRule ==
  ASSUME NEW m \in Schema, NEW o \in RuleOps
  PROVE  LET n == [m EXCEPT !.rules = @ \cup {o}]
         IN /\ n \in Schema /\ n.rules = m.rules \cup {o}
            /\ n.meta = m.meta /\ n.tables = m.tables /\ n.guards = m.guards /\ n.objects = m.objects /\ n.log = m.log
BY DEF Schema

LEMMA WithRevision ==
  ASSUME NEW m \in Schema, NEW r \in Revisions
  PROVE  LET n == [m EXCEPT !.log = Append(@, r)]
         IN /\ n \in Schema /\ n.log = Append(m.log, r) /\ n.meta = m.meta /\ n.tables = m.tables
            /\ n.guards = m.guards /\ n.objects = m.objects /\ n.rules = m.rules
<1>1. Append(m.log, r) \in Seq(Revisions) BY DEF Schema
<1> QED BY <1>1 DEF Schema

LEMMA Appended ==
  ASSUME NEW s \in Seq(Revisions), NEW r \in Revisions
  PROVE  ToSet(Append(s, r)) = ToSet(s) \cup {r}
<1>1. Append(s, r) \in Seq(Revisions) /\ Len(Append(s, r)) = Len(s) + 1 /\ Len(s) \in Nat
  OBVIOUS
<1>2. \A i \in 1..Len(s) : Append(s, r)[i] = s[i]
  OBVIOUS
<1>3. Append(s, r)[Len(s) + 1] = r
  OBVIOUS
<1> QED BY <1>1, <1>2, <1>3 DEF ToSet

LEMMA Joined ==
  ASSUME NEW s \in Seq(Revisions), NEW t \in Seq(Revisions)
  PROVE  s \o t \in Seq(Revisions) /\ ToSet(s \o t) \subseteq ToSet(s) \cup ToSet(t)
<1>1. s \o t \in Seq(Revisions)
  OBVIOUS
<1>2. Len(s \o t) = Len(s) + Len(t) /\ Len(s) \in Nat /\ Len(t) \in Nat
  OBVIOUS
<1>3. \A i \in 1..Len(s) + Len(t) : (s \o t)[i] = IF i <= Len(s) THEN s[i] ELSE t[i - Len(s)]
  OBVIOUS
<1> QED BY <1>1, <1>2, <1>3 DEF ToSet

LEMMA ViewFields ==
  ASSUME NEW c \in Clients
  PROVE  /\ View(c).meta = (db.meta \/ mine[c].meta)
         /\ View(c).tables = db.tables \cup mine[c].tables
         /\ View(c).guards = db.guards \cup mine[c].guards
         /\ View(c).objects = db.objects \cup mine[c].objects
         /\ View(c).rules = db.rules \cup mine[c].rules
         /\ View(c).log = db.log \o mine[c].log
BY DEF View, Plus

-----------------------------------------------------------------------------
(* A client that does nothing stays where it is while the database grows.     *)
LEMMA Frame ==
  ASSUME NEW d \in Clients, Local(d), backend' = backend,
         pc'[d] = pc[d], call'[d] = call[d], revision'[d] = revision[d],
         operation'[d] = operation[d], mine'[d] = mine[d],
         db.meta => db'.meta, db.tables \subseteq db'.tables,
         db.objects \subseteq db'.objects, db.rules \subseteq db'.rules,
         mine[d].guards \cap rows' = {},
         pc[d] = "make" /\ Op(d).op \notin Kinds => Op(d) \notin rows'
  PROVE  Local(d)'
<1>1. This(d)' = This(d) BY DEF This
<1>2. Op(d)' = Op(d) BY <1>1 DEF Op
<1>3. Objects(d)' = Objects(d) /\ Made(d)' = Made(d) BY <1>2 DEF Objects, Made
<1>4. Tables(d) \subseteq Tables(d)' BY DEF Tables
<1>5. Effective(d) \subseteq Effective(d)' BY DEF Effective
<1>6. Place(d)' BY <1>1 DEF Local, Place, Supported
<1>7. Metadata(d)' BY DEF Local, Metadata
<1>8. Noting(d)' BY <1>3 DEF Local, Noting
<1>9. Fits(d)' BY <1>2, <1>3, <1>4 DEF Local, Fits
<1>10. Behind(d)' BY <1>1, <1>5 DEF Local, Behind
<1>11. Guarding(d)' BY <1>2 DEF Local, Guarding
<1> QED BY <1>6, <1>7, <1>8, <1>9, <1>10, <1>11 DEF Local

Kept(d) ==
  /\ pc'[d] = pc[d] /\ call'[d] = call[d] /\ revision'[d] = revision[d]
  /\ operation'[d] = operation[d] /\ mine'[d] = mine[d]

(* A step of one client that commits nothing.                               *)
LEMMA OwnStep ==
  ASSUME MInv, NEW c \in Clients, TypeOK', UNCHANGED <<backend, db, rows>>,
         \A d \in Others(c) : Kept(d),
         pc[c] = "idle" => MayWrite,
         Local(c)', mine'[c].tables \cap db.tables = {},
         \A d \in Others(c) : mine'[c].tables \cap mine[d].tables = {}
  PROVE  MInv'
<1>1. \A d \in Clients : Local(d)'
  <2> SUFFICES ASSUME NEW d \in Others(c) PROVE Local(d)'
    BY DEF Others
  <2>1. d \in Clients /\ Local(d) /\ Guarding(d) BY DEF Others, MInv, Local
  <2> QED BY <2>1, Frame DEF Kept, Guarding
<1>2. Alone' BY DEF MInv, Alone, MayWrite, Kept, Others
<1>3. Apart' BY DEF MInv, Apart, Kept, Others
<1>4. Sound' BY DEF MInv, Sound, MetadataMatchesSchema, RecordedIsInstalled, RulesHold
<1> QED BY <1>1, <1>2, <1>3, <1>4 DEF MInv

LEMMA FailStep ==
  ASSUME MInv, NEW c \in Clients, pc[c] # "idle",
         NEW report \in {"drift", "order", "duplicate", "failed", "unknown"}, Fail(c, report)
  PROVE  MInv'
<1>1. /\ pc' = [pc EXCEPT ![c] = "idle"] /\ mine' = [mine EXCEPT ![c] = Empty]
      /\ told' = [told EXCEPT ![c] = report] /\ locker' = locker \ {c}
      /\ UNCHANGED <<backend, db, rows, call, revision, operation>>
  BY DEF Fail, End, Goto, position
<1>2. pc'[c] = "idle" /\ mine'[c] = Empty BY <1>1 DEF MInv, TypeOK
<1>3. \A d \in Others(c) : Kept(d) BY <1>1 DEF Others, Kept, MInv, TypeOK
<1>4. TypeOK' BY <1>1, EmptyFields DEF MInv, TypeOK
<1>5. Local(c)'
  <2>1. Made(c)' = {} /\ Objects(c)' = {} BY <1>2, EmptyFields DEF Made, Objects
  <2>2. Place(c)' /\ Metadata(c)' BY <1>2 DEF Place, Metadata, Working
  <2>3. Noting(c)' /\ Fits(c)' BY <1>2, <2>1, EmptyFields DEF Noting, Fits
  <2>4. ToSet(mine'[c].log) = {} BY <1>2, EmptyFields DEF ToSet
  <2>5. Behind(c)' BY <1>2, <2>4 DEF Behind
  <2>6. Guarding(c)' BY <1>2, EmptyFields DEF Guarding
  <2> QED BY <2>2, <2>3, <2>5, <2>6 DEF Local
<1> QED BY <1>1, <1>2, <1>3, <1>4, <1>5, EmptyFields, OwnStep

-----------------------------------------------------------------------------
(* A statement that changes only how far its client is.                      *)
LEMMA MoveLocal ==
  ASSUME NEW c \in Clients, Local(c), UNCHANGED <<backend, db, rows>>, mine'[c] = mine[c],
         pc[c] # "note", pc'[c] # "note",
         Place(c)', Metadata(c)',
         pc'[c] = "make" /\ Op(c)'.op \in Kinds =>
           Op(c)'.name \notin mine[c].tables /\ Op(c)'.ends \subseteq Tables(c),
         pc'[c] = "make" /\ Op(c)'.op \notin Kinds => Op(c)' \notin rows,
         pc'[c] \in {"look", "make", "note"} =>
           \A k \in 1..(operation'[c] - 1) : This(c)'.operations[k] \in Effective(c),
         pc'[c] = "record" => ToSet(This(c)'.operations) \subseteq Effective(c)
  PROVE  Local(c)'
<1>1. Made(c) = {} /\ Made(c)' = {} BY DEF Made
<1>2. Objects(c)' = Objects(c) /\ Tables(c)' = Tables(c) /\ Effective(c)' = Effective(c)
  BY <1>1 DEF Objects, Tables, Effective
<1>3. Noting(c)' BY <1>1, <1>2 DEF Local, Noting
<1>4. Fits(c)' BY <1>2 DEF Local, Fits
<1>5. Behind(c)' BY <1>2 DEF Local, Behind
<1>6. Guarding(c)' BY DEF Local, Guarding
<1> QED BY <1>3, <1>4, <1>5, <1>6 DEF Local

LEMMA Counter ==
  ASSUME NEW c \in Clients, NEW f \in [Clients -> Nat], NEW g,
         g = f \/ g = [f EXCEPT ![c] = 1] \/ g = [f EXCEPT ![c] = @ + 1]
  PROVE  g \in [Clients -> Nat]
<1>1. CASE g = f BY <1>1
<1>2. CASE g = [f EXCEPT ![c] = 1] BY <1>2
<1>3. CASE g = [f EXCEPT ![c] = @ + 1] BY <1>3
<1> QED BY <1>1, <1>2, <1>3

Steps == {"metadata", "lock", "revision", "look", "make", "record", "commit"}

LEMMA ReadStep ==
  ASSUME MInv, NEW c \in Clients, pc[c] # "idle", NEW next \in Steps, Goto(c, next),
         UNCHANGED <<backend, db, rows, call, mine, told>>, locker' \subseteq Clients,
         revision' = revision \/ revision' = [revision EXCEPT ![c] = @ + 1],
         operation' = operation \/ operation' = [operation EXCEPT ![c] = 1]
           \/ operation' = [operation EXCEPT ![c] = @ + 1],
         Local(c)'
  PROVE  MInv'
<1>1. pc' = [pc EXCEPT ![c] = next] BY DEF Goto
<1>2. TypeOK'
  <2>1. revision' \in [Clients -> Nat] BY Counter DEF MInv, TypeOK
  <2>2. operation' \in [Clients -> Nat] BY Counter DEF MInv, TypeOK
  <2>3. pc' \in [Clients -> {"idle", "ensure", "metadata", "lock", "revision", "look", "make",
                            "note", "record", "commit"}]
    BY <1>1 DEF MInv, TypeOK, Steps
  <2> QED BY <2>1, <2>2, <2>3 DEF MInv, TypeOK
<1>3. \A d \in Others(c) : Kept(d) BY <1>1 DEF Others, Kept, MInv, TypeOK
<1>4. /\ mine'[c].tables \cap db.tables = {}
      /\ \A d \in Others(c) : mine'[c].tables \cap mine[d].tables = {}
  BY DEF MInv, Apart
<1> QED BY <1>2, <1>3, <1>4, OwnStep

LEMMA BeginStep ==
  ASSUME MInv, NEW c \in Clients, NEW request \in Calls, Begin(c, request)
  PROVE  MInv'
<1>1. /\ pc[c] = "idle" /\ MayWrite /\ pc' = [pc EXCEPT ![c] = "ensure"]
      /\ call' = [call EXCEPT ![c] = request]
      /\ revision' = [revision EXCEPT ![c] = 1] /\ operation' = [operation EXCEPT ![c] = 1]
      /\ told' = [told EXCEPT ![c] = "nothing"]
      /\ UNCHANGED <<backend, db, rows, mine, locker>>
  BY DEF Begin, Goto
<1>2. TypeOK' BY <1>1 DEF MInv, TypeOK
<1>3. \A d \in Others(c) : Kept(d) BY <1>1 DEF Others, Kept, MInv, TypeOK
<1>4. /\ pc'[c] = "ensure" /\ call'[c] = request /\ revision'[c] = 1 /\ operation'[c] = 1
      /\ mine'[c] = mine[c] /\ mine[c] = Empty
  BY <1>1 DEF MInv, TypeOK, Local, Metadata
<1>5. Place(c)' /\ Metadata(c)' BY <1>4 DEF Place, Metadata, Working
<1>6. Local(c)' BY <1>1, <1>4, <1>5, MoveLocal DEF MInv
<1>7. mine'[c].tables = {} BY <1>4, EmptyFields
<1> QED BY <1>1, <1>2, <1>3, <1>6, <1>7, OwnStep

LEMMA EnsureStep ==
  ASSUME MInv, NEW c \in Clients, EnsureMetadata(c)
  PROVE  MInv'
<1>1. pc[c] = "ensure" BY DEF EnsureMetadata
<1>2. CASE ~Supported(c)
  BY <1>1, <1>2, FailStep DEF EnsureMetadata
<1>3. CASE Supported(c)
  <2> DEFINE next == IF View(c).meta THEN "lock" ELSE "metadata"
  <2>1. Read(c, next) BY <1>3 DEF EnsureMetadata
  <2>2. /\ pc'[c] = next /\ UNCHANGED <<backend, db, rows, call, revision, operation, mine, told, locker>>
        /\ next \in Steps /\ next \in {"lock", "metadata"} /\ Goto(c, next)
    BY <2>1 DEF Read, Goto, position, MInv, TypeOK, Steps
  <2>3. next = "lock" => db.meta \/ mine[c].meta BY ViewFields
  <2>4. mine[c] = Empty BY <1>1 DEF MInv, Local, Metadata
  <2> HIDE DEF next
  <2>5. Place(c)'
    BY <1>1, <1>3, <2>2 DEF MInv, Local, Place, Supported, Working, This
  <2>6. Metadata(c)' BY <2>2, <2>3, <2>4 DEF Metadata
  <2>7. Local(c)' BY <1>1, <2>2, <2>5, <2>6, MoveLocal DEF MInv
  <2>8. locker \subseteq Clients BY DEF MInv, TypeOK
  <2> QED BY <1>1, <2>2, <2>7, <2>8, ReadStep
<1> QED BY <1>2, <1>3

LEMMA LockStep ==
  ASSUME MInv, NEW c \in Clients, LockRevisions(c)
  PROVE  MInv'
<1> DEFINE next == IF Recorded(c) THEN "revision" ELSE "look"
<1>1. /\ pc[c] = "lock" /\ Goto(c, next) /\ pc'[c] = next /\ next \in Steps
      /\ next \in {"revision", "look"} /\ locker' \subseteq Clients
      /\ UNCHANGED <<backend, db, rows, call, revision, operation, mine, told>>
  BY DEF LockRevisions, Goto, position, MInv, TypeOK, Steps
<1>2. /\ call[c] \in Calls /\ revision[c] = 1 /\ operation[c] = 1 /\ Supported(c)
      /\ db.meta \/ mine[c].meta
  BY <1>1 DEF MInv, Local, Place, Metadata
<1>3. next = "revision" => call[c] \in Requests
  BY <1>2, CallShape DEF Recorded, This
<1>4. next = "look" => call[c] \notin Requests /\ call[c] \in {Creation(n) : n \in Implicit}
  BY <1>2, CallShape DEF Recorded, This, Calls
<1>5. next = "look" => 1 \in DOMAIN This(c).operations
  <2> SUFFICES ASSUME next = "look" PROVE 1 \in DOMAIN This(c).operations
    OBVIOUS
  <2>1. PICK n \in Implicit : call[c] = Creation(n) BY <1>4
  <2> QED BY <1>2, <2>1 DEF Creation, This
<1> HIDE DEF next
<1>6. 1 \in DOMAIN call[c] /\ Len(call[c]) \in Nat /\ 1 \in 1..(Len(call[c]) + 1) BY <1>2, CallShape
<1>7. Place(c)'
  BY <1>1, <1>2, <1>3, <1>5, <1>6 DEF Place, Supported, Working, This
<1>8. Metadata(c)' BY <1>1, <1>2 DEF Metadata
<1>9. Local(c)' BY <1>1, <1>2, <1>7, <1>8, MoveLocal DEF MInv
<1> QED BY <1>1, <1>9, ReadStep

(* A statement that adds to its scope.                                      *)
LEMMA WroteStep ==
  ASSUME MInv, NEW c \in Clients, pc[c] # "idle", NEW changes \in Schema,
         NEW next \in Steps \cup {"note"}, Goto(c, next),
         mine' = [mine EXCEPT ![c] = changes],
         UNCHANGED <<backend, db, rows, call, locker, told>>,
         revision' = revision \/ revision' = [revision EXCEPT ![c] = @ + 1],
         operation' = operation \/ operation' = [operation EXCEPT ![c] = 1]
           \/ operation' = [operation EXCEPT ![c] = @ + 1],
         Local(c)', changes.tables \cap db.tables = {},
         \A d \in Others(c) : changes.tables \cap mine[d].tables = {}
  PROVE  MInv'
<1>1. pc' = [pc EXCEPT ![c] = next] BY DEF Goto
<1>2. TypeOK'
  <2>1. revision' \in [Clients -> Nat] BY Counter DEF MInv, TypeOK
  <2>2. operation' \in [Clients -> Nat] BY Counter DEF MInv, TypeOK
  <2>3. pc' \in [Clients -> {"idle", "ensure", "metadata", "lock", "revision", "look", "make",
                            "note", "record", "commit"}]
    BY <1>1 DEF MInv, TypeOK, Steps
  <2>4. mine' \in [Clients -> Schema] BY DEF MInv, TypeOK
  <2> QED BY <2>1, <2>2, <2>3, <2>4 DEF MInv, TypeOK
<1>3. \A d \in Others(c) : Kept(d) BY <1>1 DEF Others, Kept, MInv, TypeOK
<1>4. mine'[c] = changes BY DEF MInv, TypeOK
<1> QED BY <1>2, <1>3, <1>4, OwnStep

LEMMA MetadataStep ==
  ASSUME MInv, NEW c \in Clients, CreateMetadata(c)
  PROVE  MInv'
<1>1. pc[c] = "metadata" BY DEF CreateMetadata
<1>2. CASE db.meta BY <1>1, <1>2, FailStep DEF CreateMetadata
<1>3. CASE ~db.meta
  <2> DEFINE changes == [mine[c] EXCEPT !.meta = TRUE]
  <2>1. /\ Goto(c, "lock") /\ pc'[c] = "lock" /\ mine' = [mine EXCEPT ![c] = changes]
        /\ UNCHANGED <<backend, db, rows, call, revision, operation, locker, told>>
    BY <1>3 DEF CreateMetadata, Wrote, Goto, position, MInv, TypeOK
  <2>2. mine[c] = Empty BY <1>1 DEF MInv, Local, Metadata
  <2>3. /\ changes \in Schema /\ changes.meta /\ changes.tables = {} /\ changes.guards = {}
        /\ changes.objects = {} /\ changes.rules = {} /\ changes.log = << >>
    BY <2>2, EmptyFields, WithMeta
  <2> HIDE DEF changes
  <2>4. mine'[c] = changes BY <2>1 DEF MInv, TypeOK
  <2>5. Place(c)' /\ Metadata(c)'
    BY <1>1, <2>1, <2>3, <2>4 DEF MInv, Local, Place, Metadata, Supported, Working, This
  <2>6. Made(c)' = {} /\ Objects(c)' = {} BY <2>1, <2>3, <2>4 DEF Made, Objects
  <2>7. Noting(c)' /\ Fits(c)' BY <2>1, <2>3, <2>4, <2>6 DEF Noting, Fits
  <2>8. ToSet(mine'[c].log) = {} BY <2>3, <2>4 DEF ToSet
  <2>9. Behind(c)' /\ Guarding(c)' BY <2>1, <2>3, <2>4, <2>8 DEF Behind, Guarding
  <2>10. Local(c)' BY <2>5, <2>7, <2>9 DEF Local
  <2> QED BY <1>1, <2>1, <2>3, <2>10, WroteStep DEF Steps
<1> QED BY <1>2, <1>3

(* The operation of a client, and the revision it belongs to.                *)
LEMMA Current ==
  ASSUME MInv, NEW c \in Clients, pc[c] \in {"look", "make", "note"}
  PROVE  /\ call[c] \in Calls /\ revision[c] \in DOMAIN call[c]
         /\ operation[c] \in 1..Len(This(c).operations) /\ Len(This(c).operations) \in Nat
         /\ Op(c) \in Operations /\ Op(c).name \in Names /\ Supported(c)
         /\ backend = "pg" => Op(c).op \in Kinds
<1>1. /\ call[c] \in Calls /\ revision[c] \in DOMAIN call[c]
      /\ operation[c] \in DOMAIN This(c).operations /\ Supported(c)
  BY DEF MInv, Local, Place, Working
<1>2. Op(c) \in ToSet(This(c).operations) /\ ToSet(This(c).operations) \subseteq Operations
  BY <1>1, CallShape DEF Op, This
<1>3. Op(c).name \in Names BY <1>2, MigrationsAssumption
<1>4. backend = "pg" => Op(c).op \in Kinds BY <1>1, <1>2 DEF Supported, This
<1> QED BY <1>1, <1>2, <1>3, <1>4, CallShape DEF This

(* After an operation that is in effect comes the next one or the record.     *)
LEMMA NextOperation ==
  ASSUME MInv, NEW c \in Clients, pc[c] \in {"look", "note"}, OperationDone(c),
         \A k \in 1..(operation[c] - 1) : This(c).operations[k] \in Effective(c)',
         Op(c) \in Effective(c)'
  PROVE  /\ Place(c)' /\ pc'[c] \in {"look", "record"} /\ This(c)' = This(c)
         /\ pc'[c] = "look" => \A k \in 1..(operation'[c] - 1) : This(c)'.operations[k] \in Effective(c)'
         /\ pc'[c] = "record" => ToSet(This(c)'.operations) \subseteq Effective(c)'
<1> DEFINE n == Len(This(c).operations)
<1>1. /\ pc'[c] = IF operation[c] < n THEN "look" ELSE "record"
      /\ operation'[c] = operation[c] + 1
      /\ UNCHANGED <<backend, call, revision>>
  BY DEF OperationDone, Goto, MInv, TypeOK
<1>2. This(c)' = This(c) BY <1>1 DEF This
<1>3. /\ call[c] \in Calls /\ revision[c] \in DOMAIN call[c] /\ Supported(c)
      /\ operation[c] \in 1..n /\ n \in Nat
  BY Current
<1>4. /\ DOMAIN This(c).operations = 1..n
      /\ ToSet(This(c).operations) = {This(c).operations[k] : k \in 1..n}
  BY <1>3, CallShape DEF This
<1> HIDE DEF n
<1>5. \A k \in 1..operation[c] : This(c).operations[k] \in Effective(c)'
  <2> SUFFICES ASSUME NEW k \in 1..operation[c] PROVE This(c).operations[k] \in Effective(c)'
    OBVIOUS
  <2>1. CASE k = operation[c] BY <2>1 DEF Op
  <2>2. CASE k # operation[c]
    <3>1. k \in 1..(operation[c] - 1) BY <1>3, <2>2
    <3> QED BY <3>1
  <2> QED BY <2>1, <2>2
<1>6. Place(c)'
  <2>1. operation[c] < n => operation[c] + 1 \in 1..n BY <1>3
  <2> QED BY <1>1, <1>2, <1>3, <1>4, <2>1 DEF Place, Supported, Working
<1>7. ASSUME pc'[c] = "look", NEW k \in 1..(operation'[c] - 1) PROVE This(c)'.operations[k] \in Effective(c)'
  <2>1. k \in 1..operation[c] BY <1>1, <1>3, <1>7
  <2> QED BY <1>2, <1>5, <2>1
<1>8. ASSUME pc'[c] = "record" PROVE ToSet(This(c)'.operations) \subseteq Effective(c)'
  <2>1. operation[c] = n BY <1>1, <1>3, <1>8
  <2> QED BY <1>2, <1>4, <1>5, <2>1
<1> QED BY <1>1, <1>2, <1>6, <1>7, <1>8

LEMMA RevisionStep ==
  ASSUME MInv, NEW c \in Clients, LookForRevision(c)
  PROVE  MInv'
<1>1. /\ pc[c] = "revision" /\ call[c] \in Requests /\ call[c] \in Calls
      /\ revision[c] \in 1..(Len(call[c]) + 1) /\ operation[c] = 1 /\ Supported(c)
      /\ db.meta \/ mine[c].meta
  BY DEF LookForRevision, MInv, Local, Place, Metadata
<1>2. Len(call[c]) \in Nat /\ DOMAIN call[c] = 1..Len(call[c]) BY <1>1, CallShape
<1>3. CASE Fail(c, "drift") \/ Fail(c, "order") BY <1>1, <1>3, FailStep
<1>4. CASE revision[c] > Len(call[c]) /\ Read(c, "commit")
  <2>1. /\ pc'[c] = "commit" /\ Goto(c, "commit")
        /\ UNCHANGED <<backend, db, rows, call, revision, operation, mine, told, locker>>
    BY <1>4 DEF Read, Goto, position, MInv, TypeOK
  <2>2. Place(c)' /\ Metadata(c)' BY <1>1, <2>1 DEF Place, Metadata, Supported, Working
  <2>3. Local(c)' BY <1>1, <2>1, <2>2, MoveLocal DEF MInv
  <2>4. locker \subseteq Clients BY DEF MInv, TypeOK
  <2> QED BY <1>1, <2>1, <2>3, <2>4, ReadStep DEF Steps
<1>5. CASE revision[c] <= Len(call[c]) /\ RevisionDone(c) /\ UNCHANGED mine
  <2>1. /\ pc'[c] = "revision" /\ Goto(c, "revision")
        /\ revision' = [revision EXCEPT ![c] = @ + 1] /\ operation' = [operation EXCEPT ![c] = 1]
        /\ revision'[c] = revision[c] + 1 /\ operation'[c] = 1
        /\ UNCHANGED <<backend, db, rows, call, mine, told, locker>>
    BY <1>5 DEF RevisionDone, Goto, MInv, TypeOK
  <2>2. revision'[c] \in 1..(Len(call[c]) + 1) BY <1>1, <1>2, <1>5, <2>1
  <2>3. Place(c)' /\ Metadata(c)' BY <1>1, <2>1, <2>2 DEF Place, Metadata, Supported, Working
  <2>4. Local(c)' BY <1>1, <2>1, <2>3, MoveLocal DEF MInv
  <2>5. locker \subseteq Clients BY DEF MInv, TypeOK
  <2> QED BY <1>1, <2>1, <2>4, <2>5, ReadStep DEF Steps
<1>6. CASE /\ revision[c] <= Len(call[c])
           /\ Read(c, IF This(c).operations = << >> THEN "record" ELSE "look")
  <2> DEFINE next == IF This(c).operations = << >> THEN "record" ELSE "look"
  <2>1. /\ pc'[c] = next /\ Goto(c, next) /\ next \in Steps /\ next \in {"record", "look"}
        /\ UNCHANGED <<backend, db, rows, call, revision, operation, mine, told, locker>>
    BY <1>6 DEF Read, Goto, position, MInv, TypeOK, Steps
  <2>2. revision[c] \in DOMAIN call[c] BY <1>1, <1>2, <1>6
  <2>3. This(c) \in Revisions BY <1>1, <2>2, CallShape, MigrationsAssumption DEF This, Revisions, ToSet
  <2>4. This(c).operations \in Seq(ToSet(This(c).operations)) BY <2>3, MigrationsAssumption
  <2>5. next = "look" => 1 \in DOMAIN This(c).operations BY <2>4
  <2>6. next = "record" => ToSet(This(c).operations) = {} BY DEF ToSet
  <2>7. This(c)' = This(c) BY <2>1 DEF This
  <2> HIDE DEF next
  <2>8. Place(c)' /\ Metadata(c)'
    BY <1>1, <2>1, <2>2, <2>5, <2>7 DEF Place, Metadata, Supported, Working
  <2>9. Local(c)' BY <1>1, <2>1, <2>6, <2>7, <2>8, MoveLocal DEF MInv
  <2>10. locker \subseteq Clients BY DEF MInv, TypeOK
  <2> QED BY <1>1, <2>1, <2>9, <2>10, ReadStep
<1>7. (revision[c] > Len(call[c])) \/ revision[c] <= Len(call[c]) BY <1>1, <1>2
<1> QED BY <1>3, <1>4, <1>5, <1>6, <1>7 DEF LookForRevision

(* A name declared in the view of a client has a table there.                *)
LEMMA HasTable ==
  ASSUME MInv, NEW c \in Clients, NEW o \in View(c).objects
  PROVE  o.name \in Tables(c)
<1>1. o \in db.objects \/ o \in mine[c].objects BY ViewFields
<1>2. \A p \in db.objects : p.name \in db.tables BY DEF MInv, Sound, MetadataMatchesSchema
<1>3. \A p \in mine[c].objects : p.name \in mine[c].tables BY DEF MInv, Local, Noting, Objects
<1> QED BY <1>1, <1>2, <1>3 DEF Tables

LEMMA LookStep ==
  ASSUME MInv, NEW c \in Clients, LookForObject(c)
  PROVE  MInv'
<1>1. pc[c] = "look" /\ Noting(c) /\ Made(c) = {} /\ (db.meta \/ mine[c].meta)
  BY DEF LookForObject, MInv, Local, Metadata, Made
<1>2. CASE Fail(c, "failed") BY <1>1, <1>2, FailStep
<1>3. CASE OperationDone(c) /\ UNCHANGED mine /\ Op(c) \in View(c).objects \cup View(c).rules
  <2>1. UNCHANGED <<backend, db, rows, call, revision, mine, told, locker>>
    BY <1>3 DEF OperationDone
  <2>2. Effective(c)' = Effective(c) /\ Op(c) \in Effective(c)
    BY <1>3, <2>1, ViewFields DEF Effective
  <2>3. \A k \in 1..(operation[c] - 1) : This(c).operations[k] \in Effective(c)
    BY <1>1 DEF MInv, Local, Behind
  <2>4. /\ Place(c)' /\ pc'[c] \in {"look", "record"}
        /\ pc'[c] = "look" => \A k \in 1..(operation'[c] - 1) : This(c)'.operations[k] \in Effective(c)
        /\ pc'[c] = "record" => ToSet(This(c)'.operations) \subseteq Effective(c)
    BY <1>1, <1>3, <2>2, <2>3, NextOperation
  <2>5. Metadata(c)' BY <1>1, <2>1, <2>4 DEF Metadata
  <2>6. Local(c)' BY <1>1, <2>1, <2>4, <2>5, MoveLocal DEF MInv
  <2>7. \E next \in Steps : Goto(c, next) BY <1>3 DEF OperationDone, Steps
  <2>8. locker \subseteq Clients /\ operation' = [operation EXCEPT ![c] = @ + 1]
    BY <1>3 DEF MInv, TypeOK, OperationDone
  <2> QED BY <1>1, <2>1, <2>6, <2>7, <2>8, ReadStep
<1>4. CASE /\ Read(c, "make")
           /\ Op(c).op \in Kinds =>
                /\ \A o \in View(c).objects : o.name # Op(c).name
                /\ \A n \in Op(c).ends : \E o \in View(c).objects : o.name = n
           /\ Op(c).op \notin Kinds => ~Violated(Op(c))
  <2>1. /\ pc'[c] = "make" /\ Goto(c, "make")
        /\ UNCHANGED <<backend, db, rows, call, revision, operation, mine, told, locker>>
    BY <1>4 DEF Read, Goto, position, MInv, TypeOK
  <2>2. This(c)' = This(c) /\ Op(c)' = Op(c) BY <2>1 DEF This, Op
  <2>3. Place(c)' /\ Metadata(c)'
    BY <1>1, <2>1, <2>2 DEF MInv, Local, Place, Metadata, Supported, Working
  <2>4. Op(c).op \in Kinds => Op(c).name \notin mine[c].tables
    <3>1. mine[c].tables = {o.name : o \in mine[c].objects} BY <1>1 DEF Noting, Objects
    <3> QED BY <1>4, <3>1, ViewFields
  <2>5. Op(c).op \in Kinds => Op(c).ends \subseteq Tables(c) BY <1>4, HasTable
  <2>6. Op(c).op \notin Kinds => Op(c) \notin rows BY <1>4 DEF Violated
  <2>7. \A k \in 1..(operation[c] - 1) : This(c).operations[k] \in Effective(c)
    BY <1>1 DEF MInv, Local, Behind
  <2>8. Local(c)' BY <1>1, <2>1, <2>2, <2>3, <2>4, <2>5, <2>6, <2>7, MoveLocal DEF MInv
  <2>9. locker \subseteq Clients BY DEF MInv, TypeOK
  <2> QED BY <1>1, <2>1, <2>8, <2>9, ReadStep DEF Steps
<1> QED BY <1>2, <1>3, <1>4 DEF LookForObject, Same

LEMMA MakeStep ==
  ASSUME MInv, NEW c \in Clients, MakeObject(c)
  PROVE  MInv'
<1> DEFINE op == Op(c)
<1>1. /\ pc[c] = "make" /\ mine[c] \in Schema /\ Place(c) /\ Noting(c) /\ Fits(c) /\ Guarding(c)
      /\ Made(c) = {} /\ Objects(c) = mine[c].objects /\ (db.meta \/ mine[c].meta)
  BY DEF MakeObject, MInv, TypeOK, Local, Made, Objects, Metadata
<1>2. op \in Operations /\ op.name \in Names /\ (backend = "pg" => op.op \in Kinds)
  BY <1>1, Current
<1>3. \A k \in 1..(operation[c] - 1) : This(c).operations[k] \in Effective(c)
  BY <1>1 DEF MInv, Local, Behind
<1>4. \A r \in ToSet(mine[c].log) : ToSet(r.operations) \subseteq Effective(c)
  BY DEF MInv, Local, Behind
<1>5. CASE op.op \in Kinds
  <2> DEFINE changes == [mine[c] EXCEPT !.tables = @ \cup {op.name}]
  <2>1. CASE op.name \in db.tables BY <1>1, <1>5, <2>1, FailStep DEF MakeObject
  <2>2. CASE op.name \notin db.tables
    <3>1. /\ Goto(c, "note") /\ pc'[c] = "note" /\ mine' = [mine EXCEPT ![c] = changes]
          /\ UNCHANGED <<backend, db, rows, call, revision, operation, locker, told>>
          /\ \A d \in Others(c) : op.name \notin mine[d].tables
      BY <1>5, <2>2 DEF MakeObject, Wrote, Goto, position, MInv, TypeOK
    <3>2. /\ changes \in Schema /\ changes.tables = mine[c].tables \cup {op.name}
          /\ changes.meta = mine[c].meta /\ changes.guards = mine[c].guards
          /\ changes.objects = mine[c].objects /\ changes.rules = mine[c].rules /\ changes.log = mine[c].log
      BY <1>1, <1>2, WithTable
    <3> HIDE DEF changes
    <3>3. mine'[c] = changes /\ This(c)' = This(c) /\ Op(c)' = op
      BY <3>1 DEF MInv, TypeOK, This, Op
    <3> HIDE DEF op
    <3>4. Made(c)' = {op} /\ Objects(c)' = mine[c].objects \cup {op}
      BY <1>5, <3>1, <3>2, <3>3 DEF Made, Objects
    <3>5. Place(c)' BY <1>1, <3>1, <3>3 DEF Place, Supported, Working
    <3>6. Metadata(c)' BY <1>1, <3>1, <3>2, <3>3 DEF Metadata
    <3>7. Noting(c)' BY <1>1, <1>5, <3>2, <3>3, <3>4 DEF Noting
    <3>8. Fits(c)'
      <4>1. op.name \notin mine[c].tables /\ op.ends \subseteq Tables(c) BY <1>1, <1>5 DEF Fits, op
      <4>2. Tables(c) \subseteq Tables(c)' BY <3>1, <3>2, <3>3 DEF Tables
      <4>3. \A o \in mine[c].objects : o.name \in mine[c].tables BY <1>1 DEF Noting
      <4> QED BY <1>1, <3>1, <3>4, <4>1, <4>2, <4>3 DEF Fits
    <3>9. Effective(c)' = Effective(c) BY <3>1, <3>2, <3>3 DEF Effective
    <3>10. Behind(c)' BY <1>3, <1>4, <3>1, <3>2, <3>3, <3>9 DEF Behind
    <3>11. Guarding(c)' BY <1>1, <3>1, <3>2, <3>3 DEF Guarding
    <3>12. Local(c)' BY <3>5, <3>6, <3>7, <3>8, <3>10, <3>11 DEF Local
    <3>13. /\ changes.tables \cap db.tables = {}
           /\ \A d \in Others(c) : changes.tables \cap mine[d].tables = {}
      BY <2>2, <3>1, <3>2 DEF MInv, Apart
    <3> QED BY <1>1, <3>1, <3>2, <3>12, <3>13, WroteStep
  <2> QED BY <2>1, <2>2
<1>6. CASE op.op \notin Kinds
  <2> DEFINE changes == [mine[c] EXCEPT !.guards = @ \cup {op}]
  <2>1. /\ Goto(c, "note") /\ pc'[c] = "note" /\ mine' = [mine EXCEPT ![c] = changes]
        /\ UNCHANGED <<backend, db, rows, call, revision, operation, locker, told>>
    BY <1>6 DEF MakeObject, Wrote, Goto, position, MInv, TypeOK
  <2>2. op \in RuleOps BY <1>2, <1>6 DEF RuleOps, Declarations
  <2>3. /\ changes \in Schema /\ changes.guards = mine[c].guards \cup {op}
        /\ changes.meta = mine[c].meta /\ changes.tables = mine[c].tables
        /\ changes.objects = mine[c].objects /\ changes.rules = mine[c].rules /\ changes.log = mine[c].log
    BY <1>1, <2>2, WithGuard
  <2> HIDE DEF changes
  <2>4. mine'[c] = changes /\ This(c)' = This(c) /\ Op(c)' = op
    BY <2>1 DEF MInv, TypeOK, This, Op
  <2>5. op \notin rows BY <1>1, <1>6 DEF Guarding
  <2> HIDE DEF op
  <2>6. Made(c)' = {op} /\ Objects(c)' = mine[c].objects
    BY <1>6, <2>1, <2>3, <2>4 DEF Made, Objects
  <2>7. Place(c)' BY <1>1, <2>1, <2>4 DEF Place, Supported, Working
  <2>8. Metadata(c)' BY <1>1, <2>1, <2>3, <2>4 DEF Metadata
  <2>9. Noting(c)' BY <1>1, <1>6, <2>3, <2>4, <2>6 DEF Noting
  <2>10. Tables(c)' = Tables(c) /\ Effective(c)' = Effective(c)
    BY <2>1, <2>3, <2>4 DEF Tables, Effective
  <2>11. Fits(c)' BY <1>1, <2>1, <2>6, <2>10 DEF Fits
  <2>12. Behind(c)' BY <1>3, <1>4, <2>1, <2>3, <2>4, <2>10 DEF Behind
  <2>13. Guarding(c)' BY <1>1, <1>2, <1>6, <2>1, <2>3, <2>4, <2>5 DEF Guarding
  <2>14. Local(c)' BY <2>7, <2>8, <2>9, <2>11, <2>12, <2>13 DEF Local
  <2>15. /\ changes.tables \cap db.tables = {}
         /\ \A d \in Others(c) : changes.tables \cap mine[d].tables = {}
    BY <2>3 DEF MInv, Apart
  <2> QED BY <1>1, <2>1, <2>3, <2>14, <2>15, WroteStep
<1> QED BY <1>5, <1>6

LEMMA NoteStep ==
  ASSUME MInv, NEW c \in Clients, NoteObject(c)
  PROVE  MInv'
<1> DEFINE op == Op(c)
           changes == Noted(c, op)
<1>1. /\ pc[c] = "note" /\ mine[c] \in Schema /\ Noting(c) /\ Fits(c) /\ Guarding(c)
      /\ Made(c) = {op} /\ (db.meta \/ mine[c].meta)
      /\ Objects(c) = mine[c].objects \cup {o \in {op} : o.op \in Kinds}
  BY DEF NoteObject, MInv, TypeOK, Local, Made, Objects, Metadata
<1>2. op \in Operations BY <1>1, Current
<1>3. /\ \A k \in 1..(operation[c] - 1) : This(c).operations[k] \in Effective(c)
      /\ \A r \in ToSet(mine[c].log) : ToSet(r.operations) \subseteq Effective(c)
  BY <1>1 DEF MInv, Local, Behind
<1>4. /\ OperationDone(c) /\ mine' = [mine EXCEPT ![c] = changes]
      /\ UNCHANGED <<backend, db, rows, call, revision, locker, told>>
      /\ operation' = [operation EXCEPT ![c] = @ + 1]
  BY DEF NoteObject, OperationDone
<1>5. /\ changes \in Schema /\ changes.meta = mine[c].meta /\ changes.tables = mine[c].tables
      /\ changes.guards = mine[c].guards /\ changes.log = mine[c].log
      /\ changes.objects = mine[c].objects \cup {o \in {op} : o.op \in Kinds}
      /\ changes.rules = mine[c].rules \cup {o \in {op} : o.op \notin Kinds}
  <2>1. CASE op.op \in Kinds
    <3>1. op \in Declarations BY <1>2, <2>1 DEF Declarations
    <3>2. changes = [mine[c] EXCEPT !.objects = @ \cup {op}] BY <2>1 DEF Noted
    <3> HIDE DEF op, changes
    <3> QED BY <1>1, <2>1, <3>1, <3>2, WithObject
  <2>2. CASE op.op \notin Kinds
    <3>1. op \in RuleOps BY <1>2, <2>2 DEF RuleOps, Declarations
    <3>2. changes = [mine[c] EXCEPT !.rules = @ \cup {op}] BY <2>2 DEF Noted
    <3> HIDE DEF op, changes
    <3> QED BY <1>1, <2>2, <3>1, <3>2, WithRule
  <2> QED BY <2>1, <2>2
<1> HIDE DEF changes
<1>6. mine'[c] = changes BY <1>4 DEF MInv, TypeOK
<1> HIDE DEF op
<1>7. Effective(c)' = Effective(c) \cup {op} /\ Tables(c)' = Tables(c)
  BY <1>4, <1>5, <1>6 DEF Effective, Tables
<1>8. /\ Place(c)' /\ pc'[c] \in {"look", "record"} /\ This(c)' = This(c)
      /\ pc'[c] = "look" => \A k \in 1..(operation'[c] - 1) : This(c)'.operations[k] \in Effective(c)'
      /\ pc'[c] = "record" => ToSet(This(c)'.operations) \subseteq Effective(c)'
  <2>1. Op(c) \in Effective(c)' BY <1>7 DEF op
  <2>2. \A k \in 1..(operation[c] - 1) : This(c).operations[k] \in Effective(c)' BY <1>3, <1>7
  <2> QED BY <1>1, <1>4, <2>1, <2>2, NextOperation
<1>9. Made(c)' = {} /\ Objects(c)' = Objects(c) BY <1>1, <1>5, <1>6, <1>8 DEF Made, Objects
<1>10. Metadata(c)' BY <1>1, <1>4, <1>5, <1>6, <1>8 DEF Metadata
<1>11. Noting(c)' BY <1>1, <1>5, <1>6, <1>9 DEF Noting
<1>12. Fits(c)' BY <1>1, <1>7, <1>8, <1>9 DEF Fits
<1>13. Behind(c)' BY <1>3, <1>5, <1>6, <1>7, <1>8 DEF Behind
<1>14. Guarding(c)' BY <1>1, <1>4, <1>5, <1>6, <1>8 DEF Guarding
<1>15. Local(c)' BY <1>8, <1>10, <1>11, <1>12, <1>13, <1>14 DEF Local
<1>16. \E next \in Steps : Goto(c, next) BY <1>4 DEF OperationDone, Steps
<1>17. /\ changes.tables \cap db.tables = {}
       /\ \A d \in Others(c) : changes.tables \cap mine[d].tables = {}
  BY <1>5 DEF MInv, Apart
<1> QED BY <1>1, <1>4, <1>5, <1>15, <1>16, <1>17, WroteStep

LEMMA RecordStep ==
  ASSUME MInv, NEW c \in Clients, RecordRevision(c)
  PROVE  MInv'
<1>1. /\ pc[c] = "record" /\ mine[c] \in Schema /\ Noting(c) /\ Fits(c) /\ Guarding(c)
      /\ Made(c) = {} /\ (db.meta \/ mine[c].meta) /\ Objects(c) = mine[c].objects
      /\ call[c] \in Calls /\ revision[c] \in DOMAIN call[c] /\ Supported(c)
      /\ ToSet(This(c).operations) \subseteq Effective(c)
      /\ \A r \in ToSet(mine[c].log) : ToSet(r.operations) \subseteq Effective(c)
  BY DEF RecordRevision, MInv, TypeOK, Local, Place, Behind, Made, Objects, Metadata, Working
<1>2. CASE Fail(c, "duplicate") BY <1>1, <1>2, FailStep
<1>3. CASE Read(c, "commit")
  <2>1. /\ pc'[c] = "commit" /\ Goto(c, "commit")
        /\ UNCHANGED <<backend, db, rows, call, revision, operation, mine, told, locker>>
    BY <1>3 DEF Read, Goto, position, MInv, TypeOK
  <2>2. Place(c)' /\ Metadata(c)' BY <1>1, <2>1 DEF Place, Metadata, Supported, Working
  <2>3. Local(c)' BY <1>1, <2>1, <2>2, MoveLocal DEF MInv
  <2>4. locker \subseteq Clients BY DEF MInv, TypeOK
  <2> QED BY <1>1, <2>1, <2>3, <2>4, ReadStep DEF Steps
<1>4. CASE Recorded(c) /\ mine' = [mine EXCEPT ![c].log = Append(@, This(c))] /\ RevisionDone(c)
  <2> DEFINE changes == [mine[c] EXCEPT !.log = Append(@, This(c))]
  <2>1. call[c] \in Requests /\ This(c) \in Revisions
    BY <1>1, <1>4, CallShape DEF Recorded, This
  <2>2. /\ pc'[c] = "revision" /\ Goto(c, "revision")
        /\ revision' = [revision EXCEPT ![c] = @ + 1] /\ operation' = [operation EXCEPT ![c] = 1]
        /\ revision'[c] = revision[c] + 1 /\ operation'[c] = 1
        /\ UNCHANGED <<backend, db, rows, call, told, locker>>
    BY <1>4 DEF RevisionDone, Goto, MInv, TypeOK
  <2>3. mine' = [mine EXCEPT ![c] = changes] BY <1>4 DEF MInv, TypeOK
  <2>4. /\ changes \in Schema /\ changes.log = Append(mine[c].log, This(c))
        /\ changes.meta = mine[c].meta /\ changes.tables = mine[c].tables /\ changes.guards = mine[c].guards
        /\ changes.objects = mine[c].objects /\ changes.rules = mine[c].rules
    BY <1>1, <2>1, WithRevision
  <2> HIDE DEF changes
  <2>5. mine'[c] = changes BY <2>3 DEF MInv, TypeOK
  <2>6. ToSet(changes.log) = ToSet(mine[c].log) \cup {This(c)}
    <3>1. mine[c].log \in Seq(Revisions) BY <1>1 DEF Schema
    <3> QED BY <2>1, <2>4, <3>1, Appended
  <2>7. Place(c)'
    <3>1. Len(call[c]) \in Nat /\ revision[c] \in 1..Len(call[c]) BY <1>1, CallShape
    <3>2. revision'[c] \in 1..(Len(call[c]) + 1) BY <2>2, <3>1
    <3> QED BY <1>1, <2>1, <2>2, <3>2 DEF Place, Supported, Working
  <2>8. Metadata(c)' BY <1>1, <2>2, <2>4, <2>5 DEF Metadata
  <2>9. /\ Made(c)' = {} /\ Objects(c)' = Objects(c)
        /\ Effective(c)' = Effective(c) /\ Tables(c)' = Tables(c)
    BY <1>1, <2>2, <2>4, <2>5 DEF Made, Objects, Effective, Tables
  <2>10. Noting(c)' BY <1>1, <2>4, <2>5, <2>9 DEF Noting
  <2>11. Fits(c)' BY <1>1, <2>2, <2>9 DEF Fits
  <2>12. Behind(c)' BY <1>1, <2>2, <2>5, <2>6, <2>9 DEF Behind
  <2>13. Guarding(c)' BY <1>1, <2>2, <2>4, <2>5 DEF Guarding
  <2>14. Local(c)' BY <2>7, <2>8, <2>10, <2>11, <2>12, <2>13 DEF Local
  <2>15. /\ changes.tables \cap db.tables = {}
         /\ \A d \in Others(c) : changes.tables \cap mine[d].tables = {}
    BY <2>4 DEF MInv, Apart
  <2> QED BY <1>1, <2>2, <2>3, <2>4, <2>14, <2>15, WroteStep DEF Steps
<1> QED BY <1>2, <1>3, <1>4 DEF RecordRevision

(* What a scope commits fits what others have committed meanwhile.           *)
LEMMA CommitStep ==
  ASSUME MInv, NEW c \in Clients, NEW landed \in BOOLEAN, NEW report \in {"ok", "unknown"},
         Commit(c, landed, report)
  PROVE  MInv'
<1>1. pc[c] = "commit" /\ End(c, report) BY DEF Commit
<1>2. CASE ~landed
  <2>1. Fail(c, "unknown") BY <1>2 DEF Commit, Fail
  <2> QED BY <1>1, <2>1, FailStep
<1>3. CASE landed
  <2>1. /\ pc' = [pc EXCEPT ![c] = "idle"] /\ mine' = [mine EXCEPT ![c] = Empty]
        /\ told' = [told EXCEPT ![c] = report] /\ locker' = locker \ {c}
        /\ UNCHANGED <<backend, rows, call, revision, operation>> /\ db' = View(c)
    BY <1>1, <1>3 DEF Commit, End, Goto, position
  <2>2. pc'[c] = "idle" /\ mine'[c] = Empty BY <2>1 DEF MInv, TypeOK
  <2>3. \A d \in Others(c) : Kept(d) BY <2>1 DEF Others, Kept, MInv, TypeOK
  <2>4. /\ db'.meta = (db.meta \/ mine[c].meta) /\ db'.tables = db.tables \cup mine[c].tables
        /\ db'.guards = db.guards \cup mine[c].guards /\ db'.objects = db.objects \cup mine[c].objects
        /\ db'.rules = db.rules \cup mine[c].rules /\ db'.log = db.log \o mine[c].log
    BY <2>1, ViewFields
  <2>5. db \in Schema /\ mine[c] \in Schema BY DEF MInv, TypeOK
  <2>6. db.log \in Seq(Revisions) /\ mine[c].log \in Seq(Revisions) BY <2>5 DEF Schema
  <2>7. db.log \o mine[c].log \in Seq(Revisions) BY <2>6
  <2>8. db' \in Schema BY <2>1, <2>5, <2>7 DEF View, Plus, Schema
  <2>9. TypeOK' BY <2>1, <2>8, EmptyFields DEF MInv, TypeOK
  <2>10. Local(c)'
    <3>1. Made(c)' = {} /\ Objects(c)' = {} BY <2>2, EmptyFields DEF Made, Objects
    <3>2. Place(c)' /\ Metadata(c)' BY <2>2 DEF Place, Metadata, Working
    <3>3. Noting(c)' /\ Fits(c)' BY <2>2, <3>1, EmptyFields DEF Noting, Fits
    <3>4. ToSet(mine'[c].log) = {} BY <2>2, EmptyFields DEF ToSet
    <3>5. Behind(c)' BY <2>2, <3>4 DEF Behind
    <3>6. Guarding(c)' BY <2>2, EmptyFields DEF Guarding
    <3> QED BY <3>2, <3>3, <3>5, <3>6 DEF Local
  <2>11. \A d \in Others(c) : Local(d)'
    <3> SUFFICES ASSUME NEW d \in Others(c) PROVE Local(d)'
      OBVIOUS
    <3>1. d \in Clients /\ Local(d) /\ Guarding(d) /\ Kept(d) BY <2>3 DEF Others, MInv, Local
    <3> QED BY <2>1, <2>4, <3>1, Frame DEF Kept, Guarding
  <2>12. Alone' BY <2>1, <2>2, <2>3 DEF MInv, Alone, Kept, Others
  <2>13. Apart'
    BY <2>2, <2>3, <2>4, EmptyFields DEF MInv, Apart, Kept, Others
  <2>14. /\ Noting(c) /\ Fits(c) /\ Behind(c) /\ Guarding(c) /\ Objects(c) = mine[c].objects
         /\ Made(c) = {} /\ (db.meta \/ mine[c].meta)
    BY <1>1 DEF MInv, Local, Made, Objects, Metadata
  <2>15. MetadataMatchesSchema'
    <3>1. MetadataMatchesSchema /\ mine[c].tables \cap db.tables = {}
      BY DEF MInv, Sound, Apart
    <3>2. mine[c].tables = {o.name : o \in mine[c].objects} /\ mine[c].guards = mine[c].rules
      BY <2>14 DEF Noting
    <3>3. db'.tables = {o.name : o \in db'.objects} /\ db'.guards = db'.rules
      BY <2>4, <3>1, <3>2 DEF MetadataMatchesSchema
    <3>4. ASSUME NEW o \in db'.objects, NEW p \in db'.objects, o.name = p.name PROVE o = p
      <4>1. CASE o \in db.objects /\ p \in db.objects BY <3>1, <3>4, <4>1 DEF MetadataMatchesSchema
      <4>2. CASE o \in mine[c].objects /\ p \in mine[c].objects BY <2>14, <3>4, <4>2 DEF Fits
      <4>3. \A x \in db.objects : x.name \in db.tables BY <3>1 DEF MetadataMatchesSchema
      <4>4. \A x \in mine[c].objects : x.name \in mine[c].tables BY <3>2
      <4> QED BY <2>4, <3>1, <3>4, <4>1, <4>2, <4>3, <4>4
    <3>5. \A o \in db'.objects : o.ends \subseteq db'.tables
      BY <2>4, <2>14, <3>1 DEF MetadataMatchesSchema, Fits, Tables
    <3>6. db'.meta BY <2>4, <2>14
    <3> QED BY <3>3, <3>4, <3>5, <3>6 DEF MetadataMatchesSchema
  <2>16. RecordedIsInstalled'
    <3> SUFFICES ASSUME NEW r \in ToSet(db'.log) PROVE ToSet(r.operations) \subseteq db'.objects \cup db'.rules
      BY DEF RecordedIsInstalled
    <3>1. r \in ToSet(db.log) \cup ToSet(mine[c].log) BY <2>4, <2>6, Joined
    <3>2. CASE r \in ToSet(db.log)
      BY <2>4, <3>2 DEF MInv, Sound, RecordedIsInstalled
    <3>3. CASE r \in ToSet(mine[c].log) BY <2>4, <2>14, <3>3 DEF Behind, Effective
    <3> QED BY <3>1, <3>2, <3>3
  <2>17. RulesHold' BY <2>1, <2>4, <2>14 DEF MInv, Sound, RulesHold, Guarding
  <2> QED BY <2>9, <2>10, <2>11, <2>12, <2>13, <2>15, <2>16, <2>17 DEF MInv, Sound, Others
<1> QED BY <1>2, <1>3

(* A row is written before its rule is installed, never while it is.         *)
LEMMA RowStep ==
  ASSUME MInv, NEW op \in RuleOps, WriteRow(op) \/ RepairRows(op)
  PROVE  MInv'
<1>1. /\ UNCHANGED <<backend, db, pc, call, revision, operation, mine, locker, told>>
      /\ rows' \subseteq rows \cup {op} /\ MayWrite
  BY DEF WriteRow, RepairRows, position
<1>2. op \in rows' /\ op \notin rows => op \notin db.guards BY DEF WriteRow, RepairRows
<1>3. TypeOK' BY <1>1 DEF MInv, TypeOK
<1>4. \A d \in Clients : Local(d)'
  <2> SUFFICES ASSUME NEW d \in Clients PROVE Local(d)'
    OBVIOUS
  <2>1. Local(d) /\ Guarding(d) BY DEF MInv, Local
  <2>2. CASE pc[d] = "idle"
    <3>1. mine[d] = Empty BY <2>1, <2>2 DEF Local, Metadata
    <3> QED BY <1>1, <2>1, <2>2, <3>1, EmptyFields, Frame
  <2>3. CASE pc[d] # "idle"
    <3>1. backend = "pg" BY <1>1, <2>3 DEF MayWrite
    <3>2. pc[d] = "make" => Op(d).op \in Kinds BY <3>1, Current
    <3> QED BY <1>1, <2>1, <3>1, <3>2, Frame DEF Guarding
  <2> QED BY <2>2, <2>3
<1>5. Alone' /\ Apart' BY <1>1 DEF MInv, Alone, Apart, Others
<1>6. Sound' BY <1>1, <1>2 DEF MInv, Sound, MetadataMatchesSchema, RecordedIsInstalled, RulesHold
<1> QED BY <1>3, <1>4, <1>5, <1>6 DEF MInv

-----------------------------------------------------------------------------
LEMMA MInit == Init => MInv
<1> SUFFICES ASSUME Init PROVE MInv
  OBVIOUS
<1>1. TypeOK BY EmptyFields DEF Init, TypeOK
<1>2. \A c \in Clients : pc[c] = "idle" /\ mine[c] = Empty BY DEF Init
<1>3. ToSet(Empty.log) = {} BY EmptyFields DEF ToSet
<1>4. \A c \in Clients : Local(c)
  <2> SUFFICES ASSUME NEW c \in Clients PROVE Local(c)
    OBVIOUS
  <2>1. Made(c) = {} /\ Objects(c) = {} BY <1>2, EmptyFields DEF Made, Objects
  <2>2. Place(c) /\ Metadata(c) BY <1>2 DEF Place, Metadata, Working
  <2>3. Noting(c) /\ Fits(c) BY <1>2, <2>1, EmptyFields DEF Noting, Fits
  <2>4. Behind(c) BY <1>2, <1>3 DEF Behind
  <2>5. Guarding(c) BY <1>2, EmptyFields DEF Guarding
  <2> QED BY <2>2, <2>3, <2>4, <2>5 DEF Local
<1>5. Alone /\ Apart BY <1>2, EmptyFields DEF Alone, Apart, Others
<1>6. Sound
  BY <1>3, EmptyFields DEF Init, Sound, MetadataMatchesSchema, RecordedIsInstalled, RulesHold
<1> QED BY <1>1, <1>4, <1>5, <1>6 DEF MInv

LEMMA MStep == MInv /\ [Next]_vars => MInv'
<1> SUFFICES ASSUME MInv, [Next]_vars PROVE MInv'
  OBVIOUS
<1>1. ASSUME NEW c \in Clients, Statement(c) PROVE MInv'
  BY <1>1, EnsureStep, MetadataStep, LockStep, RevisionStep, LookStep, MakeStep, NoteStep, RecordStep
     DEF Statement
<1>2. ASSUME NEW c \in Clients, Fault(c) PROVE MInv'
  BY <1>2, FailStep DEF Fault
<1>3. CASE UNCHANGED vars
  <2>1. UNCHANGED <<backend, db, rows, pc, call, revision, operation, mine, locker, told>>
    BY <1>3 DEF vars, position
  <2>2. TypeOK' BY <2>1 DEF MInv, TypeOK
  <2>3. \A d \in Clients : Local(d)'
    <3> SUFFICES ASSUME NEW d \in Clients PROVE Local(d)'
      OBVIOUS
    <3>1. Local(d) /\ Guarding(d) BY DEF MInv, Local
    <3> QED BY <2>1, <3>1, Frame DEF Guarding
  <2>4. Alone' /\ Apart' BY <2>1 DEF MInv, Alone, Apart, Others
  <2>5. Sound' BY <2>1 DEF MInv, Sound, MetadataMatchesSchema, RecordedIsInstalled, RulesHold
  <2> QED BY <2>2, <2>3, <2>4, <2>5 DEF MInv
<1> QED BY <1>1, <1>2, <1>3, BeginStep, CommitStep, RowStep DEF Next

LEMMA MInvariant == Spec => []MInv
BY MInit, MStep, PTL DEF Spec

-----------------------------------------------------------------------------
(* A client is where its call can be, what it added is of the instance, for   *)
(* any lists of revisions (migrate, create).                                *)
THEOREM MigrationTypes == Spec => []TypeOK
<1>1. MInv => TypeOK BY DEF MInv
<1> QED BY MInvariant, <1>1, PTL

(* Each operation of a recorded revision is declared as the revision says     *)
(* (migrate).                                                               *)
THEOREM RevisionsInEffect == Spec => []RecordedIsInstalled
<1>1. MInv => RecordedIsInstalled BY DEF MInv, Sound
<1> QED BY MInvariant, <1>1, PTL

(* Metadata and SQL objects agree whatever calls race, fail or die (create,   *)
(* add_constraint).                                                         *)
THEOREM SchemasMatch == Spec => []MetadataMatchesSchema
<1>1. MInv => MetadataMatchesSchema BY DEF MInv, Sound
<1> QED BY MInvariant, <1>1, PTL

(* No row breaks an installed rule, also one that was written while the rule  *)
(* was being installed (add_constraint).                                    *)
THEOREM RulesAreKept == Spec => []RulesHold
<1>1. MInv => RulesHold BY DEF MInv, Sound
<1> QED BY MInvariant, <1>1, PTL

(* A set of numbers that is not empty has a least one.                      *)
LEMMA Least ==
  ASSUME NEW T, T \subseteq Nat, T # {}
  PROVE  \E n \in T : \A m \in T : n <= m
<1> DEFINE R == OpToRel(<, Nat)
<1>1. \A a, b \in Nat : a < b => <<a, b>> \in R
  BY DEF OpToRel
<1>2. IsWellFoundedOn(R, Nat)
  BY NatLessThanWellFounded
<1> HIDE DEF R
<1>3. PICK n \in T : \A m \in T : <<m, n>> \notin R
  BY <1>2, WFMin
<1>4. \A m \in T : n <= m
  <2> TAKE m \in T
  <2>1. m \in Nat /\ n \in Nat OBVIOUS
  <2>2. ~(m < n) BY <1>1, <1>3, <2>1
  <2> QED BY <2>1, <2>2
<1> QED BY <1>4

(* What holds of 0 and passes from n to n + 1 holds of every number.        *)
LEMMA Induction ==
  ASSUME NEW S, 0 \in S, \A n \in Nat : n \in S => n + 1 \in S
  PROVE  Nat \subseteq S
<1> DEFINE T == Nat \ S
<1> SUFFICES ASSUME T # {} PROVE FALSE OBVIOUS
<1>1. T \subseteq Nat OBVIOUS
<1> HIDE DEF T
<1>2. PICK n \in T : \A m \in T : n <= m BY <1>1, Least
<1>3. n \in Nat /\ n # 0 /\ n - 1 \in Nat /\ n - 1 \in S BY <1>2 DEF T
<1> QED BY <1>3 DEF T

-----------------------------------------------------------------------------
(* The log after the first k revisions of a request, for each k.             *)
Growth(before, request) ==
  LET after[k \in 0..Len(request)] ==
        IF k = 0 THEN before
        ELSE IF \E i \in DOMAIN after[k - 1] : after[k - 1][i] = request[k] THEN after[k - 1]
        ELSE Append(after[k - 1], request[k])
  IN after

(* A revision that is in a log, and the sequence of logs as its steps give it. *)
Has(s, r) == \E i \in DOMAIN s : s[i] = r

Grows(before, request, e) ==
  /\ DOMAIN e = 0..Len(request) /\ e[0] = before
  /\ \A k \in 1..Len(request) :
       e[k] = IF Has(e[k - 1], request[k]) THEN e[k - 1] ELSE Append(e[k - 1], request[k])

(* What a request comes to is the last of these logs.                       *)
LEMMA ExtendedIsGrowth ==
  ASSUME NEW before, NEW request
  PROVE  Promise!Extended(before, request) = Growth(before, request)[Len(request)]
BY Zenon DEF Promise!Extended, Growth

(* The logs satisfy the equations that define them.                         *)
LEMMA GrowthUnfolds ==
  ASSUME NEW X, NEW n \in Nat, NEW request \in [1..n -> X], NEW before
  PROVE  Grows(before, request, Growth(before, request))
<1> DEFINE Body(r, i) == IF i = 0 THEN before
                         ELSE IF \E j \in DOMAIN r[i - 1] : r[i - 1][j] = request[i] THEN r[i - 1]
                         ELSE Append(r[i - 1], request[i])
           Solves(r, m) == r = [i \in 0..m |-> Body(r, i)]
           S == {m \in Nat : \E r : Solves(r, m)}
<1>1. 0 \in S
  <2> DEFINE r == [i \in 0..0 |-> before]
  <2>1. \A i \in 0..0 : Body(r, i) = before OBVIOUS
  <2>2. Solves(r, 0) BY <2>1
  <2> QED BY <2>2
<1>2. \A m \in Nat : m \in S => m + 1 \in S
  <2> SUFFICES ASSUME NEW m \in Nat, m \in S PROVE m + 1 \in S
    OBVIOUS
  <2>0. PICK r : Solves(r, m) OBVIOUS
  <2> DEFINE s == [i \in 0..(m + 1) |-> IF i = m + 1 THEN Body(r, i) ELSE r[i]]
  <2>1. \A i \in 0..m : s[i] = r[i] OBVIOUS
  <2>2. \A i \in 0..m : r[i] = Body(r, i)  BY <2>0
  <2>3. \A i \in 0..(m + 1) : s[i] = Body(s, i)
    <3> TAKE i \in 0..(m + 1)
    <3>0. s[i] = IF i = m + 1 THEN Body(r, i) ELSE r[i] OBVIOUS
    <3> HIDE DEF Solves, s
    <3>1. s[i] = Body(r, i)
      BY <3>0, <2>1, <2>2
    <3>2. i # 0 => i - 1 \in 0..m OBVIOUS
    <3>3. i # 0 => s[i - 1] = r[i - 1] BY <3>2, <2>1
    <3> QED BY <3>1, <3>3, Zenon
  <2>4. s = [i \in 0..(m + 1) |-> s[i]] OBVIOUS
  <2> HIDE DEF s, Body
  <2>5. Solves(s, m + 1) BY <2>3, <2>4
  <2> HIDE DEF Solves
  <2> QED BY <2>5
<1> HIDE DEF S
<1>3. Len(request) = n OBVIOUS
<1>4. \E r : Solves(r, n) BY <1>1, <1>2, Induction DEF S
<1> DEFINE F == CHOOSE r : Solves(r, Len(request))
<1>5. Growth(before, request) = F BY Zenon DEF Growth
<1>6. Solves(F, n) BY <1>3, <1>4, Zenon
<1> HIDE DEF F
<1>7. DOMAIN F = 0..n /\ \A i \in 0..n : F[i] = Body(F, i) BY <1>6
<1>8. F[0] = before BY <1>7
<1>9. ASSUME NEW i \in 1..n
      PROVE  F[i] = IF Has(F[i - 1], request[i]) THEN F[i - 1] ELSE Append(F[i - 1], request[i])
  <2>1. i \in 0..n /\ i # 0 OBVIOUS
  <2>2. F[i] = Body(F, i) BY <1>7, <2>1
  <2> QED BY <2>1, <2>2, Zenon DEF Has
<1>10. Grows(before, request, F) BY <1>3, <1>7, <1>8, <1>9, Zenon DEF Grows
<1> QED BY <1>5, <1>10

(* A log of revisions, each once of which an earlier log is the beginning.    *)
Begins(s, t) == Len(s) \in Nat /\ Len(t) \in Nat /\ Len(s) <= Len(t) /\ \A i \in 1..Len(s) : t[i] = s[i]

(* A beginning of a beginning is one.                                       *)
LEMMA BeginsTransitive ==
  ASSUME NEW s, NEW t, NEW u, Begins(s, t), Begins(t, u)
  PROVE  Begins(s, u)
BY DEF Begins

(* Each of these logs is a sequence of revisions.                           *)
LEMMA GrowthTyped ==
  ASSUME NEW X, NEW n \in Nat, NEW request \in [1..n -> X], NEW before \in Seq(X), NEW k \in 0..n
  PROVE  Growth(before, request)[k] \in Seq(X)
<1> DEFINE e == Growth(before, request)
           S == {m \in Nat : m <= n => e[m] \in Seq(X)}
<1>1. Grows(before, request, e) BY GrowthUnfolds
<1>2. Len(request) = n OBVIOUS
<1> HIDE DEF e
<1>3. 0 \in S BY <1>1 DEF Grows
<1>4. ASSUME NEW m \in Nat, m \in S PROVE m + 1 \in S
  <2> SUFFICES ASSUME m + 1 <= n PROVE e[m + 1] \in Seq(X) OBVIOUS
  <2>1. m + 1 \in 1..n /\ (m + 1) - 1 = m /\ e[m] \in Seq(X) BY <1>4
  <2>2. request[m + 1] \in X BY <2>1
  <2>3. e[m + 1] = IF Has(e[m], request[m + 1]) THEN e[m] ELSE Append(e[m], request[m + 1])
    BY <1>1, <1>2, <2>1 DEF Grows
  <2> QED BY <2>1, <2>2, <2>3
<1> HIDE DEF S
<1>5. k \in S BY <1>3, <1>4, Induction
<1> QED BY <1>5 DEF S, e

(* One step of the growth, and what it does to a log in order.              *)
Advances(X, request, e, k) ==
  /\ e[k - 1] \in Seq(X) /\ e[k] \in Seq(X)
  /\ e[k] = IF Has(e[k - 1], request[k]) THEN e[k - 1] ELSE Append(e[k - 1], request[k])

(* What one step does to a log of revisions in order.                       *)
LEMMA GrowthStep ==
  ASSUME NEW X, NEW n \in Nat, NEW request \in [1..n -> X], NEW before \in Seq(X), NEW k \in 1..n
  PROVE  Advances(X, request, Growth(before, request), k)
<1> DEFINE e == Growth(before, request)
<1>0. Len(request) = n OBVIOUS
<1>1. Grows(before, request, e) BY GrowthUnfolds
<1>2. k - 1 \in 0..n /\ k \in 0..n OBVIOUS
<1>3. e[k - 1] \in Seq(X) /\ e[k] \in Seq(X) BY <1>2, GrowthTyped
<1> HIDE DEF e
<1>4. e[k] = IF Has(e[k - 1], request[k]) THEN e[k - 1] ELSE Append(e[k - 1], request[k])
  BY <1>0, <1>1, Zenon DEF Grows
<1> QED BY <1>3, <1>4, Zenon DEF Advances, e

(* What a request comes to begins with what its first revisions come to.     *)
LEMMA GrowthBegins ==
  ASSUME NEW X, NEW n \in Nat, NEW request \in [1..n -> X], NEW before \in Seq(X), NEW k \in 0..n
  PROVE  Begins(Growth(before, request)[k], Growth(before, request)[n])
<1> DEFINE e == Growth(before, request)
           S == {m \in Nat : k <= m /\ m <= n => Begins(e[k], e[m])}
<1>1. \A m \in 0..n : e[m] \in Seq(X) BY GrowthTyped
<1>2. \A m \in 1..n : e[m] = IF Has(e[m - 1], request[m]) THEN e[m - 1] ELSE Append(e[m - 1], request[m])
  <2> TAKE m \in 1..n
  <2>1. Advances(X, request, e, m) BY GrowthStep
  <2> QED BY <2>1, Zenon DEF Advances
<1> HIDE DEF e
<1>3. \A m \in 0..n : Begins(e[m], e[m]) BY <1>1 DEF Begins
<1>4. 0 \in S BY <1>3
<1>5. ASSUME NEW m \in Nat, m \in S PROVE m + 1 \in S
  <2> SUFFICES ASSUME k <= m + 1, m + 1 <= n PROVE Begins(e[k], e[m + 1]) OBVIOUS
  <2>1. CASE k = m + 1 BY <1>3, <2>1
  <2>2. CASE k # m + 1
    <3>1. m \in 0..n /\ m + 1 \in 1..n /\ (m + 1) - 1 = m /\ k <= m BY <2>2
    <3>2. Begins(e[k], e[m]) BY <1>5, <3>1
    <3>3. e[m] \in Seq(X) /\ request[m + 1] \in X BY <1>1, <3>1
    <3>4. e[m + 1] = e[m] \/ e[m + 1] = Append(e[m], request[m + 1]) BY <1>2, <3>1
    <3>5. Begins(e[m], Append(e[m], request[m + 1]))
      <4> DEFINE s == e[m]  r == request[m + 1]
      <4>1. s \in Seq(X) /\ r \in X BY <3>3
      <4> HIDE DEF s, r
      <4>2. Begins(s, Append(s, r)) BY <4>1 DEF Begins
      <4> QED BY <4>2 DEF s, r
    <3>6. Begins(e[m], e[m + 1]) BY <1>3, <3>1, <3>4, <3>5
    <3> QED BY <3>2, <3>6, BeginsTransitive
  <2> QED BY <2>1, <2>2
<1> HIDE DEF S
<1>6. n \in S BY <1>4, <1>5, Induction
<1> QED BY <1>6 DEF S, e

(* A beginning of a log in order is in order.                               *)
LEMMA BeginningIncreases ==
  ASSUME NEW X, NEW s \in Seq(X), NEW t \in Seq(X), Begins(s, t), Promise!Increasing(t)
  PROVE  Promise!Increasing(s)
BY DEF Begins, Promise!Increasing

(* A revision keeps a log in order exactly when its ID is above all of it.  *)
Below(log, id) == \A i \in DOMAIN log : log[i].id < id

(* Appending such a revision keeps a log in order, another does not.        *)
LEMMA AppendIncreases ==
  ASSUME NEW s \in Seq(Revisions), NEW r \in Revisions, Promise!Increasing(s)
  PROVE  /\ Below(s, r.id) => Promise!Increasing(Append(s, r))
         /\ ~Below(s, r.id) => ~Promise!Increasing(Append(s, r))
<1> DEFINE t == Append(s, r)
<1>1. /\ Len(s) \in Nat /\ Len(t) = Len(s) + 1 /\ DOMAIN s = 1..Len(s) /\ DOMAIN t = 1..(Len(s) + 1)
      /\ \A i \in 1..Len(s) : t[i] = s[i]
      /\ t[Len(s) + 1] = r
  OBVIOUS
<1> HIDE DEF t
<1>2. ASSUME Below(s, r.id) PROVE Promise!Increasing(t)
  <2> SUFFICES ASSUME NEW i \in DOMAIN t, NEW j \in DOMAIN t, i < j PROVE t[i].id < t[j].id
    BY Zenon DEF Promise!Increasing
  <2>1. i \in DOMAIN s /\ t[i] = s[i] BY <1>1
  <2>2. CASE j \in DOMAIN s
    <3>1. t[j] = s[j] BY <1>1, <2>2
    <3> QED BY <2>1, <2>2, <3>1 DEF Promise!Increasing
  <2>3. CASE j \notin DOMAIN s
    <3>1. t[j] = r BY <1>1, <2>3
    <3> QED BY <1>2, <2>1, <3>1 DEF Below
  <2> QED BY <2>2, <2>3
<1>3. ASSUME ~Below(s, r.id) PROVE ~Promise!Increasing(t)
  <2>1. PICK i \in DOMAIN s : ~(s[i].id < r.id) BY <1>3 DEF Below
  <2>2. i \in DOMAIN t /\ Len(s) + 1 \in DOMAIN t /\ i < Len(s) + 1 /\ t[i] = s[i] BY <1>1
  <2> QED BY <1>1, <2>1, <2>2 DEF Promise!Increasing
<1> QED BY <1>2, <1>3 DEF t

(* The last ID is the greatest.                                             *)
LEMMA LatestIsGreatest ==
  ASSUME NEW s \in Seq(Revisions), Promise!Increasing(s), NEW r \in Revisions
  PROVE  Below(s, r.id) <=> r.id > Latest(s)
<1>1. \A i \in DOMAIN s : s[i] \in Revisions /\ s[i].id \in Nat BY MigrationsAssumption
<1>2. r.id \in Nat /\ r.id # 0 BY MigrationsAssumption
<1>3. CASE s = << >>
  <2>1. Latest(s) = 0 BY <1>3 DEF Latest
  <2>2. Below(s, r.id) BY <1>3 DEF Below
  <2> QED BY <1>2, <2>1, <2>2
<1>4. CASE s # << >>
  <2> DEFINE n == Len(s)
  <2>1. n \in Nat /\ n \in DOMAIN s /\ DOMAIN s = 1..n BY <1>4
  <2>2. Latest(s) = s[n].id BY <1>4 DEF Latest, Last
  <2> HIDE DEF n
  <2>3. ASSUME NEW i \in DOMAIN s PROVE s[i].id <= s[n].id
    <3>1. i = n \/ i < n BY <2>1
    <3>2. CASE i < n
      <4>1. s[i].id < s[n].id BY <2>1, <3>2, Zenon DEF Promise!Increasing
      <4> QED BY <1>1, <2>1, <4>1
    <3> QED BY <1>1, <2>1, <3>1, <3>2
  <2>4. ASSUME r.id > s[n].id PROVE Below(s, r.id)
    <3> SUFFICES ASSUME NEW i \in DOMAIN s PROVE s[i].id < r.id BY DEF Below
    <3>1. s[i].id \in Nat /\ s[n].id \in Nat /\ s[i].id <= s[n].id BY <1>1, <2>1, <2>3
    <3> QED BY <1>2, <2>4, <3>1
  <2>5. ASSUME Below(s, r.id) PROVE r.id > s[n].id
    <3>1. s[n].id < r.id BY <2>1, <2>5 DEF Below
    <3> QED BY <1>1, <1>2, <2>1, <3>1
  <2> QED BY <2>2, <2>4, <2>5
<1> QED BY <1>3, <1>4

-----------------------------------------------------------------------------
(* What a scope sees of the log is what the revisions behind it come to; on   *)
(* PostgreSQL the lock keeps it so, on SQLite the scope is alone.            *)
Logging == Working \cup {"revision", "commit"}

(* The revisions behind a client, and what its scope sees of them.          *)
Grew(c) ==
  /\ View(c).log = Growth(db.log, call[c])[revision[c] - 1]
  /\ Promise!Increasing(View(c).log)
  /\ backend = "pg" => c \in locker
  /\ pc[c] \in Working => Below(View(c).log, This(c).id)
  /\ pc[c] = "commit" => revision[c] = Len(call[c]) + 1

(* A call is told its outcome when it ends, and the part above while it runs. *)
Promised(c) ==
  /\ told[c] = "nothing" <=> pc[c] # "idle"
  /\ pc[c] \in {"idle", "ensure", "metadata", "lock"} \/ call[c] \notin Requests => mine[c].log = << >>
  /\ call[c] \in Requests /\ pc[c] \in Logging => Grew(c)

(* Of the clients on PostgreSQL at most one is past the lock.               *)
OneLocker == \A c, d \in locker : c = d

(* The invariant, and a step of RevisionLog.                                *)
LogInv == Promise!Increasing(db.log) /\ OneLocker /\ \A c \in Clients : Promised(c)

PStep == [Promise!Next]_(Promise!vars)

(* A request is a sequence of revisions, each with its operations.          *)
LEMMA RequestShape ==
  ASSUME NEW q \in Requests
  PROVE  /\ Len(q) \in Nat \ {0} /\ DOMAIN q = 1..Len(q) /\ q \in [1..Len(q) -> Revisions]
         /\ q \in Calls /\ \A i \in DOMAIN q : q[i].id # Unrecorded
<1>1. q \in Calls BY DEF Calls
<1>2. Len(q) \in Nat /\ DOMAIN q = 1..Len(q) /\ 1 \in DOMAIN q BY <1>1, CallShape
<1>3. q \in Seq(ToSet(q)) BY MigrationsAssumption
<1>4. ToSet(q) \subseteq Revisions BY DEF Revisions
<1>5. q \in [1..Len(q) -> ToSet(q)] BY <1>3
<1>6. \A i \in DOMAIN q : q[i] \in Revisions BY <1>2, <1>4, <1>5
<1>7. \A i \in DOMAIN q : q[i].id # Unrecorded BY <1>6, MigrationsAssumption
<1> QED BY <1>1, <1>2, <1>5, <1>6, <1>7

(* What the types say of the logs.                                          *)
LEMMA LogTypes ==
  ASSUME MInv, NEW c \in Clients
  PROVE  /\ db.log \in Seq(Revisions) /\ mine[c].log \in Seq(Revisions) /\ View(c).log \in Seq(Revisions)
         /\ View(c).log = db.log \o mine[c].log
<1>1. db.log \in Seq(Revisions) /\ mine[c].log \in Seq(Revisions) BY DEF MInv, TypeOK, Schema
<1>2. View(c).log = db.log \o mine[c].log BY ViewFields
<1> QED BY <1>1, <1>2

(* A client that does nothing while the log stays.                           *)
LEMMA PromisedFrame ==
  ASSUME NEW d \in Clients, Promised(d), Kept(d), told'[d] = told[d], backend' = backend,
         db'.log = db.log, d \in locker => d \in locker'
  PROVE  Promised(d)'
<1>1. This(d)' = This(d) BY DEF This, Kept
<1>2. View(d)'.log = View(d).log BY DEF View, Plus, Kept
<1>3. Grew(d) => Grew(d)' BY <1>1, <1>2 DEF Grew, Kept
<1> QED BY <1>3 DEF Promised, Kept

(* A step of one client keeps the invariant when it keeps its own part.     *)
LEMMA LogAssembled ==
  ASSUME LogInv, NEW c \in Clients, \A d \in Others(c) : Kept(d) /\ told'[d] = told[d] /\ (d \in locker => d \in locker'),
         backend' = backend, db'.log = db.log, Promised(c)', OneLocker'
  PROVE  LogInv'
<1>1. ASSUME NEW d \in Others(c) PROVE Promised(d)'
  BY <1>1, PromisedFrame DEF Others, LogInv
<1>2. \A d \in Clients : Promised(d)' BY <1>1 DEF Others
<1>3. Promise!Increasing(db.log)' BY DEF LogInv, Promise!Increasing
<1> QED BY <1>2, <1>3 DEF LogInv

(* What was asked depends on the calls alone.                               *)
LEMMA AskedSame ==
  ASSUME call' = call
  PROVE  [c \in Clients |-> Asked(c)]' = [c \in Clients |-> Asked(c)]
BY DEF Asked

(* A step that neither begins nor ends a call, nor commits.                 *)
Quiet(c) == UNCHANGED <<backend, db, call, told>> /\ \A d \in Others(c) : Kept(d)

(* Such a step is nothing to RevisionLog.                                   *)
LEMMA QuietStep ==
  ASSUME LogInv, NEW c \in Clients, Quiet(c), locker' = locker \/ (locker = {} /\ locker' = {c}), Promised(c)'
  PROVE  LogInv' /\ PStep
<1>1. OneLocker' BY DEF OneLocker, LogInv
<1>2. LogInv' BY <1>1, LogAssembled DEF Quiet, Others
<1>3. UNCHANGED Promise!vars BY AskedSame DEF Quiet, Promise!vars
<1> QED BY <1>2, <1>3 DEF PStep

(* A call that fails, or whose commit does not land.                         *)
LEMMA RefusedStep ==
  ASSUME MInv, LogInv, NEW c \in Clients, pc[c] # "idle",
         NEW report \in {"drift", "order", "failed", "unknown"}, End(c, report), UNCHANGED db,
         report \in {"drift", "order"} => ~Promise!Acceptable(Asked(c))
  PROVE  LogInv' /\ PStep
<1>1. /\ pc' = [pc EXCEPT ![c] = "idle"] /\ mine' = [mine EXCEPT ![c] = Empty]
      /\ told' = [told EXCEPT ![c] = report] /\ locker' = locker \ {c}
      /\ UNCHANGED <<backend, db, rows, call, revision, operation>>
  BY DEF End, Goto, position
<1>2. pc'[c] = "idle" /\ mine'[c] = Empty /\ told'[c] = report BY <1>1 DEF MInv, TypeOK
<1>3. \A d \in Others(c) : Kept(d) /\ told'[d] = told[d] /\ (d \in locker => d \in locker')
  BY <1>1 DEF Others, Kept, MInv, TypeOK
<1>4. Promised(c)' BY <1>2, EmptyFields DEF Promised, Logging, Working
<1>5. OneLocker' BY <1>1 DEF OneLocker, LogInv
<1>6. LogInv' BY <1>1, <1>3, <1>4, <1>5, LogAssembled
<1>7. told[c] = "nothing" BY DEF LogInv, Promised
<1>8. Promise!Refuse(c, report) BY <1>1, <1>7, AskedSame DEF Promise!Refuse
<1>9. Promise!Next BY <1>8 DEF Promise!Next
<1> QED BY <1>6, <1>9 DEF PStep

(* A call begins: RevisionLog hears its request.                            *)
LEMMA BeginLog ==
  ASSUME MInv, LogInv, NEW c \in Clients, NEW request \in Calls, Begin(c, request)
  PROVE  LogInv' /\ PStep
<1>1. /\ pc[c] = "idle" /\ pc' = [pc EXCEPT ![c] = "ensure"] /\ call' = [call EXCEPT ![c] = request]
      /\ revision' = [revision EXCEPT ![c] = 1] /\ operation' = [operation EXCEPT ![c] = 1]
      /\ told' = [told EXCEPT ![c] = "nothing"] /\ UNCHANGED <<backend, db, rows, mine, locker>>
  BY DEF Begin, Goto
<1>2. pc'[c] = "ensure" /\ told'[c] = "nothing" /\ call'[c] = request BY <1>1 DEF MInv, TypeOK
<1>3. \A d \in Others(c) : Kept(d) /\ told'[d] = told[d] BY <1>1 DEF Others, Kept, MInv, TypeOK
<1>4. mine[c].log = << >> BY <1>1 DEF LogInv, Promised
<1>5. Promised(c)' BY <1>1, <1>2, <1>4 DEF Promised, Logging, Working
<1>6. OneLocker' BY <1>1 DEF OneLocker, LogInv
<1>7. LogInv' BY <1>1, <1>3, <1>5, <1>6, LogAssembled
<1> DEFINE asked == IF request \in Requests THEN request ELSE << >>
<1>8. told[c] # "nothing" BY <1>1 DEF LogInv, Promised
<1>9. [d \in Clients |-> Asked(d)]' = [[d \in Clients |-> Asked(d)] EXCEPT ![c] = asked]
  BY <1>1 DEF Asked, MInv, TypeOK
<1>10. Promise!Ask(c, asked) BY <1>1, <1>8, <1>9 DEF Promise!Ask
<1>11. asked \in Requests \cup {<< >>} OBVIOUS
<1>12. Promise!Next BY <1>10, <1>11 DEF Promise!Next
<1> QED BY <1>7, <1>12 DEF PStep

(* A statement that comes before the revisions, or belongs to no request.    *)
LEMMA Unlogged ==
  ASSUME MInv, LogInv, NEW c \in Clients, Quiet(c), locker' = locker, mine[c].log = << >>, mine'[c].log = << >>,
         pc[c] # "idle", pc'[c] # "idle",
         call[c] \in Requests => pc'[c] \notin Logging
  PROVE  LogInv' /\ PStep
<1>1. Promised(c)' BY DEF Promised, Quiet, LogInv
<1> QED BY <1>1, QuietStep

(* The statements before the first revision, one by one.                    *)
LEMMA EnsureLog ==
  ASSUME MInv, LogInv, NEW c \in Clients, EnsureMetadata(c)
  PROVE  LogInv' /\ PStep
<1>1. pc[c] = "ensure" BY DEF EnsureMetadata
<1>2. CASE Fail(c, "failed") BY <1>1, <1>2, RefusedStep DEF Fail
<1>3. CASE \E next \in {"lock", "metadata"} : Read(c, next)
  <2>1. PICK next \in {"lock", "metadata"} : Read(c, next) BY <1>3
  <2>2. /\ pc' = [pc EXCEPT ![c] = next] /\ UNCHANGED <<backend, db, rows, call, revision, operation, mine, locker, told>>
    BY <2>1 DEF Read, Goto, position
  <2>3. pc'[c] = next /\ Quiet(c) BY <2>2 DEF Quiet, Kept, Others, MInv, TypeOK
  <2>4. mine[c].log = << >> BY <1>1 DEF LogInv, Promised
  <2> QED BY <1>1, <2>2, <2>3, <2>4, Unlogged DEF Logging, Working
<1> QED BY <1>2, <1>3 DEF EnsureMetadata

(* Making the metadata tables.                                              *)
LEMMA MetadataLog ==
  ASSUME MInv, LogInv, NEW c \in Clients, CreateMetadata(c)
  PROVE  LogInv' /\ PStep
<1>1. pc[c] = "metadata" BY DEF CreateMetadata
<1>2. CASE Fail(c, "failed") BY <1>1, <1>2, RefusedStep DEF Fail
<1>3. CASE Wrote(c, [mine[c] EXCEPT !.meta = TRUE], "lock")
  <2>1. /\ pc' = [pc EXCEPT ![c] = "lock"] /\ mine' = [mine EXCEPT ![c] = [mine[c] EXCEPT !.meta = TRUE]]
        /\ UNCHANGED <<backend, db, rows, call, revision, operation, locker, told>>
    BY <1>3 DEF Wrote, Goto, position
  <2>2. pc'[c] = "lock" /\ mine'[c] = [mine[c] EXCEPT !.meta = TRUE] /\ Quiet(c)
    BY <2>1 DEF Quiet, Kept, Others, MInv, TypeOK
  <2>3. mine[c].log = << >> /\ mine[c] \in Schema BY <1>1 DEF LogInv, Promised, MInv, TypeOK
  <2>4. mine'[c].log = << >> BY <2>2, <2>3, WithMeta
  <2> QED BY <1>1, <2>1, <2>2, <2>3, <2>4, Unlogged DEF Logging, Working
<1> QED BY <1>2, <1>3 DEF CreateMetadata

(* Taking the lock: what the scope sees from here on is the committed log.  *)
LEMMA LockLog ==
  ASSUME MInv, LogInv, NEW c \in Clients, LockRevisions(c)
  PROVE  LogInv' /\ PStep
<1> DEFINE next == IF Recorded(c) THEN "revision" ELSE "look"
<1>1. /\ pc[c] = "lock" /\ pc' = [pc EXCEPT ![c] = next] /\ (Recorded(c) => MayLock(c))
      /\ locker' = IF Recorded(c) /\ backend = "pg" THEN locker \cup {c} ELSE locker
      /\ UNCHANGED <<backend, db, rows, call, revision, operation, mine, told>>
  BY DEF LockRevisions, Goto, position
<1>2. pc'[c] = next /\ Quiet(c) BY <1>1 DEF Quiet, Kept, Others, MInv, TypeOK
<1>3. mine[c].log = << >> /\ revision[c] = 1 /\ call[c] \in Calls
  BY <1>1 DEF LogInv, Promised, MInv, Local, Place
<1>4. 1 \in DOMAIN call[c] BY <1>3, CallShape
<1>5. CASE ~Recorded(c)
  <2>1. call[c] \notin Requests BY <1>3, <1>4, <1>5, CallShape, RequestShape DEF Recorded, This
  <2> QED BY <1>1, <1>2, <1>3, <1>5, <2>1, Unlogged
<1>6. CASE Recorded(c)
  <2>1. call[c] \in Requests BY <1>3, <1>4, <1>6, CallShape DEF Recorded, This
  <2>2. db.log \in Seq(Revisions) /\ View(c).log = db.log \o mine[c].log BY LogTypes
  <2>3. View(c).log = db.log BY <1>3, <2>2
  <2>4. View(c)'.log = View(c).log BY <1>1 DEF View, Plus
  <2>5. call[c] \in [1..Len(call[c]) -> Revisions] /\ Len(call[c]) \in Nat BY <2>1, RequestShape
  <2>6. Grows(db.log, call[c], Growth(db.log, call[c])) BY <2>5, GrowthUnfolds
  <2>7. View(c).log = Growth(db.log, call[c])[revision[c] - 1] BY <1>3, <2>3, <2>6 DEF Grows
  <2>8. Promise!Increasing(View(c).log)' BY <2>3, <2>4 DEF LogInv, Promise!Increasing
  <2>9. backend = "pg" => locker = {} /\ locker' = {c} BY <1>1, <1>6 DEF MayLock
  <2>10. Grew(c)' BY <1>1, <1>2, <1>6, <2>4, <2>7, <2>8, <2>9 DEF Grew, Working
  <2>11. Promised(c)' BY <1>1, <1>2, <1>3, <2>1, <2>10 DEF Promised, LogInv
  <2>12. locker' = locker \/ (locker = {} /\ locker' = {c}) BY <1>1, <2>9
  <2> QED BY <1>2, <2>11, <2>12, QuietStep
<1> QED BY <1>5, <1>6

(* A statement of an operation.                                             *)
LEMMA WorkLog ==
  ASSUME MInv, LogInv, NEW c \in Clients, Quiet(c), locker' = locker, mine'[c].log = mine[c].log,
         revision'[c] = revision[c], pc[c] \in Working, pc'[c] \in Working
  PROVE  LogInv' /\ PStep
<1>1. View(c)'.log = View(c).log BY DEF View, Plus, Quiet
<1>2. This(c)' = This(c) BY DEF This, Quiet
<1>3. Promise!Increasing(View(c).log) => Promise!Increasing(View(c).log)' BY <1>1 DEF Promise!Increasing
<1>4. Below(View(c).log, This(c).id) => Below(View(c).log, This(c).id)' BY <1>1, <1>2 DEF Below
<1>5. Grew(c) => Grew(c)' BY <1>1, <1>2, <1>3, <1>4 DEF Grew, Quiet, Working
<1>6. Promised(c)' BY <1>5 DEF Promised, LogInv, Quiet, Working, Logging
<1> QED BY <1>6, QuietStep

(* When the operations of a revision are done it is recorded.               *)
LEMMA DoneFrame ==
  ASSUME MInv, NEW c \in Clients, OperationDone(c), \A d \in Others(c) : mine'[d] = mine[d]
  PROVE  /\ Quiet(c) /\ locker' = locker /\ revision'[c] = revision[c] /\ pc'[c] \in Working
<1> DEFINE next == IF operation[c] < Len(This(c).operations) THEN "look" ELSE "record"
<1>1. /\ pc' = [pc EXCEPT ![c] = next] /\ operation' = [operation EXCEPT ![c] = @ + 1]
      /\ UNCHANGED <<backend, db, rows, call, revision, locker, told>>
  BY DEF OperationDone, Goto
<1>2. next \in Working BY DEF Working
<1> HIDE DEF next
<1>3. pc'[c] = next BY <1>1 DEF MInv, TypeOK
<1>4. Quiet(c) BY <1>1 DEF Quiet, Kept, Others, MInv, TypeOK
<1> QED BY <1>1, <1>2, <1>3, <1>4

(* The statements of an operation, one by one.                              *)
LEMMA LookLog ==
  ASSUME MInv, LogInv, NEW c \in Clients, LookForObject(c)
  PROVE  LogInv' /\ PStep
<1>1. pc[c] = "look" BY DEF LookForObject
<1>2. CASE Fail(c, "failed") BY <1>1, <1>2, RefusedStep DEF Fail
<1>3. CASE OperationDone(c) /\ UNCHANGED mine
  <2>1. Quiet(c) /\ locker' = locker /\ revision'[c] = revision[c] /\ pc'[c] \in Working BY <1>3, DoneFrame
  <2> QED BY <1>1, <1>3, <2>1, WorkLog DEF Working
<1>4. CASE Read(c, "make")
  <2>1. /\ pc' = [pc EXCEPT ![c] = "make"] /\ UNCHANGED <<backend, db, rows, call, revision, operation, mine, locker, told>>
    BY <1>4 DEF Read, Goto, position
  <2>2. pc'[c] = "make" /\ Quiet(c) BY <2>1 DEF Quiet, Kept, Others, MInv, TypeOK
  <2> QED BY <1>1, <2>1, <2>2, WorkLog DEF Working
<1> QED BY <1>2, <1>3, <1>4 DEF LookForObject

(* Making its object.                                                       *)
LEMMA MakeLog ==
  ASSUME MInv, LogInv, NEW c \in Clients, MakeObject(c)
  PROVE  LogInv' /\ PStep
<1>1. pc[c] = "make" /\ mine[c] \in Schema BY DEF MakeObject, MInv, TypeOK
<1>2. CASE Fail(c, "failed") BY <1>1, <1>2, RefusedStep DEF Fail
<1>3. ASSUME NEW changes, changes.log = mine[c].log, Wrote(c, changes, "note") PROVE LogInv' /\ PStep
  <2>1. /\ pc' = [pc EXCEPT ![c] = "note"] /\ mine' = [mine EXCEPT ![c] = changes]
        /\ UNCHANGED <<backend, db, rows, call, revision, operation, locker, told>>
    BY <1>3 DEF Wrote, Goto, position
  <2>2. pc'[c] = "note" /\ mine'[c] = changes /\ Quiet(c) BY <2>1 DEF Quiet, Kept, Others, MInv, TypeOK
  <2> QED BY <1>1, <1>3, <2>1, <2>2, WorkLog DEF Working
<1>4. [mine[c] EXCEPT !.tables = @ \cup {Op(c).name}].log = mine[c].log BY <1>1 DEF Schema
<1>5. [mine[c] EXCEPT !.guards = @ \cup {Op(c)}].log = mine[c].log BY <1>1 DEF Schema
<1> QED BY <1>2, <1>3, <1>4, <1>5 DEF MakeObject

(* Noting it.                                                               *)
LEMMA NoteLog ==
  ASSUME MInv, LogInv, NEW c \in Clients, NoteObject(c)
  PROVE  LogInv' /\ PStep
<1>1. /\ pc[c] = "note" /\ OperationDone(c) /\ mine' = [mine EXCEPT ![c] = Noted(c, Op(c))] /\ mine[c] \in Schema
  BY DEF NoteObject, MInv, TypeOK
<1>2. Noted(c, Op(c)).log = mine[c].log BY <1>1 DEF Noted, Schema
<1>3. mine'[c].log = mine[c].log BY <1>1, <1>2 DEF MInv, TypeOK
<1>4. Quiet(c) /\ locker' = locker /\ revision'[c] = revision[c] /\ pc'[c] \in Working
  BY <1>1, DoneFrame DEF Others, MInv, TypeOK
<1> QED BY <1>1, <1>3, <1>4, WorkLog DEF Working

-----------------------------------------------------------------------------
(* The next revision of a scope, over the log it sees.                       *)
AtRevision(c) ==
  /\ c \in Clients /\ call[c] \in Requests /\ revision[c] \in 1..Len(call[c]) /\ Grew(c)

(* What is seen after the next revision.                                    *)
LEMMA Advance ==
  ASSUME MInv, NEW c \in Clients, AtRevision(c)
  PROVE  LET e == Growth(db.log, call[c])
         IN /\ This(c) \in Revisions
            /\ e[revision[c]] = IF Has(View(c).log, This(c)) THEN View(c).log ELSE Append(View(c).log, This(c))
            /\ e[revision[c]] \in Seq(Revisions)
            /\ Begins(e[revision[c]], e[Len(call[c])]) /\ e[Len(call[c])] \in Seq(Revisions)
<1> DEFINE q == call[c]  n == Len(q)  k == revision[c]  before == db.log  log == View(c).log
           e == Growth(before, q)
<1>1. n \in Nat /\ q \in [1..n -> Revisions] /\ k \in 1..n /\ before \in Seq(Revisions)
  BY RequestShape, LogTypes DEF AtRevision
<1>2. log = e[k - 1] BY DEF AtRevision, Grew
<1>3. This(c) = q[k] BY DEF This
<1> HIDE DEF q, n, k, before, log
<1>4. Advances(Revisions, q, e, k) BY <1>1, GrowthStep
<1>5. k \in 0..n /\ n \in 0..n BY <1>1
<1>6. Begins(e[k], e[n]) BY <1>1, <1>5, GrowthBegins
<1>7. e[n] \in Seq(Revisions) BY <1>1, <1>5, GrowthTyped
<1>8. q[k] \in Revisions BY <1>1
<1> HIDE DEF e
<1>9. e[k] = IF Has(log, q[k]) THEN log ELSE Append(log, q[k]) BY <1>2, <1>4, Zenon DEF Advances
<1>10. e[k] \in Seq(Revisions) BY <1>4, Zenon DEF Advances
<1> QED BY <1>3, <1>6, <1>7, <1>8, <1>9, <1>10, Zenon DEF q, n, k, before, log, e

(* A revision whose ID is recorded with another content, or comes too late,   *)
(* can be in no extension of the log.                                       *)
LEMMA Unacceptable ==
  ASSUME MInv, NEW c \in Clients, AtRevision(c), ~Below(View(c).log, This(c).id),
         \A i \in DOMAIN View(c).log : View(c).log[i] # This(c)
  PROVE  ~Promise!Acceptable(Asked(c))
<1> DEFINE e == Growth(db.log, call[c])  k == revision[c]  n == Len(call[c])  log == View(c).log
<1>1. This(c) \in Revisions /\ log \in Seq(Revisions) BY Advance, LogTypes
<1>2. Promise!Increasing(log) BY DEF AtRevision, Grew
<1>3. ~Has(log, This(c)) BY DEF Has
<1>4. e[k] = Append(log, This(c)) BY <1>3, Advance
<1>5. ~Promise!Increasing(e[k]) BY <1>1, <1>2, <1>4, AppendIncreases
<1>6. e[k] \in Seq(Revisions) /\ e[n] \in Seq(Revisions) /\ Begins(e[k], e[n]) BY Advance
<1> HIDE DEF e
<1>7. ~Promise!Increasing(e[n]) BY <1>5, <1>6, BeginningIncreases
<1>8. Asked(c) = call[c] BY DEF Asked, AtRevision
<1>9. Promise!Extended(db.log, Asked(c)) = e[n] BY <1>8, ExtendedIsGrowth DEF e
<1> QED BY <1>7, <1>9, Zenon DEF Promise!Acceptable

(* Looking up a revision: passed over, refused or carried out.              *)
LEMMA LookedUpLog ==
  ASSUME MInv, LogInv, NEW c \in Clients, LookForRevision(c)
  PROVE  LogInv' /\ PStep
<1> DEFINE log == View(c).log
           old == {r \in ToSet(log) : r.id = This(c).id}
<1>1. /\ pc[c] = "revision" /\ call[c] \in Requests /\ revision[c] \in 1..(Len(call[c]) + 1)
      /\ Len(call[c]) \in Nat /\ Grew(c)
  BY RequestShape DEF LookForRevision, MInv, Local, Place, LogInv, Promised, Logging
<1>2. CASE revision[c] > Len(call[c])
  <2>1. /\ pc' = [pc EXCEPT ![c] = "commit"]
        /\ UNCHANGED <<backend, db, rows, call, revision, operation, mine, locker, told>>
    BY <1>2 DEF LookForRevision, Read, Goto, position
  <2>2. pc'[c] = "commit" /\ Quiet(c) BY <2>1 DEF Quiet, Kept, Others, MInv, TypeOK
  <2>3. View(c)'.log = View(c).log BY <2>1 DEF View, Plus
  <2>4. revision[c] = Len(call[c]) + 1 BY <1>1, <1>2
  <2>5. Promise!Increasing(View(c).log)' BY <1>1, <2>3 DEF Grew, Promise!Increasing
  <2>6. Grew(c)' BY <1>1, <2>1, <2>2, <2>3, <2>4, <2>5 DEF Grew, Working
  <2>7. Promised(c)' BY <1>1, <2>1, <2>2, <2>6 DEF Promised, LogInv
  <2> QED BY <2>1, <2>2, <2>7, QuietStep
<1>3. CASE ~(revision[c] > Len(call[c]))
  <2>1. AtRevision(c) BY <1>1, <1>3 DEF AtRevision
  <2>2. This(c) \in Revisions /\ log \in Seq(Revisions) /\ Promise!Increasing(log)
    BY <2>1, Advance, LogTypes DEF AtRevision, Grew
  <2>3. ToSet(log) = {log[i] : i \in DOMAIN log} BY DEF ToSet
  <2>4. Below(log, This(c).id) <=> This(c).id > Latest(log) BY <2>2, LatestIsGreatest
  <2> HIDE DEF log
  <2>5. CASE old # {} /\ \E r \in old : Drifts(r, This(c))
    <3>1. Fail(c, "drift") BY <1>3, <2>5 DEF LookForRevision, log
    <3>2. PICK i \in DOMAIN log : log[i].id = This(c).id /\ log[i] # This(c) BY <2>3, <2>5 DEF Drifts
    <3>3. \A j \in DOMAIN log : log[j].id \in Nat BY <2>2, MigrationsAssumption
    <3>4. ~Below(log, This(c).id) BY <3>2, <3>3 DEF Below
    <3>5. ASSUME NEW j \in DOMAIN log, log[j] = This(c) PROVE FALSE
      <4>1. i # j /\ log[i].id = log[j].id BY <3>2, <3>5
      <4>2. i < j \/ j < i BY <2>2, <4>1
      <4>3. ~(log[i].id < log[j].id) /\ ~(log[j].id < log[i].id) BY <3>3, <4>1
      <4> QED BY <2>2, <4>2, <4>3, Zenon DEF Promise!Increasing
    <3>6. ~Promise!Acceptable(Asked(c)) BY <2>1, <3>4, <3>5, Unacceptable DEF log
    <3> QED BY <1>1, <3>1, <3>6, RefusedStep DEF Fail
  <2>6. CASE old # {} /\ ~\E r \in old : Drifts(r, This(c))
    <3>1. RevisionDone(c) /\ UNCHANGED mine BY <1>3, <2>6 DEF LookForRevision, log
    <3>2. /\ pc' = [pc EXCEPT ![c] = "revision"] /\ revision' = [revision EXCEPT ![c] = @ + 1]
          /\ operation' = [operation EXCEPT ![c] = 1] /\ UNCHANGED <<backend, db, rows, call, locker, told, mine>>
      BY <3>1 DEF RevisionDone, Goto
    <3>3. pc'[c] = "revision" /\ revision'[c] = revision[c] + 1 /\ Quiet(c)
      BY <3>2 DEF Quiet, Kept, Others, MInv, TypeOK
    <3>4. Has(log, This(c)) BY <2>3, <2>6 DEF Has, Drifts
    <3>5. Growth(db.log, call[c])[revision[c]] = log BY <2>1, <3>4, Advance DEF log
    <3>6. View(c)'.log = log BY <3>2 DEF View, Plus, log
    <3>7. Promise!Increasing(View(c).log)' BY <2>2, <3>6 DEF Promise!Increasing
    <3>8. revision'[c] - 1 = revision[c] BY <1>1, <3>3
    <3>9. Grew(c)' BY <1>1, <3>2, <3>3, <3>5, <3>6, <3>7, <3>8 DEF Grew, Working
    <3>10. Promised(c)' BY <1>1, <3>2, <3>3, <3>9 DEF Promised, LogInv
    <3> QED BY <3>2, <3>3, <3>10, QuietStep
  <2>7. CASE old = {} /\ This(c).id <= Latest(log)
    <3>1. Fail(c, "order") BY <1>3, <2>7 DEF LookForRevision, log
    <3>2. \A j \in DOMAIN log : log[j] # This(c) BY <2>3, <2>7
    <3>3. This(c).id \in Nat BY <2>2, MigrationsAssumption
    <3>4. Latest(log) \in Nat
      <4>1. log # << >> => Last(log) \in Revisions BY <2>2 DEF Last
      <4> QED BY <4>1, MigrationsAssumption DEF Latest
    <3>5. ~Below(log, This(c).id) BY <2>4, <2>7, <3>3, <3>4
    <3>6. ~Promise!Acceptable(Asked(c)) BY <2>1, <3>2, <3>5, Unacceptable DEF log
    <3> QED BY <1>1, <3>1, <3>6, RefusedStep DEF Fail
  <2>8. CASE old = {} /\ ~(This(c).id <= Latest(log))
    <3> DEFINE next == IF This(c).operations = << >> THEN "record" ELSE "look"
    <3>1. Read(c, next) BY <1>3, <2>8 DEF LookForRevision, log
    <3>2. next \in Working BY DEF Working
    <3> HIDE DEF next
    <3>3. /\ pc' = [pc EXCEPT ![c] = next]
          /\ UNCHANGED <<backend, db, rows, call, revision, operation, mine, locker, told>>
      BY <3>1 DEF Read, Goto, position
    <3>4. pc'[c] = next /\ Quiet(c) BY <3>3 DEF Quiet, Kept, Others, MInv, TypeOK
    <3>5. View(c)'.log = log /\ This(c)' = This(c) BY <3>3 DEF View, Plus, This, log
    <3>6. This(c).id \in Nat /\ Latest(log) \in Nat
      <4>1. log # << >> => Last(log) \in Revisions BY <2>2 DEF Last
      <4> QED BY <2>2, <4>1, MigrationsAssumption DEF Latest
    <3>7. Below(log, This(c).id) BY <2>4, <2>8, <3>6
    <3>8. Promise!Increasing(View(c).log)' BY <2>2, <3>5 DEF Promise!Increasing
    <3>9. Below(View(c).log, This(c).id)' BY <3>5, <3>7 DEF Below
    <3>10. Grew(c)' BY <1>1, <3>2, <3>3, <3>4, <3>5, <3>8, <3>9 DEF Grew, Working, log
    <3>11. Promised(c)' BY <1>1, <3>2, <3>3, <3>4, <3>10 DEF Promised, LogInv, Working
    <3> QED BY <3>3, <3>4, <3>11, QuietStep
  <2> QED BY <2>5, <2>6, <2>7, <2>8
<1> QED BY <1>2, <1>3

(* The fields of what a scope sees.                                         *)
LEMMA JoinedParts ==
  ASSUME NEW s \in Seq(Revisions), NEW t \in Seq(Revisions), NEW r \in Revisions
  PROVE  /\ \A i \in DOMAIN s : i \in DOMAIN (s \o t) /\ (s \o t)[i] = s[i]
         /\ s \o Append(t, r) = Append(s \o t, r)
OBVIOUS

(* Recording a revision.                                                    *)
LEMMA RecordLog ==
  ASSUME MInv, LogInv, NEW c \in Clients, RecordRevision(c)
  PROVE  LogInv' /\ PStep
<1>1. pc[c] = "record" /\ call[c] \in Calls /\ revision[c] \in DOMAIN call[c] /\ mine[c] \in Schema
  BY DEF RecordRevision, MInv, Local, Place, Working, TypeOK
<1>2. CASE ~Recorded(c)
  <2>1. call[c] \notin Requests BY <1>1, <1>2, RequestShape DEF Recorded, This
  <2>2. /\ pc' = [pc EXCEPT ![c] = "commit"]
        /\ UNCHANGED <<backend, db, rows, call, revision, operation, mine, locker, told>>
    BY <1>2 DEF RecordRevision, Read, Goto, position
  <2>3. pc'[c] = "commit" /\ Quiet(c) BY <2>2 DEF Quiet, Kept, Others, MInv, TypeOK
  <2>4. mine[c].log = << >> BY <2>1 DEF LogInv, Promised
  <2> QED BY <1>1, <2>1, <2>2, <2>3, <2>4, Unlogged
<1>3. CASE Recorded(c)
  <2> DEFINE log == View(c).log  r == This(c)
  <2>1. call[c] \in Requests BY <1>1, <1>3, CallShape DEF Recorded, This
  <2>2. revision[c] \in 1..Len(call[c]) /\ Len(call[c]) \in Nat BY <1>1, <2>1, RequestShape
  <2>3. Grew(c) /\ AtRevision(c) BY <1>1, <2>1, <2>2 DEF LogInv, Promised, AtRevision, Logging, Working
  <2>4. r \in Revisions /\ Promise!Increasing(log) /\ Below(log, r.id)
    BY <1>1, <2>3, Advance DEF Grew, Working
  <2>5. /\ log \in Seq(Revisions) /\ db.log \in Seq(Revisions) /\ mine[c].log \in Seq(Revisions)
        /\ log = db.log \o mine[c].log
    BY LogTypes
  <2>6. r.id \in Nat BY <2>4, MigrationsAssumption
  <2>7. ~Has(log, r) BY <2>4, <2>6 DEF Has, Below
  <2>8. Growth(db.log, call[c])[revision[c]] = Append(log, r) BY <2>3, <2>7, Advance
  <2> HIDE DEF log, r
  <2>9. ASSUME NEW s \in ToSet(db.log), s.id = r.id PROVE FALSE
    <3>1. PICK i \in DOMAIN db.log : db.log[i] = s BY DEF ToSet
    <3>2. i \in DOMAIN log /\ log[i] = db.log[i] BY <2>4, <2>5, <3>1, JoinedParts
    <3> QED BY <2>4, <2>6, <2>9, <3>1, <3>2 DEF Below
  <2>10. /\ mine' = [mine EXCEPT ![c].log = Append(@, r)] /\ RevisionDone(c)
    BY <1>3, <2>9, Zenon DEF RecordRevision, r
  <2>11. /\ pc' = [pc EXCEPT ![c] = "revision"] /\ revision' = [revision EXCEPT ![c] = @ + 1]
         /\ operation' = [operation EXCEPT ![c] = 1] /\ UNCHANGED <<backend, db, rows, call, locker, told>>
    BY <2>10 DEF RevisionDone, Goto
  <2>12. pc'[c] = "revision" /\ revision'[c] = revision[c] + 1 /\ Quiet(c)
    BY <2>10, <2>11 DEF Quiet, Kept, Others, MInv, TypeOK
  <2>13. mine'[c].log = Append(mine[c].log, r)
    <3>1. mine'[c] = [mine[c] EXCEPT !.log = Append(@, r)] BY <2>10 DEF MInv, TypeOK
    <3> QED BY <1>1, <2>4, <3>1, WithRevision
  <2>14. View(c)'.log = Append(log, r)
    <3>1. View(c)'.log = db.log \o mine'[c].log BY <2>11 DEF View, Plus
    <3>2. db.log \o Append(mine[c].log, r) = Append(db.log \o mine[c].log, r) BY <2>4, <2>5, JoinedParts
    <3> QED BY <2>5, <2>13, <3>1, <3>2
  <2>15. Promise!Increasing(Append(log, r)) BY <2>4, <2>5, AppendIncreases
  <2>16. Promise!Increasing(View(c).log)' BY <2>14, <2>15 DEF Promise!Increasing
  <2>17. revision'[c] - 1 = revision[c] BY <2>2, <2>12
  <2>18. Grew(c)' BY <2>3, <2>8, <2>11, <2>12, <2>14, <2>16, <2>17 DEF Grew, Working
  <2>19. Promised(c)' BY <1>1, <2>1, <2>11, <2>12, <2>18 DEF Promised, LogInv
  <2> QED BY <2>11, <2>12, <2>19, QuietStep
<1> QED BY <1>2, <1>3

(* What a scope commits is what its request makes of the log.                *)
LEMMA CommitGrows ==
  ASSUME MInv, LogInv, NEW c \in Clients, pc[c] = "commit"
  PROVE  /\ Promise!Increasing(View(c).log) /\ Promise!Acceptable(Asked(c))
         /\ View(c).log = Promise!Extended(db.log, Asked(c))
         /\ call[c] \notin Requests => View(c).log = db.log
<1> DEFINE log == View(c).log
<1>1. CASE call[c] \in Requests
  <2>1. Grew(c) BY <1>1 DEF LogInv, Promised, Logging
  <2>2. Len(call[c]) \in Nat /\ (Len(call[c]) + 1) - 1 = Len(call[c]) BY <1>1, RequestShape
  <2>3. Promise!Increasing(log) /\ log = Growth(db.log, call[c])[Len(call[c])] BY <2>1, <2>2 DEF Grew
  <2>4. Asked(c) = call[c] BY <1>1 DEF Asked
  <2>5. log = Promise!Extended(db.log, Asked(c)) BY <2>3, <2>4, ExtendedIsGrowth
  <2> HIDE DEF log
  <2>6. Promise!Acceptable(Asked(c)) BY <2>3, <2>5, Zenon DEF Promise!Acceptable
  <2> QED BY <1>1, <2>3, <2>5, <2>6 DEF log
<1>2. CASE call[c] \notin Requests
  <2>1. mine[c].log = << >> BY <1>2 DEF LogInv, Promised
  <2>2. db.log \in Seq(Revisions) /\ log = db.log \o mine[c].log BY LogTypes
  <2>3. log = db.log BY <2>1, <2>2
  <2>4. << >> \in [1..0 -> Revisions] /\ Len(<< >>) = 0 OBVIOUS
  <2>5. Grows(db.log, << >>, Growth(db.log, << >>))
    <3>1. 0 \in Nat OBVIOUS
    <3> QED BY <2>4, <3>1, GrowthUnfolds
  <2>6. Growth(db.log, << >>)[0] = db.log BY <2>5 DEF Grows
  <2>7. Promise!Extended(db.log, << >>) = db.log BY <2>4, <2>6, ExtendedIsGrowth
  <2>8. Asked(c) = << >> BY <1>2 DEF Asked
  <2>9. Promise!Increasing(db.log) BY DEF LogInv
  <2> HIDE DEF log
  <2>10. Promise!Acceptable(Asked(c)) BY <2>7, <2>8, <2>9, Zenon DEF Promise!Acceptable
  <2> QED BY <2>3, <2>7, <2>8, <2>9, <2>10 DEF log
<1> QED BY <1>1, <1>2

(* A commit that lands: RevisionLog makes its one step.                     *)
LEMMA CommitLog ==
  ASSUME MInv, LogInv, NEW c \in Clients, NEW landed \in BOOLEAN, NEW report \in {"ok", "unknown"}, Commit(c, landed, report)
  PROVE  LogInv' /\ PStep
<1>1. pc[c] = "commit" BY DEF Commit
<1>2. CASE ~landed
  <2>1. End(c, "unknown") /\ UNCHANGED db BY <1>2 DEF Commit
  <2> QED BY <1>1, <2>1, RefusedStep
<1>3. CASE landed
  <2>1. /\ pc' = [pc EXCEPT ![c] = "idle"] /\ mine' = [mine EXCEPT ![c] = Empty]
        /\ told' = [told EXCEPT ![c] = report] /\ locker' = locker \ {c} /\ db' = View(c)
        /\ UNCHANGED <<backend, rows, call, revision, operation>>
    BY <1>3 DEF Commit, End, Goto, position
  <2>2. pc'[c] = "idle" /\ mine'[c] = Empty /\ told'[c] = report BY <2>1 DEF MInv, TypeOK
  <2>3. \A d \in Others(c) : Kept(d) /\ told'[d] = told[d] /\ (d \in locker => d \in locker')
    BY <2>1 DEF Others, Kept, MInv, TypeOK
  <2>4. Promised(c)' BY <2>2, EmptyFields DEF Promised, Logging, Working
  <2>5. OneLocker' BY <2>1 DEF OneLocker, LogInv
  <2>6. Promise!Increasing(db.log)' BY <1>1, <2>1, CommitGrows DEF Promise!Increasing
  <2>7. ASSUME NEW d \in Others(c) PROVE Promised(d)'
    <3>1. d \in Clients /\ d # c /\ Promised(d) BY DEF Others, LogInv
    <3>2. CASE db'.log = db.log BY <2>1, <2>3, <3>1, <3>2, PromisedFrame
    <3>3. CASE db'.log # db.log
      <4>1. call[c] \in Requests BY <1>1, <2>1, <3>3, CommitGrows
      <4>2. Grew(c) BY <1>1, <4>1 DEF LogInv, Promised, Logging
      <4>3. ~(call[d] \in Requests /\ pc[d] \in Logging)
        <5> SUFFICES ASSUME call[d] \in Requests, pc[d] \in Logging PROVE FALSE OBVIOUS
        <5>1. Grew(d) BY <3>1 DEF Promised
        <5>2. backend = "pg" \/ backend = "sqlite" BY MigrationsAssumption DEF MInv, TypeOK
        <5>3. CASE backend = "pg"
          <6>1. c \in locker /\ d \in locker BY <4>2, <5>1, <5>3 DEF Grew
          <6> QED BY <3>1, <6>1 DEF LogInv, OneLocker
        <5>4. CASE backend = "sqlite"
          <6>1. pc[c] # "idle" /\ pc[d] # "idle" BY <1>1 DEF Logging, Working
          <6> QED BY <3>1, <5>4, <6>1 DEF MInv, Alone
        <5> QED BY <5>2, <5>3, <5>4
      <4> QED BY <2>1, <2>3, <3>1, <4>3 DEF Promised, Kept
    <3> QED BY <3>2, <3>3
  <2>8. \A d \in Clients : Promised(d)' BY <2>4, <2>7 DEF Others
  <2>9. LogInv' BY <2>5, <2>6, <2>8 DEF LogInv
  <2>10. told[c] = "nothing" BY <1>1 DEF LogInv, Promised
  <2>11. Promise!Acceptable(Asked(c)) /\ db'.log = Promise!Extended(db.log, Asked(c)) BY <1>1, <2>1, CommitGrows
  <2>12. Promise!Accept(c, report)
    <3>1. [d \in Clients |-> Asked(d)][c] = Asked(c) OBVIOUS
    <3>2. [d \in Clients |-> Asked(d)]' = [d \in Clients |-> Asked(d)] BY <2>1, AskedSame
    <3> QED BY <2>1, <2>10, <2>11, <3>1, <3>2 DEF Promise!Accept
  <2>13. Promise!Next BY <2>12 DEF Promise!Next
  <2> QED BY <2>9, <2>13 DEF PStep
<1> QED BY <1>2, <1>3

(* A row that comes or goes is nothing to the log.                          *)
LEMMA RowsLog ==
  ASSUME LogInv, UNCHANGED <<backend, db, pc, call, revision, operation, mine, locker, told>>
  PROVE  LogInv' /\ PStep
<1>1. \A d \in Clients : Promised(d)' BY PromisedFrame DEF LogInv, Kept
<1>2. OneLocker' /\ Promise!Increasing(db.log)' BY DEF LogInv, OneLocker, Promise!Increasing
<1>3. UNCHANGED Promise!vars BY AskedSame DEF Promise!vars
<1> QED BY <1>1, <1>2, <1>3 DEF LogInv, PStep

(* Every step keeps the invariant and is a step of RevisionLog.             *)
LEMMA LogStep == MInv /\ LogInv /\ [Next]_vars => LogInv' /\ PStep
<1> SUFFICES ASSUME MInv, LogInv, [Next]_vars PROVE LogInv' /\ PStep
  OBVIOUS
<1>1. ASSUME NEW c \in Clients, Statement(c) PROVE LogInv' /\ PStep
  BY <1>1, EnsureLog, MetadataLog, LockLog, LookedUpLog, LookLog, MakeLog, NoteLog, RecordLog DEF Statement
<1>2. ASSUME NEW c \in Clients, Fault(c) PROVE LogInv' /\ PStep
  BY <1>2, RefusedStep DEF Fault, Fail
<1>3. ASSUME NEW op \in RuleOps, WriteRow(op) \/ RepairRows(op) PROVE LogInv' /\ PStep
  BY <1>3, RowsLog DEF WriteRow, RepairRows, position
<1>4. CASE UNCHANGED vars BY <1>4, RowsLog DEF vars, position
<1> QED BY <1>1, <1>2, <1>3, <1>4, BeginLog, CommitLog DEF Next

(* In the beginning both logs are empty.                                    *)
LEMMA LogInit == Init => LogInv /\ Promise!Init
<1> SUFFICES ASSUME Init PROVE LogInv /\ Promise!Init OBVIOUS
<1>1. db = Empty /\ locker = {} BY DEF Init
<1>2. Promise!Increasing(db.log) /\ OneLocker BY <1>1, EmptyFields DEF Promise!Increasing, OneLocker
<1>3. \A c \in Clients : Promised(c) BY EmptyFields DEF Init, Promised, Logging, Working
<1>4. \A c \in Clients : Asked(c) = << >> BY DEF Init, Asked
<1>5. Promise!Init BY <1>1, <1>4, EmptyFields DEF Init, Promise!Init
<1> QED BY <1>2, <1>3, <1>5 DEF LogInv

(* migrate keeps the promise of RevisionLog, for any clients and any lists of *)
(* revisions: each call that succeeds extends the log at one moment, its      *)
(* commit, by what it brings that is new and in the order of the IDs, and a   *)
(* call is refused for drift or order only when no log that it could leave    *)
(* would be in order (migrate, apply).                                      *)
THEOREM LogIsPromised == Spec => LogPromise
<1>1. Spec => [](MInv /\ LogInv)
  <2>1. Init => MInv /\ LogInv BY MInit, LogInit
  <2>2. (MInv /\ LogInv) /\ [Next]_vars => (MInv /\ LogInv)' BY MStep, LogStep
  <2> QED BY <2>1, <2>2, PTL DEF Spec
<1>2. (MInv /\ LogInv) /\ [Next]_vars => [Promise!Next]_(Promise!vars) BY LogStep DEF PStep
<1>3. Init => Promise!Init BY LogInit
<1> QED BY <1>1, <1>2, <1>3, PTL DEF Spec, LogPromise, Promise!Spec
===============================================================================
