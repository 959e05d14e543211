---------------------------- MODULE DocumentsProofs ----------------------------
(***************************************************************************)
(* Optimistic concurrency for any number of clients, documents, versions and  *)
(* writes, on all three backends: a version names one document, and a         *)
(* conditional write overwrites the one its caller was handed.               *)
(***************************************************************************)
EXTENDS Documents, TLAPS

(* Only a write scope has written, and it is alone on SQLite.                *)
Quiet ==
  \A c \in Clients : scope[c] # "write" => mine[c] = Nowhere /\ c \notin making /\ between[c] = Idle

Writers ==
  mode # "pg" => \A c, d \in Clients : scope[c] = "write" /\ scope[d] = "write" => c = d

(* A write scope sees the latest committed documents under its own.          *)
Views ==
  \A c \in Clients : scope[c] = "write" => snap[c] = IF mode = "pg" THEN Unread ELSE docs

Lookers == \A c \in looked : scope[c] = "read" /\ snap[c] # Unread

Locks ==
  \A c, d \in Clients, i \in Ids : c # d /\ mine[c][i] # Untouched => mine[d][i] = Untouched

(* Before the collection is declared there is nothing in it.                *)
Unmade ==
  ~made => docs = Nothing /\ published = {} /\ \A c \in Clients : c \notin making => mine[c] = Nowhere

(* What comes with a statement that was sent: a body, the declaration it      *)
(* needs, whether its ID may be used, and the version expected.              *)
Sent(c, i) ==
  /\ Inserting(c, i) \/ Half(c, "replace", i) => Body(c) \in 1..MaxWrites
  /\ Inserting(c, i) /\ ~ReuseIds => i \notin retired
  /\ Half(c, "delete", i) => i \in retired
  /\ Half(c, "insert", i) \/ Half(c, "replace", i) \/ Half(c, "delete", i) => Declared(c)
  /\ (Half(c, "replace", i) \/ Half(c, "delete", i)) /\ Expected(c) # Any =>
       basis[c][i] # Absent /\ Expected(c) = basis[c][i].version

Halves == \A c \in Clients, i \in Ids : Sent(c, i)

(* The committed documents are published.  Unless an ID is used again, the    *)
(* versions of a document grow: the committed one is the last published, and  *)
(* one that is yet to be committed comes after all of them.                  *)
Latest ==
  \A i \in Ids : docs[i] # Absent =>
    /\ <<i, docs[i]>> \in published
    /\ ~ReuseIds => \A p \in published : p[1] = i => p[2].version <= docs[i].version

Pending ==
  ~ReuseIds => \A c \in Clients, i \in Ids : mine[c][i] \in Doc =>
    \A p \in published : p[1] = i => p[2].version < mine[c][i].version

Gone ==
  /\ \A p \in published : docs[p[1]] = Absent => p[1] \in retired
  /\ \A c \in Clients, i \in Ids : mine[c][i] = Absent => i \in retired

(* What was read and what was handed back was published or is one's own.     *)
Snaps ==
  \A c \in Clients : snap[c] # Unread =>
    \A i \in Ids : snap[c][i] # Absent => <<i, snap[c][i]>> \in published

Bases ==
  \A c \in Clients, i \in Ids : basis[c][i] # Absent =>
    <<i, basis[c][i]>> \in published \/ basis[c][i] = mine[c][i]

Named == ~ReuseIds => VersionNamesBody

ScopesInv == Quiet /\ Writers /\ Views /\ Lookers
ChainInv == Latest /\ Pending /\ Gone /\ Named
HandedInv == Snaps /\ Bases

DInv == TypeOK /\ ScopesInv /\ Locks /\ Unmade /\ Halves /\ ChainInv /\ HandedInv

Between == {Idle} \cup (Statements \X Ids \X (0..MaxWrites) \X (0..MaxVersion))

-----------------------------------------------------------------------------
LEMMA Outside ==
  /\ Absent # Untouched /\ Absent \notin Doc /\ Untouched \notin Doc
  /\ Unread \notin [Ids -> Doc \cup {Absent}]
  /\ \A i \in Ids : Nowhere[i] = Untouched /\ Nothing[i] = Absent
BY DocumentsAssumption DEF Doc, Nowhere, Nothing

LEMMA NoHalf ==
  ASSUME NEW statement, NEW i, NEW c \in Clients, between[c] = Idle
  PROVE  ~Half(c, statement, i)
BY DEF Half

LEMMA NoneSent ==
  ASSUME NEW i, NEW c \in Clients, between[c] = Idle
  PROVE  Sent(c, i)
BY NoHalf DEF Sent, Inserting

(* A statement that one client sends, or the end of one.                     *)
LEMMA SendStep ==
  ASSUME TypeOK, Halves, NEW c \in Clients, NEW half \in Between,
         between' = [between EXCEPT ![c] = half],
         made' = made, making \subseteq making', retired \subseteq retired',
         \A d \in Clients : d # c => basis'[d] = basis[d],
         ReuseIds \/ \A d \in Clients, i \in Ids : Inserting(d, i) => i \notin retired' \ retired,
         \A i \in Ids : Sent(c, i)'
  PROVE  Halves' /\ between' \in [Clients -> Between]
<1>1. between \in [Clients -> Between] BY DEF TypeOK, Between
<1>2. ASSUME NEW d \in Clients, NEW i \in Ids PROVE Sent(d, i)'
  <2>1. CASE d = c BY <2>1
  <2>2. CASE d # c
    <3>1. between'[d] = between[d] BY <1>1, <2>2
    <3>2. \A statement : Half(d, statement, i)' <=> Half(d, statement, i) BY <3>1 DEF Half
    <3>3. /\ Body(d)' = Body(d) /\ Expected(d)' = Expected(d) /\ basis'[d][i] = basis[d][i]
          /\ (Inserting(d, i)' <=> Inserting(d, i))
      BY <2>2, <3>1, <3>2 DEF Body, Expected, Inserting
    <3>4. Declared(d) => Declared(d)' BY DEF Declared
    <3>5. Sent(d, i) BY DEF Halves
    <3> QED BY <3>2, <3>3, <3>4, <3>5 DEF Sent
  <2> QED BY <2>1, <2>2
<1>3. between' \in [Clients -> Between] BY <1>1
<1> QED BY <1>2, <1>3 DEF Halves

LEMMA IdleStep ==
  ASSUME TypeOK, Halves, NEW c \in Clients, between' = [between EXCEPT ![c] = Idle],
         made' = made, making' = making, retired' = retired,
         \A d \in Clients : d # c => basis'[d] = basis[d]
  PROVE  Halves' /\ between' \in [Clients -> Between]
<1>1. between'[c] = Idle BY DEF TypeOK
<1>2. \A i \in Ids : Sent(c, i)' BY <1>1 DEF Sent, Inserting, Half
<1>3. Idle \in Between BY DEF Between
<1> QED BY <1>2, <1>3, SendStep

LEMMA DInit == Init => DInv
<1> SUFFICES ASSUME Init PROVE DInv
  OBVIOUS
<1> USE DEF Init
<1>1. TypeOK
  <2>1. mode \in AllModes /\ [i \in Ids |-> 0] \in [Ids -> 0..MaxWrites] /\ "none" \in Errors
    BY DocumentsAssumption DEF Errors
  <2>2. Nothing \in [Ids -> Doc \cup {Absent}] /\ Nowhere \in [Ids -> Doc \cup {Absent, Untouched}]
    BY DEF Nothing, Nowhere
  <2> QED BY <2>1, <2>2 DEF TypeOK
<1>2. ScopesInv BY DEF ScopesInv, Quiet, Writers, Views, Lookers
<1>3. Locks /\ Unmade BY Outside DEF Locks, Unmade
<1>4. Halves BY NoneSent DEF Halves
<1>5. ChainInv
  BY Outside DEF ChainInv, Latest, Pending, Gone, Named, VersionNamesBody
<1>6. HandedInv
  BY Outside DEF HandedInv, Snaps, Bases
<1> QED BY <1>1, <1>2, <1>3, <1>4, <1>5, <1>6 DEF DInv

-----------------------------------------------------------------------------
(* Steps that write nothing and commit nothing.                             *)
LEMMA QuietStep ==
  ASSUME DInv, TypeOK', Halves', UNCHANGED <<db, scope, mine, published>>,
         making \subseteq making', \A c \in making' : c \in making \/ scope[c] = "write",
         retired \subseteq retired',
         \A c \in Clients : between'[c] = between[c] \/ between'[c] = Idle \/ scope[c] = "write",
         \A c \in Clients : snap'[c] = snap[c]
           \/ (scope[c] = "read" /\ snap'[c] # Unread /\
                \A i \in Ids : snap'[c][i] # Absent => <<i, snap'[c][i]>> \in published),
         \A c \in looked' : c \in looked \/ (scope[c] = "read" /\ snap'[c] # Unread),
         \A c \in Clients, i \in Ids : basis'[c][i] # Absent => basis'[c][i] = basis[c][i]
           \/ <<i, basis'[c][i]>> \in published \/ basis'[c][i] = mine[c][i]
  PROVE  DInv'
<1>1. UNCHANGED <<mode, made, docs>> BY DEF db
<1>2. Quiet' BY DEF DInv, ScopesInv, Quiet
<1>3. Writers' BY <1>1 DEF DInv, ScopesInv, Writers
<1>4. Views' BY <1>1 DEF DInv, ScopesInv, Views
<1>5. Lookers' BY DEF DInv, ScopesInv, Lookers, TypeOK
<1>6. Locks' /\ Unmade' BY <1>1 DEF DInv, Locks, Unmade
<1>7. ChainInv'
  BY <1>1 DEF DInv, ChainInv, Latest, Pending, Gone, Named, VersionNamesBody
<1>8. HandedInv'
  BY DEF DInv, HandedInv, Snaps, Bases
<1> QED BY <1>2, <1>3, <1>4, <1>5, <1>6, <1>7, <1>8 DEF DInv, ScopesInv

LEMMA FailStep ==
  ASSUME DInv, NEW c \in Clients, NEW error \in Errors, Fail(c, error)
  PROVE  DInv'
<1>1. /\ UNCHANGED <<db, scope, mine, making, retired, published, snap, looked, basis, stamp>>
      /\ between' = [between EXCEPT ![c] = Idle] /\ made' = made
  BY DEF Fail, db
<1>2. Halves' /\ between' \in [Clients -> Between] BY <1>1, IdleStep DEF DInv
<1>3. TypeOK' BY <1>2 DEF Fail, DInv, TypeOK, Between, db
<1>4. \A d \in Clients : between'[d] = between[d] \/ between'[d] = Idle
  BY <1>1 DEF DInv, TypeOK
<1> QED BY <1>1, <1>2, <1>3, <1>4, QuietStep

(* A statement is sent by a write scope and changes nothing yet.             *)
LEMMA AskStep ==
  ASSUME DInv, NEW c \in Clients, scope[c] = "write", NEW half \in Between,
         between' = [between EXCEPT ![c] = half],
         UNCHANGED <<db, scope, failed, snap, mine, basis, published, looked, said>>,
         making' = making \/ making' = making \cup {c},
         stamp' \in [Ids -> 0..MaxWrites], retired \subseteq retired', retired' \subseteq Ids,
         ReuseIds \/ \A d \in Clients, i \in Ids : Inserting(d, i) => i \notin retired' \ retired,
         \A i \in Ids : Sent(c, i)'
  PROVE  DInv'
<1>1. UNCHANGED <<mode, made, docs>> BY DEF db
<1>2. Halves' /\ between' \in [Clients -> Between] BY <1>1, SendStep DEF DInv
<1>3. making' \subseteq Clients BY DEF DInv, TypeOK
<1>4. TypeOK' BY <1>1, <1>2, <1>3 DEF DInv, TypeOK, Between
<1>5. \A d \in Clients : between'[d] = between[d] \/ scope[d] = "write" BY DEF DInv, TypeOK
<1> QED BY <1>1, <1>2, <1>4, <1>5, QuietStep

(* What a statement about i brings, if it brings what Sent asks for.          *)
LEMMA OneSent ==
  ASSUME TypeOK, NEW c \in Clients, NEW i \in Ids, NEW statement \in Statements,
         NEW body \in 0..MaxWrites, NEW expected \in 0..MaxVersion,
         Send(c, statement, i, body, expected),
         statement \in {"look", "create", "insert", "replace"} => body \in 1..MaxWrites,
         statement \in {"look", "create", "insert"} /\ ~ReuseIds => i \notin retired',
         statement = "delete" => i \in retired',
         statement \in {"insert", "replace", "delete"} => Declared(c)',
         statement \in {"replace", "delete"} /\ expected # Any =>
           basis'[c][i] # Absent /\ expected = basis'[c][i].version
  PROVE  /\ <<statement, i, body, expected>> \in Between
         /\ between' = [between EXCEPT ![c] = <<statement, i, body, expected>>]
         /\ \A j \in Ids : Sent(c, j)'
<1>1. between' = [between EXCEPT ![c] = <<statement, i, body, expected>>] BY DEF Send
<1>2. between'[c] = <<statement, i, body, expected>> BY <1>1 DEF TypeOK
<1>3. /\ \A s, j : Half(c, s, j)' => s = statement /\ j = i
      /\ Body(c)' = body /\ Expected(c)' = expected
  BY <1>2 DEF Half, Body, Expected
<1>4. \A j \in Ids : Sent(c, j)' BY <1>3 DEF Sent, Inserting
<1> QED BY <1>1, <1>4 DEF Between

(* A write of a document, or of its absence.                                *)
LEMMA WriteStep ==
  ASSUME DInv, NEW c \in Clients, NEW i \in Ids, NEW doc \in Doc \cup {Absent},
         scope[c] = "write", Lockable(c, i), Put(c, i, doc), Declared(c),
         doc = Absent => i \in retired,
         ~ReuseIds /\ doc # Absent => \A p \in published : p[1] = i => p[2].version < doc.version
  PROVE  DInv'
<1>0. /\ mine' = [mine EXCEPT ![c][i] = doc] /\ basis' = [basis EXCEPT ![c][i] = doc]
      /\ between' = [between EXCEPT ![c] = Idle]
      /\ UNCHANGED <<db, scope, failed, snap, making, stamp, retired, published, looked, said>>
  BY DEF Put, history
<1>1. /\ UNCHANGED <<mode, made, docs>> /\ doc # Untouched
      /\ \A d \in Clients, j \in Ids :
           /\ mine'[d][j] = IF d = c /\ j = i THEN doc ELSE mine[d][j]
           /\ basis'[d][j] = IF d = c /\ j = i THEN doc ELSE basis[d][j]
      /\ \A d \in Clients : d # c => mine'[d] = mine[d] /\ between'[d] = between[d]
      /\ \A d \in Clients : between'[d] = between[d] \/ between'[d] = Idle
  BY <1>0, Outside DEF db, DInv, TypeOK
<1>2. Halves' /\ between' \in [Clients -> Between]
  <2>1. \A d \in Clients : d # c => basis'[d] = basis[d] BY <1>0 DEF DInv, TypeOK
  <2> QED BY <1>0, <1>1, <2>1, IdleStep DEF DInv
<1>3. TypeOK'
  <2>1. /\ mine' \in [Clients -> [Ids -> Doc \cup {Absent, Untouched}]]
        /\ basis' \in [Clients -> [Ids -> Doc \cup {Absent}]]
    BY <1>0 DEF DInv, TypeOK
  <2> QED BY <1>0, <1>1, <1>2, <2>1 DEF DInv, TypeOK, Between
<1>4. ScopesInv'
  BY <1>0, <1>1 DEF DInv, ScopesInv, Quiet, Writers, Views, Lookers
<1>5. Locks'
  <2>1. \A d \in Clients : d # c => mine[d][i] = Untouched BY DEF Lockable, Others
  <2> QED BY <1>1, <2>1 DEF DInv, Locks
<1>6. Unmade'
  BY <1>0, <1>1 DEF DInv, Unmade, Declared
<1>7. ChainInv'
  <2>1. Latest' /\ Named' BY <1>0, <1>1 DEF DInv, ChainInv, Latest, Named, VersionNamesBody
  <2>2. Pending' BY <1>0, <1>1, Outside DEF DInv, ChainInv, Pending
  <2>3. Gone' BY <1>0, <1>1 DEF DInv, ChainInv, Gone
  <2> QED BY <2>1, <2>2, <2>3 DEF ChainInv
<1>8. HandedInv'
  BY <1>0, <1>1 DEF DInv, HandedInv, Snaps, Bases
<1> QED BY <1>2, <1>3, <1>4, <1>5, <1>6, <1>7, <1>8 DEF DInv
-----------------------------------------------------------------------------
LEMMA BeginStep ==
  ASSUME DInv, NEW c \in Clients, NEW kind \in {"read", "write"}, Begin(c, kind)
  PROVE  DInv'
<1> DEFINE first == IF kind = "write" /\ mode # "pg" THEN docs ELSE Unread
<1>1. /\ UNCHANGED <<mode, made, docs, failed, mine, making, between, basis, stamp, retired, published, looked, said>>
      /\ scope' = [scope EXCEPT ![c] = kind] /\ snap' = [snap EXCEPT ![c] = first]
      /\ scope[c] = "none" /\ MayBegin(c, kind)
  BY DEF Begin, db, history
<1>2. \A d \in Clients :
        /\ scope'[d] = IF d = c THEN kind ELSE scope[d]
        /\ snap'[d] = IF d = c THEN first ELSE snap[d]
  BY <1>1 DEF DInv, TypeOK
<1>3. c \notin looked BY <1>1 DEF DInv, ScopesInv, Lookers
<1>4. TypeOK' BY <1>1 DEF DInv, TypeOK, Errors
<1>5. Quiet' BY <1>1, <1>2 DEF DInv, ScopesInv, Quiet
<1>6. Writers' BY <1>1, <1>2 DEF DInv, ScopesInv, Writers, MayBegin, Others
<1>7. Views' BY <1>1, <1>2 DEF DInv, ScopesInv, Views
<1>8. Lookers' BY <1>1, <1>2, <1>3 DEF DInv, ScopesInv, Lookers, TypeOK
<1>9. Locks' /\ Unmade' BY <1>1 DEF DInv, Locks, Unmade
<1>10. Halves'
  BY <1>1 DEF DInv, Halves, Sent, Inserting, Half, Body, Expected, Declared
<1>11. ChainInv' BY <1>1 DEF DInv, ChainInv, Latest, Pending, Gone, Named, VersionNamesBody
<1>12. Snaps'
  BY <1>1, <1>2 DEF DInv, ChainInv, Latest, HandedInv, Snaps
<1>13. Bases' BY <1>1 DEF DInv, HandedInv, Bases
<1> QED BY <1>4, <1>5, <1>6, <1>7, <1>8, <1>9, <1>10, <1>11, <1>12, <1>13 DEF DInv, ScopesInv, HandedInv

(* A write scope reads its own documents over the latest committed ones, a    *)
(* read scope its snapshot.                                                 *)
LEMMA WriterSees ==
  ASSUME DInv, NEW c \in Clients, NEW i \in Ids, scope[c] = "write"
  PROVE  Seen(c, i) = IF mine[c][i] = Untouched THEN docs[i] ELSE mine[c][i]
BY DEF DInv, ScopesInv, Views, Seen, SnapOf

LEMMA ReaderSees ==
  ASSUME DInv, NEW c \in Clients, NEW i \in Ids, scope[c] # "write"
  PROVE  Seen(c, i) = SnapOf(c)[i]
BY Outside DEF DInv, ScopesInv, Quiet, Seen

LEMMA SnapPublished ==
  ASSUME DInv, NEW c \in Clients, NEW i \in Ids, SnapOf(c)[i] # Absent
  PROVE  <<i, SnapOf(c)[i]>> \in published
BY DEF DInv, ChainInv, Latest, HandedInv, Snaps, SnapOf

LEMMA SeenType ==
  ASSUME DInv, NEW c \in Clients, NEW i \in Ids
  PROVE  Seen(c, i) \in Doc \cup {Absent} /\ SnapOf(c) \in [Ids -> Doc \cup {Absent}]
BY DEF DInv, TypeOK, Seen, SnapOf

LEMMA GetStep ==
  ASSUME DInv, NEW c \in Clients, NEW i \in Ids, Get(c, i)
  PROVE  DInv'
<1> DEFINE next == IF ReadsCommitted(c) THEN Unread ELSE SnapOf(c)
<1>1. /\ UNCHANGED <<db, scope, failed, mine, making, between, stamp, retired, published, said>>
      /\ snap' = [snap EXCEPT ![c] = next] /\ basis' = [basis EXCEPT ![c][i] = Seen(c, i)]
      /\ looked' = IF scope[c] = "read" THEN looked \cup {c} ELSE looked
      /\ scope[c] \in {"read", "write"} /\ between[c] = Idle
  BY DEF Get, Ready, DInv, TypeOK
<1>2. SnapOf(c) \in [Ids -> Doc \cup {Absent}] /\ Seen(c, i) \in Doc \cup {Absent} /\ SnapOf(c) # Unread
  BY SeenType, Outside
<1>3. /\ \A d \in Clients : snap'[d] = IF d = c THEN next ELSE snap[d]
      /\ \A d \in Clients, j \in Ids : basis'[d][j] = IF d = c /\ j = i THEN Seen(c, i) ELSE basis[d][j]
  BY <1>1 DEF DInv, TypeOK
<1>4. TypeOK'
  <2>1. /\ snap' \in [Clients -> [Ids -> Doc \cup {Absent}] \cup {Unread}]
        /\ basis' \in [Clients -> [Ids -> Doc \cup {Absent}]]
    BY <1>1, <1>2 DEF DInv, TypeOK
  <2> QED BY <1>1, <2>1 DEF DInv, TypeOK, db
<1>7. Halves'
  <2> SUFFICES ASSUME NEW d \in Clients, NEW j \in Ids PROVE Sent(d, j)'
    BY DEF Halves
  <2>1. CASE d = c
    <3>1. \A s, k : ~Half(c, s, k)' BY <1>1 DEF Half
    <3> QED BY <2>1, <3>1 DEF Sent, Inserting
  <2>2. CASE d # c
    <3>1. basis'[d] = basis[d] BY <1>1, <2>2 DEF DInv, TypeOK
    <3>2. Sent(d, j) BY DEF DInv, Halves
    <3> QED BY <1>1, <3>1, <3>2 DEF Sent, Inserting, Half, Body, Expected, Declared, db
  <2> QED BY <2>1, <2>2
<1>5. CASE scope[c] = "read"
  <2>1. next = SnapOf(c) BY <1>5 DEF ReadsCommitted
  <2>2. \A j \in Ids : SnapOf(c)[j] # Absent => <<j, SnapOf(c)[j]>> \in published
    BY SnapPublished
  <2>3. Seen(c, i) # Absent => <<i, Seen(c, i)>> \in published
    BY <1>5, ReaderSees, SnapPublished
  <2> HIDE DEF next
  <2> QED BY <1>1, <1>2, <1>3, <1>4, <1>5, <1>7, <2>1, <2>2, <2>3, QuietStep
<1>6. CASE scope[c] = "write"
  <2>1. next = snap[c]
    BY <1>6 DEF DInv, ScopesInv, Views, SnapOf, ReadsCommitted
  <2>2. Seen(c, i) # Absent => <<i, Seen(c, i)>> \in published \/ Seen(c, i) = mine[c][i]
    BY <1>6, WriterSees DEF DInv, ChainInv, Latest
  <2> HIDE DEF next
  <2> QED BY <1>1, <1>2, <1>3, <1>4, <1>6, <1>7, <2>1, <2>2, QuietStep
<1> QED BY <1>1, <1>5, <1>6
-----------------------------------------------------------------------------
(* An ID without a document a write scope can see has none that was ever      *)
(* published, unless it was deleted.                                        *)
LEMMA NeverUsed ==
  ASSUME DInv, NEW c \in Clients, NEW i \in Ids, scope[c] = "write",
         Seen(c, i) = Absent, i \notin retired
  PROVE  \A p \in published : p[1] # i
<1>1. mine[c][i] # Absent BY DEF DInv, ChainInv, Gone
<1>2. docs[i] = Absent BY <1>1, WriterSees
<1> QED BY <1>2 DEF DInv, ChainInv, Gone

(* What a write scope sees is no older than anything published.              *)
LEMMA SeenIsLast ==
  ASSUME DInv, NEW c \in Clients, NEW i \in Ids, scope[c] = "write", Seen(c, i) # Absent
  PROVE  /\ Seen(c, i) \in Doc
         /\ ~ReuseIds => \A p \in published : p[1] = i => p[2].version <= Seen(c, i).version
<1>1. Seen(c, i) \in Doc BY SeenType
<1>2. \A p \in published : p[2] \in Doc BY DEF DInv, TypeOK
<1>3. CASE mine[c][i] = Untouched
  <2>1. Seen(c, i) = docs[i] BY <1>3, WriterSees
  <2>2. Latest BY DEF DInv, ChainInv
  <2> QED BY <1>1, <2>1, <2>2 DEF Latest
<1>4. CASE mine[c][i] # Untouched
  <2>1. Seen(c, i) = mine[c][i] BY <1>4, WriterSees
  <2>2. ~ReuseIds => \A p \in published : p[1] = i => p[2].version < mine[c][i].version
    BY <1>1, <2>1 DEF DInv, ChainInv, Pending
  <2>3. \A d, e \in Doc : d.version < e.version => d.version <= e.version
    BY DocumentsAssumption DEF Doc
  <2> QED BY <1>1, <1>2, <2>1, <2>2, <2>3
<1> QED BY <1>1, <1>3, <1>4

LEMMA FirstVersion ==
  ASSUME NEW n \in 1..MaxWrites
  PROVE  [version |-> 1, body |-> n] \in Doc
BY DocumentsAssumption DEF Doc

LEMMA MoreType ==
  ASSUME DInv, NEW i \in Ids, MoreBodies(i)
  PROVE  /\ NewBody(i) \in 1..MaxWrites /\ NewBody(i) \in 0..MaxWrites
         /\ [stamp EXCEPT ![i] = NewBody(i)] \in [Ids -> 0..MaxWrites]
<1>1. PICK load \in Loads : NewBody(i) <= load[i] BY DEF MoreBodies
<1>2. load[i] \in 0..MaxWrites /\ MaxWrites \in Nat BY <1>1, DocumentsAssumption
<1>3. stamp \in [Ids -> 0..MaxWrites] BY DEF DInv, TypeOK
<1>4. NewBody(i) \in 1..MaxWrites BY <1>1, <1>2, <1>3 DEF NewBody
<1>5. NewBody(i) \in 0..MaxWrites BY <1>2, <1>4
<1> QED BY <1>3, <1>4, <1>5

LEMMA HeldType ==
  ASSUME DInv, NEW c \in Clients, NEW i \in Ids, NEW conditional \in BOOLEAN,
         conditional => basis[c][i] # Absent
  PROVE  /\ Held(c, i, conditional) \in 0..MaxVersion
         /\ Held(c, i, conditional) # Any =>
              basis[c][i] # Absent /\ Held(c, i, conditional) = basis[c][i].version
<1>1. MaxVersion \in Nat BY DocumentsAssumption
<1>2. CASE conditional
  <2>1. basis[c][i] \in Doc BY <1>2 DEF DInv, TypeOK
  <2>2. basis[c][i].version \in 0..MaxVersion BY <1>1, <2>1 DEF Doc
  <2> QED BY <1>2, <2>2 DEF Held
<1>3. CASE ~conditional BY <1>1, <1>3 DEF Held, Any
<1> QED BY <1>2, <1>3

LEMMA AnyType == Any \in 0..MaxVersion
BY DocumentsAssumption DEF Any

LEMMA InsertStep ==
  ASSUME DInv, NEW c \in Clients, NEW i \in Ids, Insert(c, i)
  PROVE  DInv'
<1> DEFINE statement == IF Declared(c) THEN "insert" ELSE "look"
<1>1. /\ scope[c] = "write" /\ (~ReuseIds => i \notin retired)
      /\ stamp' = [stamp EXCEPT ![i] = NewBody(i)] /\ Send(c, statement, i, NewBody(i), Any)
      /\ UNCHANGED <<db, scope, failed, snap, mine, making, basis, retired, published, looked, said>>
  BY DEF Insert, Writing, MayInsert
<1>2. NewBody(i) \in 1..MaxWrites /\ NewBody(i) \in 0..MaxWrites /\ stamp' \in [Ids -> 0..MaxWrites]
  BY <1>1, MoreType DEF Insert
<1>3. statement \in Statements /\ (statement = "insert" => Declared(c)')
      /\ statement \in {"look", "create", "insert"}
  BY <1>1 DEF Statements, Declared, db
<1>4. TypeOK BY DEF DInv
<1> HIDE DEF statement
<1> DEFINE half == <<statement, i, NewBody(i), Any>>
<1>5. half \in Between /\ between' = [between EXCEPT ![c] = half] /\ \A j \in Ids : Sent(c, j)'
  BY <1>1, <1>2, <1>3, <1>4, AnyType, OneSent
<1>6. retired' \subseteq Ids BY <1>1 DEF DInv, TypeOK
<1> HIDE DEF half
<1> QED BY <1>1, <1>2, <1>5, <1>6, AskStep

LEMMA LookStep ==
  ASSUME DInv, NEW c \in Clients, NEW i \in Ids, Look(c, i)
  PROVE  DInv'
<1> DEFINE statement == IF Declared(c) THEN "insert" ELSE "create"
<1>1. /\ Half(c, "look", i) /\ Send(c, statement, i, Body(c), Any)
      /\ UNCHANGED <<db, scope, failed, snap, mine, making, basis, stamp, retired, published, looked, said>>
  BY DEF Look, history
<1>2. Body(c) \in 1..MaxWrites /\ (~ReuseIds => i \notin retired) /\ scope[c] = "write"
  BY <1>1, NoHalf DEF DInv, Halves, Sent, Inserting, ScopesInv, Quiet
<1>3. Body(c) \in 0..MaxWrites BY <1>2, DocumentsAssumption
<1>4. statement \in Statements /\ (statement = "insert" => Declared(c)')
      /\ statement \in {"look", "create", "insert"}
  BY <1>1 DEF Statements, Declared, db
<1>5. TypeOK BY DEF DInv
<1> HIDE DEF statement
<1> DEFINE half == <<statement, i, Body(c), Any>>
<1>6. half \in Between /\ between' = [between EXCEPT ![c] = half] /\ \A j \in Ids : Sent(c, j)'
  BY <1>1, <1>2, <1>3, <1>4, <1>5, AnyType, OneSent
<1>7. retired' \subseteq Ids /\ stamp' \in [Ids -> 0..MaxWrites] BY <1>1 DEF DInv, TypeOK
<1> HIDE DEF half
<1> QED BY <1>1, <1>2, <1>6, <1>7, AskStep

LEMMA CreateStep ==
  ASSUME DInv, NEW c \in Clients, NEW i \in Ids, Create(c, i)
  PROVE  DInv'
<1>1. Half(c, "create", i) BY DEF Create
<1>2. CASE made BY <1>2, FailStep DEF Create, Errors
<1>3. CASE ~made
  <2>1. /\ making' = making \cup {c} /\ Send(c, "insert", i, Body(c), Any)
        /\ UNCHANGED <<db, scope, failed, snap, mine, basis, stamp, retired, published, looked, said>>
    BY <1>3 DEF Create, history
  <2>2. Body(c) \in 1..MaxWrites /\ (~ReuseIds => i \notin retired) /\ scope[c] = "write"
    BY <1>1, NoHalf DEF DInv, Halves, Sent, Inserting, ScopesInv, Quiet
  <2>3. Body(c) \in 0..MaxWrites BY <2>2, DocumentsAssumption
  <2>4. "insert" \in Statements /\ Declared(c)' BY <2>1 DEF Statements, Declared
  <2>5. TypeOK BY DEF DInv
  <2> DEFINE half == <<"insert", i, Body(c), Any>>
  <2>6. half \in Between /\ between' = [between EXCEPT ![c] = half] /\ \A j \in Ids : Sent(c, j)'
    BY <2>1, <2>2, <2>3, <2>4, <2>5, AnyType, OneSent
  <2>7. retired' \subseteq Ids /\ stamp' \in [Ids -> 0..MaxWrites] BY <2>1 DEF DInv, TypeOK
  <2> HIDE DEF half
  <2> QED BY <2>1, <2>2, <2>6, <2>7, AskStep
<1> QED BY <1>2, <1>3

LEMMA InsertRowStep ==
  ASSUME DInv, NEW c \in Clients, NEW i \in Ids, InsertRow(c, i)
  PROVE  DInv'
<1>1. Half(c, "insert", i) /\ Lockable(c, i) BY DEF InsertRow
<1>2. /\ Body(c) \in 1..MaxWrites /\ (~ReuseIds => i \notin retired) /\ Declared(c)
      /\ scope[c] = "write"
  BY <1>1, NoHalf DEF DInv, Halves, Sent, Inserting, ScopesInv, Quiet
<1>3. CASE Seen(c, i) # Absent
  BY <1>3, FailStep DEF InsertRow, Errors
<1>4. CASE Seen(c, i) = Absent
  <2> DEFINE doc == [version |-> 1, body |-> Body(c)]
  <2>1. Put(c, i, doc) BY <1>4 DEF InsertRow
  <2>2. doc \in Doc BY <1>2, FirstVersion
  <2>3. doc # Absent BY <2>2, Outside
  <2>4. ~ReuseIds => \A p \in published : p[1] # i BY <1>2, <1>4, NeverUsed
  <2> HIDE DEF doc
  <2> QED BY <1>1, <1>2, <2>1, <2>2, <2>3, <2>4, WriteStep
<1> QED BY <1>3, <1>4

LEMMA ReplaceStep ==
  ASSUME DInv, NEW c \in Clients, NEW i \in Ids, NEW conditional \in BOOLEAN,
         Replace(c, i, conditional)
  PROVE  DInv'
<1> DEFINE expected == Held(c, i, conditional)
<1>1. scope[c] = "write" /\ (conditional => basis[c][i] # Absent) BY DEF Replace, Writing
<1>4. /\ expected \in 0..MaxVersion
      /\ expected # Any => basis[c][i] # Absent /\ expected = basis[c][i].version
  BY <1>1, HeldType
<1>2. CASE ~Declared(c)
  BY <1>2, FailStep DEF Replace, Errors
<1>3. CASE Declared(c)
  <2>1. /\ stamp' = [stamp EXCEPT ![i] = NewBody(i)] /\ Send(c, "replace", i, NewBody(i), expected)
        /\ UNCHANGED <<db, scope, failed, snap, mine, making, basis, retired, published, looked, said>>
    BY <1>3 DEF Replace
  <2>2. NewBody(i) \in 1..MaxWrites /\ NewBody(i) \in 0..MaxWrites /\ stamp' \in [Ids -> 0..MaxWrites]
    BY <2>1, MoreType DEF Replace
  <2>3. "replace" \in Statements /\ Declared(c)' /\ TypeOK
    BY <1>3, <2>1 DEF Statements, Declared, db, DInv
  <2> HIDE DEF expected
  <2> DEFINE half == <<"replace", i, NewBody(i), expected>>
  <2>4. half \in Between /\ between' = [between EXCEPT ![c] = half] /\ \A j \in Ids : Sent(c, j)'
    BY <1>4, <2>1, <2>2, <2>3, OneSent
  <2>5. retired' \subseteq Ids BY <2>1 DEF DInv, TypeOK
  <2> HIDE DEF half
  <2> QED BY <1>1, <2>1, <2>2, <2>4, <2>5, AskStep
<1> QED BY <1>2, <1>3

LEMMA UpdateRowStep ==
  ASSUME DInv, NEW c \in Clients, NEW i \in Ids, UpdateRow(c, i)
  PROVE  DInv'
<1> DEFINE old == Seen(c, i)
           doc == [version |-> NextVersion(old), body |-> Body(c)]
<1>1. Half(c, "replace", i) BY DEF UpdateRow
<1>2. Body(c) \in 1..MaxWrites /\ Declared(c) /\ scope[c] = "write"
  BY <1>1, NoHalf DEF DInv, Halves, Sent, ScopesInv, Quiet
<1>3. CASE Updates(c, old)
  <2>1. Lockable(c, i) /\ Put(c, i, doc) BY <1>3 DEF UpdateRow
  <2>2. old # Absent /\ BelowLastVersion(old) BY <1>3 DEF Updates, Matches
  <2>3. old \in Doc /\ (~ReuseIds => \A p \in published : p[1] = i => p[2].version <= old.version)
    BY <1>2, <2>2, SeenIsLast
  <2> HIDE DEF old
  <2>4. doc \in Doc /\ doc.version = old.version + 1
    BY <1>2, <2>2, <2>3, DocumentsAssumption DEF NextVersion, BelowLastVersion, Doc
  <2>5. ~ReuseIds => \A p \in published : p[1] = i => p[2].version < doc.version
    <3>1. \A p \in published : p[2].version \in Nat
      BY DocumentsAssumption DEF DInv, TypeOK, Doc
    <3>2. old.version \in Nat BY <2>3, DocumentsAssumption DEF Doc
    <3> HIDE DEF doc
    <3> QED BY <2>3, <2>4, <3>1, <3>2
  <2>6. doc # Absent BY <2>4, Outside
  <2> HIDE DEF doc
  <2> QED BY <1>2, <2>1, <2>4, <2>5, <2>6, WriteStep
<1>4. CASE ~Updates(c, old)
  <2>1. \/ Fail(c, "conflict")
        \/ /\ Send(c, "diagnose", i, 0, Any)
           /\ UNCHANGED <<db, scope, failed, snap, mine, making, basis, history>>
    BY <1>4 DEF UpdateRow
  <2>2. CASE Fail(c, "conflict")
    BY <2>2, FailStep DEF Errors
  <2>3. CASE /\ Send(c, "diagnose", i, 0, Any)
             /\ UNCHANGED <<db, scope, failed, snap, mine, making, basis, history>>
    <3>1. UNCHANGED <<db, scope, failed, snap, mine, making, basis, stamp, retired, published, looked, said>>
      BY <2>3 DEF history
    <3>2. 0 \in 0..MaxWrites /\ "diagnose" \in Statements /\ TypeOK
      BY DocumentsAssumption DEF Statements, DInv
    <3> DEFINE half == <<"diagnose", i, 0, Any>>
    <3>3. half \in Between /\ between' = [between EXCEPT ![c] = half] /\ \A j \in Ids : Sent(c, j)'
      BY <2>3, <3>2, AnyType, OneSent
    <3>4. retired' \subseteq Ids /\ stamp' \in [Ids -> 0..MaxWrites] BY <3>1 DEF DInv, TypeOK
    <3> HIDE DEF half
    <3> QED BY <1>2, <3>1, <3>3, <3>4, AskStep
  <2> QED BY <2>1, <2>2, <2>3
<1> QED BY <1>3, <1>4

LEMMA DeleteStep ==
  ASSUME DInv, NEW c \in Clients, NEW i \in Ids, NEW conditional \in BOOLEAN,
         Delete(c, i, conditional)
  PROVE  DInv'
<1> DEFINE expected == Held(c, i, conditional)
<1>4. /\ expected \in 0..MaxVersion
      /\ expected # Any => basis[c][i] # Absent /\ expected = basis[c][i].version
  BY HeldType DEF Delete
<1>1. /\ scope[c] = "write"
      /\ ReuseIds \/ \A d \in Clients : ~Inserting(d, i)
  BY DEF Delete, Writing, MayDelete
<1>2. CASE ~Declared(c)
  BY <1>2, FailStep DEF Delete, Errors
<1>3. CASE Declared(c)
  <2>1. /\ retired' = retired \cup {i} /\ Send(c, "delete", i, 0, expected)
        /\ UNCHANGED <<db, scope, failed, snap, mine, making, basis, stamp, published, looked, said>>
    BY <1>3 DEF Delete
  <2>2. "delete" \in Statements /\ Declared(c)' /\ TypeOK /\ 0 \in 0..MaxWrites
    BY <1>3, <2>1, DocumentsAssumption DEF Statements, Declared, db, DInv
  <2> HIDE DEF expected
  <2> DEFINE half == <<"delete", i, 0, expected>>
  <2>3. half \in Between /\ between' = [between EXCEPT ![c] = half] /\ \A j \in Ids : Sent(c, j)'
    BY <1>4, <2>1, <2>2, OneSent
  <2>4. retired' \subseteq Ids /\ stamp' \in [Ids -> 0..MaxWrites] BY <2>1 DEF DInv, TypeOK
  <2> HIDE DEF half
  <2> QED BY <1>1, <2>1, <2>3, <2>4, AskStep
<1> QED BY <1>2, <1>3

LEMMA DeleteRowStep ==
  ASSUME DInv, NEW c \in Clients, NEW i \in Ids, DeleteRow(c, i)
  PROVE  DInv'
<1>1. Half(c, "delete", i) BY DEF DeleteRow
<1>2. i \in retired /\ Declared(c) /\ scope[c] = "write"
  BY <1>1, NoHalf DEF DInv, Halves, Sent, ScopesInv, Quiet
<1>3. CASE Lockable(c, i) /\ Put(c, i, Absent)
  BY <1>2, <1>3, WriteStep
<1>4. CASE Fail(c, "conflict")
  BY <1>4, FailStep DEF Errors
<1>5. CASE /\ between' = [between EXCEPT ![c] = Idle]
           /\ UNCHANGED <<db, scope, failed, snap, mine, making, basis, history>>
  <2>1. UNCHANGED <<db, scope, failed, snap, mine, making, basis, stamp, retired, published, looked, said>>
    BY <1>5 DEF history
  <2>2. Halves' /\ between' \in [Clients -> Between] BY <1>5, <2>1, IdleStep DEF DInv, db
  <2>3. TypeOK' BY <2>1, <2>2 DEF DInv, TypeOK, Between, db
  <2>4. \A d \in Clients : between'[d] = between[d] \/ between'[d] = Idle
    BY <1>5 DEF DInv, TypeOK
  <2> QED BY <2>1, <2>2, <2>3, <2>4, QuietStep
<1> QED BY <1>3, <1>4, <1>5 DEF DeleteRow

(* A scope forgets what it wrote and locked, whatever became of it.          *)
LEMMA Forgotten ==
  ASSUME DInv, NEW c \in Clients, Forget(c)
  PROVE  /\ scope' = [scope EXCEPT ![c] = "none"] /\ failed' = failed \ {c}
         /\ making' = making \ {c} /\ looked' = looked \ {c}
         /\ snap' = [snap EXCEPT ![c] = Unread] /\ mine' = [mine EXCEPT ![c] = Nowhere]
         /\ between' = [between EXCEPT ![c] = Idle] /\ said' = [said EXCEPT ![c] = "none"]
         /\ scope'[c] = "none" /\ snap'[c] = Unread /\ mine'[c] = Nowhere /\ between'[c] = Idle
         /\ \A d \in Others(c) :
              /\ scope'[d] = scope[d] /\ snap'[d] = snap[d] /\ mine'[d] = mine[d]
              /\ between'[d] = between[d] /\ (d \in making' <=> d \in making)
BY DEF Forget, DInv, TypeOK, Others

LEMMA EndStep ==
  ASSUME DInv, NEW c \in Clients, Forget(c),
         mode' = mode, made' \in BOOLEAN, docs' \in [Ids -> Doc \cup {Absent}],
         basis' \in [Clients -> [Ids -> Doc \cup {Absent}]],
         published' \subseteq Ids \X Doc, UNCHANGED <<stamp, retired>>,
         docs' = docs \/ scope[c] = "write", made => made',
         \A d \in Others(c) : basis'[d] = basis[d],
         Unmade', ChainInv', HandedInv'
  PROVE  DInv'
<1> USE Forgotten
<1>1. TypeOK'
  <2>1. Nowhere \in [Ids -> Doc \cup {Absent, Untouched}] BY DEF Nowhere
  <2>2. /\ scope' = [scope EXCEPT ![c] = "none"] /\ snap' = [snap EXCEPT ![c] = Unread]
        /\ mine' = [mine EXCEPT ![c] = Nowhere] /\ between' = [between EXCEPT ![c] = Idle]
        /\ failed' = failed \ {c} /\ making' = making \ {c} /\ looked' = looked \ {c}
    OBVIOUS
  <2>3. scope' \in [Clients -> {"none", "read", "write"}] BY <2>2 DEF DInv, TypeOK
  <2>4. snap' \in [Clients -> [Ids -> Doc \cup {Absent}] \cup {Unread}] BY <2>2 DEF DInv, TypeOK
  <2>5. mine' \in [Clients -> [Ids -> Doc \cup {Absent, Untouched}]] BY <2>1, <2>2 DEF DInv, TypeOK
  <2>6. between' \in [Clients -> Between] BY <2>2 DEF DInv, TypeOK, Between
  <2>7. said' \in [Clients -> Errors] BY DEF DInv, TypeOK, Errors
  <2> QED BY <2>2, <2>3, <2>4, <2>5, <2>6, <2>7 DEF DInv, TypeOK, Between
<1>2. Quiet' BY DEF DInv, ScopesInv, Quiet, Others
<1>3. Writers' BY DEF DInv, ScopesInv, Writers, Others
<1>4. Views'
  <2> SUFFICES ASSUME NEW d \in Clients, scope'[d] = "write"
               PROVE  snap'[d] = IF mode = "pg" THEN Unread ELSE docs'
    BY DEF Views
  <2>1. d \in Others(c) BY DEF Others
  <2>2. snap[d] = IF mode = "pg" THEN Unread ELSE docs
    BY <2>1 DEF DInv, ScopesInv, Views, Others
  <2>3. mode = "pg" \/ docs' = docs
    BY <2>1 DEF DInv, ScopesInv, Writers, Others
  <2> QED BY <2>1, <2>2, <2>3
<1>5. Lookers' BY DEF DInv, TypeOK, ScopesInv, Lookers, Others
<1>6. Locks' BY Outside DEF DInv, Locks, Others
<1>7. Halves'
  <2> SUFFICES ASSUME NEW d \in Clients, NEW i \in Ids PROVE Sent(d, i)'
    BY DEF Halves
  <2>1. CASE d = c BY <2>1 DEF Sent, Inserting, Half
  <2>2. CASE d # c
    <3>1. between'[d] = between[d] /\ basis'[d] = basis[d] /\ (d \in making' <=> d \in making)
      BY <2>2 DEF Others
    <3>2. Sent(d, i) BY DEF DInv, Halves
    <3> QED BY <3>1, <3>2 DEF Sent, Inserting, Half, Body, Expected, Declared
  <2> QED BY <2>1, <2>2
<1> QED BY <1>1, <1>2, <1>3, <1>4, <1>5, <1>6, <1>7 DEF DInv, ScopesInv

LEMMA RollbackStep ==
  ASSUME DInv, NEW c \in Clients, Rollback(c)
  PROVE  DInv'
<1>1. /\ Forget(c) /\ basis' = [basis EXCEPT ![c] = Nothing]
      /\ UNCHANGED <<mode, made, docs, stamp, retired, published>>
  BY DEF Rollback, db
<1> USE <1>1, Forgotten
<1>2. basis' \in [Clients -> [Ids -> Doc \cup {Absent}]]
  BY DEF DInv, TypeOK, Nothing
<1>3. Unmade' BY DEF DInv, Unmade, Others
<1>4. ChainInv'
  <2>1. Latest' /\ Named' BY DEF DInv, ChainInv, Latest, Named, VersionNamesBody
  <2>2. Pending' BY Outside DEF DInv, ChainInv, Pending, Others
  <2>3. Gone' BY Outside DEF DInv, ChainInv, Gone, Others
  <2> QED BY <2>1, <2>2, <2>3 DEF ChainInv
<1>5. HandedInv'
  <2>1. Snaps' BY DEF DInv, HandedInv, Snaps, Others
  <2>2. Bases'
    <3>1. \A d \in Clients, i \in Ids : basis'[d][i] # Absent => d \in Others(c) /\ basis'[d][i] = basis[d][i]
      BY Outside DEF DInv, TypeOK, Others
    <3> QED BY <3>1 DEF DInv, HandedInv, Bases, Others
  <2> QED BY <2>1, <2>2 DEF HandedInv
<1>6. docs \in [Ids -> Doc \cup {Absent}] /\ made \in BOOLEAN /\ published \subseteq Ids \X Doc
      /\ \A d \in Others(c) : basis'[d] = basis[d]
  BY DEF DInv, TypeOK, Others
<1> QED BY <1>2, <1>3, <1>4, <1>5, <1>6, EndStep
(* A commit publishes documents of versions no published one of their IDs     *)
(* has, under IDs no other scope has written.                               *)
LEMMA CommitStep ==
  ASSUME DInv, NEW c \in Clients, Commit(c)
  PROVE  DInv'
<1> DEFINE new == {<<i, mine[c][i]>> : i \in {j \in Ids : mine[c][j] \notin {Absent, Untouched}}}
<1>1. /\ Forget(c) /\ made' = (made \/ c \in making) /\ published' = published \cup new
      /\ docs' = [i \in Ids |-> IF mine[c][i] = Untouched THEN docs[i] ELSE mine[c][i]]
      /\ UNCHANGED <<mode, basis, stamp, retired>>
  BY DEF Commit
<1>2. /\ \A i \in Ids : docs'[i] = IF mine[c][i] = Untouched THEN docs[i] ELSE mine[c][i]
      /\ docs' \in [Ids -> Doc \cup {Absent}]
  BY <1>1 DEF DInv, TypeOK
<1>3. /\ \A p \in new : p[1] \in Ids /\ p[2] \in Doc /\ p[2] = mine[c][p[1]] /\ p = <<p[1], p[2]>>
      /\ \A i \in Ids : mine[c][i] \in Doc => <<i, mine[c][i]>> \in new
      /\ \A p \in published : p[1] \in Ids /\ p[2] \in Doc /\ p = <<p[1], p[2]>>
  BY Outside DEF DInv, TypeOK
<1>4. published' \subseteq Ids \X Doc
  BY <1>1, <1>3 DEF DInv, TypeOK
<1>5. docs' = docs \/ scope[c] = "write"
  <2> SUFFICES ASSUME scope[c] # "write" PROVE docs' = docs
    OBVIOUS
  <2>1. \A i \in Ids : mine[c][i] = Untouched BY Outside DEF DInv, ScopesInv, Quiet
  <2>2. docs \in [Ids -> Doc \cup {Absent}] BY DEF DInv, TypeOK
  <2> QED BY <1>1, <2>1, <2>2
<1> HIDE DEF new
<1>6. Unmade'
  <2> SUFFICES ASSUME ~made, c \notin making
               PROVE  docs' = Nothing /\ published' = {}
                      /\ \A d \in Clients : d \notin making' => mine'[d] = Nowhere
    BY <1>1 DEF Unmade
  <2>1. docs = Nothing /\ published = {} /\ mine[c] = Nowhere
    BY DEF DInv, Unmade
  <2>2. new = {} BY <1>3, <2>1, Outside
  <2>3. docs' = Nothing BY <1>1, <2>1, Outside DEF Nothing, Nowhere
  <2> QED BY <1>1, <2>1, <2>2, <2>3, Forgotten DEF DInv, Unmade, Others
<1>7. ChainInv'
  <2>1. ~ReuseIds => \A p \in published, q \in new : p[1] = q[1] => p[2].version < q[2].version
    BY <1>3 DEF DInv, ChainInv, Pending
  <2>2. \A e \in Doc : e.version \in Nat BY DocumentsAssumption DEF Doc
  <2>3. Named'
    BY <1>1, <1>3, <2>1, <2>2 DEF DInv, ChainInv, Named, VersionNamesBody
  <2>4. Latest'
    <3> SUFFICES ASSUME NEW i \in Ids, docs'[i] # Absent
                 PROVE  /\ <<i, docs'[i]>> \in published'
                        /\ ~ReuseIds => \A p \in published' : p[1] = i => p[2].version <= docs'[i].version
      BY DEF Latest
    <3>1. CASE mine[c][i] = Untouched
      <4>1. docs'[i] = docs[i] BY <1>2, <3>1
      <4>2. \A p \in new : p[1] # i BY <1>3, <3>1, Outside
      <4>3. Latest BY DEF DInv, ChainInv
      <4> QED BY <1>1, <4>1, <4>2, <4>3 DEF Latest
    <3>2. CASE mine[c][i] # Untouched
      <4>1. docs'[i] = mine[c][i] BY <1>2, <3>2
      <4>2. mine[c][i] \in Doc BY <3>2, <4>1 DEF DInv, TypeOK
      <4>3. <<i, mine[c][i]>> \in new BY <1>3, <4>2
      <4>4. ~ReuseIds => \A p \in published : p[1] = i => p[2].version <= mine[c][i].version
        BY <1>3, <2>2, <4>2 DEF DInv, ChainInv, Pending
      <4>5. \A p \in new : p[1] = i => p[2].version <= mine[c][i].version
        BY <1>3, <2>2, <4>2
      <4> QED BY <1>1, <4>1, <4>3, <4>4, <4>5
    <3> QED BY <3>1, <3>2
  <2>5. Pending'
    <3> SUFFICES ASSUME ~ReuseIds, NEW d \in Clients, NEW i \in Ids, mine'[d][i] \in Doc,
                        NEW p \in published', p[1] = i
                 PROVE  p[2].version < mine'[d][i].version
      BY DEF Pending
    <3>1. d \in Others(c) /\ mine'[d] = mine[d]
      BY <1>1, Forgotten, Outside DEF Others
    <3>2. mine[c][i] = Untouched
      BY <3>1, Outside DEF DInv, Locks, Others
    <3>3. p \notin new BY <1>3, <3>2, Outside
    <3>4. p \in published BY <1>1, <3>3
    <3> QED BY <3>1, <3>4 DEF DInv, ChainInv, Pending, Others
  <2>6. Gone'
    <3>1. ASSUME NEW p \in published', docs'[p[1]] = Absent PROVE p[1] \in retired
      <4>1. p[1] \in Ids BY <1>1, <1>3
      <4>2. CASE mine[c][p[1]] = Untouched
        <5>1. docs[p[1]] = Absent /\ p \notin new BY <1>2, <1>3, <3>1, <4>1, <4>2, Outside
        <5> QED BY <1>1, <5>1 DEF DInv, ChainInv, Gone
      <4>3. CASE mine[c][p[1]] # Untouched
        <5>1. mine[c][p[1]] = Absent BY <1>2, <3>1, <4>1, <4>3
        <5> QED BY <4>1, <5>1 DEF DInv, ChainInv, Gone
      <4> QED BY <4>2, <4>3
    <3>2. ASSUME NEW d \in Clients, NEW i \in Ids, mine'[d][i] = Absent PROVE i \in retired
      <4>1. d \in Others(c) /\ mine'[d] = mine[d]
        BY <1>1, <3>2, Forgotten, Outside DEF Others
      <4> QED BY <3>2, <4>1 DEF DInv, ChainInv, Gone, Others
    <3> QED BY <1>1, <3>1, <3>2 DEF Gone
  <2> QED BY <2>3, <2>4, <2>5, <2>6 DEF ChainInv
<1>8. HandedInv'
  <2>1. Snaps'
    BY <1>1, Forgotten DEF DInv, HandedInv, Snaps, Others
  <2>2. Bases'
    <3> SUFFICES ASSUME NEW d \in Clients, NEW i \in Ids, basis[d][i] # Absent
                 PROVE  <<i, basis[d][i]>> \in published' \/ basis[d][i] = mine'[d][i]
      BY <1>1 DEF Bases
    <3>1. <<i, basis[d][i]>> \in published \/ basis[d][i] = mine[d][i]
      BY DEF DInv, HandedInv, Bases
    <3>2. basis[d][i] \in Doc BY DEF DInv, TypeOK
    <3>3. CASE d = c BY <1>1, <1>3, <3>1, <3>2, <3>3
    <3>4. CASE d # c BY <1>1, <3>1, <3>4, Forgotten DEF Others
    <3> QED BY <3>3, <3>4
  <2> QED BY <2>1, <2>2 DEF HandedInv
<1>9. made' \in BOOLEAN /\ basis' \in [Clients -> [Ids -> Doc \cup {Absent}]]
  BY <1>1 DEF DInv, TypeOK
<1> QED BY <1>1, <1>2, <1>4, <1>5, <1>6, <1>7, <1>8, <1>9, EndStep
LEMMA DStep ==
  ASSUME DInv, [Next]_vars
  PROVE  DInv'
<1>1. ASSUME NEW c \in Clients, NEW kind \in {"read", "write"}, Begin(c, kind) PROVE DInv'
  BY <1>1, BeginStep
<1>2. ASSUME NEW c \in Clients, WriteInReadScope(c) \/ LockTimeout(c) PROVE DInv'
  BY <1>2, FailStep DEF WriteInReadScope, LockTimeout, Errors
<1>3. ASSUME NEW c \in Clients, NEW i \in Ids,
             Get(c, i) \/ Insert(c, i) \/ Look(c, i) \/ Create(c, i) \/ InsertRow(c, i)
               \/ UpdateRow(c, i) \/ DeleteRow(c, i)
      PROVE  DInv'
  BY <1>3, GetStep, InsertStep, LookStep, CreateStep, InsertRowStep, UpdateRowStep, DeleteRowStep
<1>4. ASSUME NEW c \in Clients, NEW i \in Ids, Diagnose(c, i) PROVE DInv'
  <2>1. Diagnosed(Seen(c, i)) \in Errors BY DEF Diagnosed, Errors
  <2> QED BY <1>4, <2>1, FailStep DEF Diagnose
<1>5. ASSUME NEW c \in Clients, NEW i \in Ids, NEW conditional \in BOOLEAN,
             Replace(c, i, conditional) \/ Delete(c, i, conditional)
      PROVE  DInv'
  BY <1>5, ReplaceStep, DeleteStep
<1>6. ASSUME NEW c \in Clients, Commit(c) \/ Rollback(c) PROVE DInv'
  BY <1>6, CommitStep, RollbackStep
<1>7. CASE UNCHANGED vars
  <2>1. /\ UNCHANGED <<db, scope, failed, snap, mine, making, between, basis>>
        /\ UNCHANGED <<stamp, retired, published, looked, said>>
    BY <1>7 DEF vars, db
  <2>2. TypeOK' BY <2>1 DEF DInv, TypeOK, db
  <2>3. Halves' BY <2>1 DEF DInv, Halves, Sent, Inserting, Half, Body, Expected, Declared, db
  <2> QED BY <2>1, <2>2, <2>3, QuietStep
<1> QED BY <1>1, <1>2, <1>3, <1>4, <1>5, <1>6, <1>7 DEF Next, Operation, Statement

LEMMA DInvariant == Spec => []DInv
<1>1. DInv /\ [Next]_vars => DInv' BY DStep
<1> QED BY DInit, <1>1, PTL DEF Spec

-----------------------------------------------------------------------------
(* Versions stay in range and statements between two steps are of write       *)
(* scopes (Collection.replace, Collection.insert).                          *)
THEOREM DocumentTypes == Spec => []TypeOK
<1>1. DInv => TypeOK BY DEF DInv
<1> QED BY DInvariant, <1>1, PTL

(* If deleted IDs are not used again, an ID and a version name one document   *)
(* for good, for any number of clients (Collection.insert,                   *)
(* Collection.replace).                                                     *)
THEOREM VersionsAreNames == ASSUME ~ReuseIds PROVE Spec => []VersionNamesBody
<1>1. DInv => VersionNamesBody BY DEF DInv, ChainInv, Named
<1> QED BY DInvariant, <1>1, PTL

(* BEGIN IMMEDIATE: nothing is committed behind a write scope of SQLite        *)
(* (Backend.begin).                                                         *)
THEOREM WritersSeeLatest == Spec => []WriterSeesLatest
<1>1. DInv => WriterSeesLatest BY DEF DInv, ScopesInv, Views, WriterSeesLatest, SnapOf
<1> QED BY DInvariant, <1>1, PTL

(* If deleted IDs are not used again, a conditional write overwrites the      *)
(* document its caller was handed (Collection.replace, Store.delete).        *)
THEOREM UpdatesAreKept == ASSUME ~ReuseIds PROVE Spec => NoLostUpdate
<1>1. DInv =>
        [\A c \in Clients, i \in Ids :
           (UpdateRow(c, i) \/ DeleteRow(c, i)) /\ Expected(c) # Any /\ mine'[c] # mine[c] =>
             Seen(c, i) = basis[c][i]]_vars
  <2> SUFFICES ASSUME DInv, NEW c \in Clients, NEW i \in Ids,
                      UpdateRow(c, i) \/ DeleteRow(c, i), Expected(c) # Any, mine'[c] # mine[c]
               PROVE  Seen(c, i) = basis[c][i]
    OBVIOUS
  <2>1. scope[c] = "write" /\ basis[c][i] # Absent
    BY NoHalf DEF UpdateRow, DeleteRow, DInv, ScopesInv, Quiet, Halves, Sent
  <2>2. Matches(Seen(c, i), Expected(c)) /\ Expected(c) = basis[c][i].version
    <3>1. Matches(Seen(c, i), Expected(c))
      BY DEF UpdateRow, Updates, DeleteRow, Fail, history
    <3>2. Half(c, "replace", i) \/ Half(c, "delete", i) BY DEF UpdateRow, DeleteRow
    <3> QED BY <3>1, <3>2 DEF DInv, Halves, Sent
  <2>3. Seen(c, i) # Absent /\ Seen(c, i).version = basis[c][i].version
    BY <2>2 DEF Matches
  <2>4. Seen(c, i) = IF mine[c][i] = Untouched THEN docs[i] ELSE mine[c][i]
    BY <2>1, WriterSees
  <2>5. basis[c][i] \in Doc /\ Seen(c, i) \in Doc
    BY <2>1, <2>3, SeenType DEF DInv, TypeOK
  <2>6. <<i, basis[c][i]>> \in published \/ basis[c][i] = mine[c][i]
    BY <2>1 DEF DInv, HandedInv, Bases
  <2>7. CASE mine[c][i] = Untouched
    <3>1. <<i, basis[c][i]>> \in published BY <2>5, <2>6, <2>7, Outside
    <3>2. <<i, Seen(c, i)>> \in published
      BY <2>3, <2>4, <2>7 DEF DInv, ChainInv, Latest
    <3>3. VersionNamesBody BY DEF DInv, ChainInv, Named
    <3> QED BY <2>3, <3>1, <3>2, <3>3 DEF VersionNamesBody
  <2>8. CASE mine[c][i] # Untouched
    <3>1. Seen(c, i) = mine[c][i] BY <2>4, <2>8
    <3>2. CASE basis[c][i] = mine[c][i] BY <3>1, <3>2
    <3>3. CASE <<i, basis[c][i]>> \in published
      <4>1. basis[c][i].version < Seen(c, i).version
        BY <2>5, <3>1, <3>3 DEF DInv, ChainInv, Pending
      <4>2. basis[c][i].version \in Nat /\ Seen(c, i).version \in Nat
        BY <2>5, DocumentsAssumption DEF Doc
      <4> QED BY <2>3, <4>1, <4>2
    <3> QED BY <2>6, <3>2, <3>3
  <2> QED BY <2>7, <2>8
<1> QED BY <1>1, DInvariant, PTL DEF NoLostUpdate

(* A read scope sees one state, whatever others commit (Backend.begin).       *)
THEOREM ReadsAreStable == Spec => ReadScopeStable
<1>1. DInv /\ [Next]_vars =>
        [\A c \in Clients : c \in looked /\ c \in looked' => \A i \in Ids : Seen(c, i)' = Seen(c, i)]_vars
  <2> SUFFICES ASSUME DInv, [Next]_vars, NEW c \in Clients, c \in looked, c \in looked', NEW i \in Ids
               PROVE  Seen(c, i)' = Seen(c, i)
    OBVIOUS
  <2>1. /\ scope[c] = "read" /\ snap[c] # Unread /\ mine[c] = Nowhere /\ between[c] = Idle
    BY DEF DInv, ScopesInv, Lookers, Quiet
  <2>2. DInv' BY DStep
  <2>3. /\ scope'[c] = "read" /\ mine'[c] = Nowhere
    BY <2>2 DEF DInv, ScopesInv, Lookers, Quiet, TypeOK
  <2>4. snap'[c] = snap[c]
    <3>1. SnapOf(c) = snap[c] /\ ~ReadsCommitted(c) BY <2>1 DEF SnapOf, ReadsCommitted
    <3>2. ASSUME NEW d \in Clients, NEW j \in Ids, Get(d, j) PROVE snap'[c] = snap[c]
      BY <3>1, <3>2 DEF Get, DInv, TypeOK
    <3>3. ASSUME NEW d \in Clients, NEW kind \in {"read", "write"}, Begin(d, kind) PROVE snap'[c] = snap[c]
      BY <2>1, <3>3 DEF Begin, DInv, TypeOK
    <3>4. ASSUME NEW d \in Clients, Commit(d) \/ Rollback(d) PROVE snap'[c] = snap[c]
      BY <3>4, Forgotten DEF Commit, Rollback, Others
    <3>5. ASSUME NEW d \in Clients, WriteInReadScope(d) \/ LockTimeout(d) PROVE snap' = snap
      BY <3>5 DEF WriteInReadScope, LockTimeout, Fail
    <3>6. ASSUME NEW d \in Clients, NEW j \in Ids,
                 \/ Insert(d, j) \/ Look(d, j) \/ Create(d, j) \/ InsertRow(d, j)
                 \/ UpdateRow(d, j) \/ Diagnose(d, j) \/ DeleteRow(d, j)
          PROVE  snap' = snap
      BY <3>6 DEF Insert, Look, Create, InsertRow, UpdateRow, Diagnose, DeleteRow, Fail, Put
    <3>7. ASSUME NEW d \in Clients, NEW j \in Ids, NEW conditional \in BOOLEAN,
                 Replace(d, j, conditional) \/ Delete(d, j, conditional)
          PROVE  snap' = snap
      BY <3>7 DEF Replace, Delete, Fail
    <3>8. CASE UNCHANGED vars BY <3>8 DEF vars
    <3> QED BY <3>2, <3>3, <3>4, <3>5, <3>6, <3>7, <3>8 DEF Next, Operation, Statement
  <2>5. Nowhere[i] = Untouched BY Outside
  <2> QED BY <2>1, <2>3, <2>4, <2>5 DEF Seen, SnapOf
<1> QED BY <1>1, DInvariant, PTL DEF Spec, ReadScopeStable
=============================================================================
