-------------------------- MODULE SeedRefreshProofs --------------------------
(***************************************************************************)
(* The version in seed_metadata never goes back while refreshes do not     *)
(* overlap and can read it, and promises no more than the tables hold.     *)
(***************************************************************************)
EXTENDS SeedRefresh, TLAPS

BootStates == [pc : {"start", "rows", "hashes", "version", "up"}, k : Nat, rows : SUBSET RowIds]

CallStates == [pc : {"idle", "next", "rows"}, release : Versions, left : SUBSET Names,
               name : Names \cup {NoName}, rows : SUBSET RowIds, failed : BOOLEAN]

\* A call only has entries of its own manifest before it.
LeftOver(s) == s.left \subseteq DOMAIN Releases[s.release]

Shape ==
  /\ version \in 0..Newest /\ overlapped \in BOOLEAN
  /\ boot \in BootStates
  /\ call \in [Calls -> CallStates]
  /\ \A c \in Calls : LeftOver(call[c])

Active(c) == call[c].pc # "idle"

\* There is no call before the start-up is over, and a start-up that could read the
\* version writes nothing once there is one.
BootFirst ==
  /\ boot.pc # "up" => \A c \in Calls : ~Active(c)
  /\ boot.pc \in {"rows", "hashes", "version"} /\ ~blind => version = 0

\* A call that has the tables to itself and could read the version still holds a
\* newer release than the version it compared with.
Ahead ==
  ~overlapped => /\ \A c, d \in Calls : Active(c) /\ Active(d) => c = d
                 /\ ~blind => \A c \in Calls : Active(c) => call[c].release > version

SeedInv == Shape /\ BootFirst /\ Ahead

\* The versions are numbers from 1 on, and so is the newest.
LEMMA VersionRange ==
  /\ Newest \in Nat \ {0} /\ Versions = 1..Newest /\ Embedded \in Versions
  /\ 0..Newest \subseteq Nat
  BY SeedAssumption DEF Newest, Versions, Embedded

\* The rows of a release's file have row ids, and its entries have names.
LEMMA FileRows ==
  ASSUME NEW v \in Versions, NEW name \in DOMAIN Releases[v]
  PROVE  name \in Names /\ DOMAIN Releases[v][name] \subseteq RowIds
  BY SeedAssumption DEF RowIds

\* The embedded release has a file for every table (apply_all_entries).
LEMMA EmbeddedRows ==
  ASSUME NEW k \in DOMAIN Tables
  PROVE  DOMAIN EmbeddedFile(Tables[k]) \subseteq RowIds
<1>1. \E name \in Names : TableOf(name) = Tables[k]
  BY DEF Names, TableOf, Tables
<1>2. (CHOOSE name \in Names : TableOf(name) = Tables[k]) \in DOMAIN Releases[Embedded]
  BY <1>1, SeedAssumption
<1>3. Embedded \in Versions
  BY SeedAssumption DEF Embedded, Versions
<1> QED
  BY <1>2, <1>3, FileRows DEF EmbeddedFile, NameFor

\* A call that has not begun has the shape of one that may.
LEMMA IdleShape == Idle \in CallStates /\ Idle.pc = "idle" /\ LeftOver(Idle)
<1>1. Embedded \in Versions
  BY SeedAssumption DEF Embedded, Versions
<1> QED
  BY <1>1 DEF Idle, CallStates, LeftOver

\* The first start begins with no calls and no version.
LEMMA InitHolds == Init => SeedInv
<1> SUFFICES ASSUME Init PROVE SeedInv
  OBVIOUS
<1>0. 0 \in 0..Newest
  BY VersionRange
<1>1. Shape
  BY <1>0, IdleShape DEF Init, Shape, BootStates
<1>2. \A c \in Calls : ~Active(c)
  BY IdleShape DEF Init, Active
<1>3. boot.pc = "start"
  BY DEF Init
<1> QED
  BY <1>1, <1>2, <1>3 DEF SeedInv, BootFirst, Ahead

\* A step of seed_init keeps the invariant: there is no call, and the version is
\* written only where there was none.
LEMMA BootKeeps ==
  ASSUME SeedInv, BootStep \/ SeedInit(FALSE) \/ InitFails \/ Crash
  PROVE  SeedInv' /\ (~blind' => version' >= version)
<1> USE DEF SeedInv
<1>0. version \in Nat
  BY VersionRange DEF Shape
<1>1. CASE \E read \in BOOLEAN : SeedInit(read)
  <2>0. PICK read \in BOOLEAN : SeedInit(read)
    BY <1>1
  <2>1. 1 \in DOMAIN Tables
    BY DEF Tables
  <2>2. boot' \in BootStates /\ boot'.pc \in {"up", "rows"}
    BY <2>0, <2>1, EmbeddedRows DEF SeedInit, BootDone, BootStates
  <2>3. boot'.pc = "rows" /\ ~blind' => version = 0
    <3>1. CASE read = TRUE
      BY <1>0, <2>0, <3>1 DEF SeedInit, BootDone, LocalVersion
    <3>2. CASE read = FALSE
      BY <2>0, <3>2 DEF SeedInit, ReadVersion
    <3> QED
      BY <3>1, <3>2
  <2>4. UNCHANGED <<version, call, overlapped>> /\ boot.pc = "start"
    BY <2>0 DEF SeedInit, metadata
  <2> QED
    BY <1>0, <2>2, <2>3, <2>4 DEF Shape, BootFirst, Ahead, Active
<1>2. CASE InitRow
  <2>1. boot' \in BootStates /\ boot'.pc = "rows" /\ boot.pc = "rows"
    BY <1>2 DEF InitRow, BootStates, Shape
  <2>2. UNCHANGED <<version, call, blind, overlapped>>
    BY <1>2 DEF InitRow, metadata
  <2> QED
    BY <1>0, <2>1, <2>2 DEF Shape, BootFirst, Ahead, Active
<1>3. CASE InitNextFile
  <2>1. boot.k < Len(Tables) => boot.k + 1 \in DOMAIN Tables
    BY DEF Tables, Shape, BootStates
  <2>2. boot' \in BootStates /\ boot'.pc \in {"rows", "hashes"} /\ boot.pc = "rows"
    BY <1>3, <2>1, EmbeddedRows DEF InitNextFile, BootStates, Shape
  <2>3. UNCHANGED <<version, call, blind, overlapped>>
    BY <1>3 DEF InitNextFile, metadata, history
  <2> QED
    BY <1>0, <2>2, <2>3 DEF Shape, BootFirst, Ahead, Active
<1>4. CASE InitHash
  <2>1. boot' \in BootStates /\ boot'.pc \in {"hashes", "version"} /\ boot.pc = "hashes"
    BY <1>4 DEF InitHash, BootStates, Shape
  <2>2. UNCHANGED <<version, call, blind, overlapped>>
    BY <1>4 DEF InitHash
  <2> QED
    BY <1>0, <2>1, <2>2 DEF Shape, BootFirst, Ahead, Active
<1>5. CASE InitVersion
  <2>1. boot' \in BootStates /\ boot'.pc = "up" /\ boot.pc = "version"
    BY <1>5 DEF InitVersion, BootDone, BootStates
  <2>2. UNCHANGED <<call, blind, overlapped>> /\ version' = 1 /\ 1 \in 0..Newest
    BY <1>5, VersionRange DEF InitVersion, Embedded
  <2> QED
    BY <1>0, <2>1, <2>2 DEF Shape, BootFirst, Ahead, Active
<1>6. CASE InitFails
  <2>1. boot' \in BootStates /\ boot'.pc = "up" /\ boot.pc # "up"
    BY <1>6 DEF InitFails, BootDone, BootStates
  <2>2. UNCHANGED <<version, call, blind, overlapped>>
    BY <1>6 DEF InitFails, metadata, history
  <2> QED
    BY <1>0, <2>1, <2>2 DEF Shape, BootFirst, Ahead, Active
<1>7. CASE Crash
  <2>1. boot' \in BootStates /\ boot'.pc = "start"
    BY <1>7 DEF Crash, BootStates
  <2>2. UNCHANGED <<version, blind, overlapped>>
    BY <1>7 DEF Crash, metadata, history
  <2>3. call' \in [Calls -> CallStates] /\ \A c \in Calls : call'[c] = Idle
    BY <1>7, IdleShape DEF Crash
  <2> QED
    BY <1>0, <2>1, <2>2, <2>3, IdleShape DEF Shape, BootFirst, Ahead, Active
<1> QED
  BY <1>1, <1>2, <1>3, <1>4, <1>5, <1>6, <1>7 DEF BootStep

\* A step of a call that leaves it active with its release, or ends it, and leaves
\* the version alone, keeps the invariant.
LEMMA CallMoves ==
  ASSUME SeedInv, NEW c \in Calls, Active(c), NEW s \in CallStates, LeftOver(s),
         s.release = call[c].release \/ s.pc = "idle",
         call' = [call EXCEPT ![c] = s],
         boot' = boot, UNCHANGED <<blind, overlapped, version>>
  PROVE  SeedInv'
<1>1. Shape'
  BY DEF SeedInv, Shape
<1>2. BootFirst'
  BY DEF SeedInv, Shape, BootFirst, Active
<1>3. \A d \in Calls : Active(d)' => Active(d) /\ call'[d].release = call[d].release
  BY DEF SeedInv, Shape, Active
<1>4. Ahead'
  BY <1>3 DEF SeedInv, Ahead
<1> QED
  BY <1>1, <1>2, <1>4 DEF SeedInv

\* A step of seed_refresh keeps the invariant, and while no other call ran beside
\* it and it could read the version, the version it writes is not an older one.
LEMMA CallKeeps ==
  ASSUME SeedInv, NEW c \in Calls,
         \/ CallStep(c) \/ FetchOrStatementFails(c) \/ FinishFails(c)
         \/ \E name \in Names : RefetchEntry(c, name)
  PROVE  SeedInv' /\ (~overlapped' /\ ~blind' => version' >= version)
<1>1. call \in [Calls -> CallStates] /\ call[c] \in CallStates /\ version \in Nat
      /\ LeftOver(call[c])
  BY VersionRange DEF SeedInv, Shape
<1>2. CASE \E n \in Names : SkipEntry(c, n)
  <2> PICK n \in Names : SkipEntry(c, n)
    BY <1>2
  <2> DEFINE s == [call[c] EXCEPT !.left = @ \ {n}]
  <2>1. s \in CallStates /\ s.release = call[c].release /\ Active(c) /\ LeftOver(s)
    BY <1>1 DEF SkipEntry, CallStates, Active, LeftOver
  <2>2. /\ call' = [call EXCEPT ![c] = s] /\ boot' = boot
        /\ UNCHANGED <<blind, overlapped, version>>
    BY <1>1 DEF SkipEntry, metadata, history
  <2> HIDE DEF s
  <2>3. SeedInv'
    BY <1>1, <2>1, <2>2, CallMoves
  <2>4. version' >= version
    BY <1>1, <2>2
  <2> QED
    BY <2>3, <2>4
<1>3. CASE \E n \in Names : FetchEntry(c, n) \/ RefetchEntry(c, n)
  <2> PICK n \in Names : FetchEntry(c, n) \/ RefetchEntry(c, n)
    BY <1>3
  <2> DEFINE s == [call[c] EXCEPT !.pc = "rows", !.left = @ \ {n}, !.name = n,
                                  !.rows = DOMAIN File(c, n)]
  <2>1. DOMAIN File(c, n) \subseteq RowIds
    BY <1>1, FileRows DEF FetchEntry, RefetchEntry, Fetched, CallStates, File, LeftOver
  <2>2. s \in CallStates /\ s.release = call[c].release /\ Active(c) /\ LeftOver(s)
    BY <1>1, <2>1 DEF FetchEntry, RefetchEntry, Fetched, CallStates, Active, LeftOver
  <2>3. /\ call' = [call EXCEPT ![c] = s] /\ boot' = boot
        /\ UNCHANGED <<blind, overlapped, version>>
    BY <1>1 DEF FetchEntry, RefetchEntry, Fetched, metadata, history
  <2> HIDE DEF s
  <2>4. SeedInv'
    BY <1>1, <2>2, <2>3, CallMoves
  <2>5. version' >= version
    BY <1>1, <2>3
  <2> QED
    BY <2>4, <2>5
<1>4. CASE UpsertRow(c)
  <2> DEFINE s == [call[c] EXCEPT !.rows = @ \ {Smallest(call[c].rows)}]
  <2>1. s \in CallStates /\ s.release = call[c].release /\ Active(c) /\ LeftOver(s)
    BY <1>1, <1>4 DEF UpsertRow, CallStates, Active, LeftOver
  <2>2. /\ call' = [call EXCEPT ![c] = s] /\ boot' = boot
        /\ UNCHANGED <<blind, overlapped, version>>
    BY <1>1, <1>4 DEF UpsertRow, metadata
  <2> HIDE DEF s
  <2>3. SeedInv'
    BY <1>1, <2>1, <2>2, CallMoves
  <2>4. version' >= version
    BY <1>1, <2>2
  <2> QED
    BY <2>3, <2>4
<1>5. CASE RowRefused(c) \/ FetchOrStatementFails(c)
  <2> DEFINE s == [call[c] EXCEPT !.pc = "next", !.name = NoName, !.rows = {}, !.failed = TRUE]
  <2>1. s \in CallStates /\ s.release = call[c].release /\ Active(c) /\ LeftOver(s)
    BY <1>1, <1>5 DEF RowRefused, FetchOrStatementFails, CallStates, Active, LeftOver
  <2>2. /\ call' = [call EXCEPT ![c] = s] /\ boot' = boot
        /\ UNCHANGED <<blind, overlapped, version>>
    BY <1>1, <1>5 DEF RowRefused, FetchOrStatementFails, EntryFails, metadata, history
  <2> HIDE DEF s
  <2>3. SeedInv'
    BY <1>1, <2>1, <2>2, CallMoves
  <2>4. version' >= version
    BY <1>1, <2>2
  <2> QED
    BY <2>3, <2>4
<1>6. CASE StoreHash(c)
  <2> DEFINE s == [call[c] EXCEPT !.pc = "next", !.name = NoName]
  <2>1. s \in CallStates /\ s.release = call[c].release /\ Active(c) /\ LeftOver(s)
    BY <1>1, <1>6 DEF StoreHash, CallStates, Active, LeftOver
  <2>2. /\ call' = [call EXCEPT ![c] = s] /\ boot' = boot
        /\ UNCHANGED <<blind, overlapped, version>>
    BY <1>1, <1>6 DEF StoreHash
  <2> HIDE DEF s
  <2>3. SeedInv'
    BY <1>1, <2>1, <2>2, CallMoves
  <2>4. version' >= version
    BY <1>1, <2>2
  <2> QED
    BY <2>3, <2>4
<1>7. CASE FinishFails(c)
  <2>1. Active(c)
    BY <1>7 DEF FinishFails, Active
  <2>2. /\ call' = [call EXCEPT ![c] = Idle] /\ boot' = boot
        /\ UNCHANGED <<blind, overlapped, version>>
    BY <1>7 DEF FinishFails, metadata, history
  <2>3. SeedInv'
    BY <1>1, <2>1, <2>2, IdleShape, CallMoves
  <2>4. version' >= version
    BY <1>1, <2>2
  <2> QED
    BY <2>3, <2>4
<1>8. CASE FinishRefresh(c)
  <2>1. Active(c)
    BY <1>8 DEF FinishRefresh, Active
  <2>2. call' = [call EXCEPT ![c] = Idle] /\ UNCHANGED <<boot, blind, overlapped>>
        /\ version' \in {version, call[c].release}
    BY <1>8 DEF FinishRefresh
  <2>3. call[c].release \in Nat /\ call[c].release \in 0..Newest
    BY <1>1, VersionRange DEF CallStates
  <2>4. /\ ~overlapped => \A d \in Calls : ~Active(d)'
        /\ ~overlapped /\ ~blind => version' >= version
    BY <1>1, <2>1, <2>2, <2>3, IdleShape DEF SeedInv, Ahead, Active
  <2>5. Shape'
    BY <1>1, <2>2, <2>3, IdleShape DEF SeedInv, Shape
  <2>6. boot.pc = "up"
    BY <2>1 DEF SeedInv, BootFirst
  <2> QED
    BY <2>2, <2>4, <2>5, <2>6 DEF SeedInv, BootFirst, Ahead
<1> QED
  BY <1>2, <1>3, <1>4, <1>5, <1>6, <1>7, <1>8 DEF CallStep

\* A new call was compared with the version there is.
LEMMA StartKeeps ==
  ASSUME SeedInv, NEW c \in Calls, NEW v \in Versions, NEW read \in BOOLEAN,
         StartRefresh(c, v, read)
  PROVE  SeedInv' /\ version' >= version
<1>0. version \in Nat /\ v \in Nat
  BY VersionRange DEF SeedInv, Shape
<1> DEFINE s == [Idle EXCEPT !.pc = "next", !.release = v, !.left = DOMAIN Releases[v]]
<1>1. s \in CallStates /\ s.release = v /\ LeftOver(s)
  BY IdleShape, SeedAssumption DEF CallStates, LeftOver, Versions
<1>2. /\ call' = [call EXCEPT ![c] = s] /\ UNCHANGED <<boot, version>> /\ boot.pc = "up"
      /\ overlapped' = (overlapped \/ \E d \in Calls : Active(d)) /\ (~blind' => v > version)
  BY <1>0 DEF StartRefresh, IsNewer, ReadVersion, LocalVersion, Active, metadata
<1> HIDE DEF s
<1>3. Shape'
  BY <1>1, <1>2 DEF SeedInv, Shape
<1>4. ~overlapped' => \A d \in Calls \ {c} : ~Active(d)'
  BY <1>2 DEF SeedInv, Shape, Active
<1>5. ~blind' => call'[c].release > version'
  BY <1>1, <1>2 DEF SeedInv, Shape
<1>6. Ahead'
  BY <1>4, <1>5 DEF Ahead
<1> QED
  BY <1>0, <1>2, <1>3, <1>6 DEF SeedInv, BootFirst

\* Every step keeps the invariant and, in the absence of an overlap, the version.
LEMMA StepKeeps ==
  ASSUME SeedInv, [Next]_vars
  PROVE  SeedInv' /\ (~overlapped' /\ ~blind' => version' >= version)
<1>1. CASE BootStep \/ SeedInit(FALSE) \/ InitFails \/ Crash
  BY <1>1, BootKeeps
<1>2. CASE \E c \in Calls : \/ CallStep(c) \/ FetchOrStatementFails(c) \/ FinishFails(c)
                           \/ \E name \in Names : RefetchEntry(c, name)
  BY <1>2, CallKeeps
<1>3. CASE \E c \in Calls, v \in Versions, read \in BOOLEAN : StartRefresh(c, v, read)
  BY <1>3, StartKeeps
<1>4. CASE \/ \E c \in Calls : ManifestFails(c) \/ \E v \in Versions : UpToDate(c, v)
           \/ UNCHANGED vars
  <2>1. UNCHANGED <<version, boot, call, blind, overlapped>>
    BY <1>4 DEF ManifestFails, UpToDate, vars, metadata
  <2> QED
    BY <2>1, VersionRange DEF SeedInv, Shape, BootFirst, Ahead, Active
<1> QED
  BY <1>1, <1>2, <1>3, <1>4 DEF Next

\* seed_metadata.version never goes back while refreshes do not overlap, for any
\* releases, calls, failures and crashes (the "Reject downgrade" test of
\* seed_refresh, which is made long before the version is written), unless the
\* start-up or refresh that writes it could not read the one that was there.
THEOREM VersionMonotone == Spec => NoDowngrade
<1>1. Init => SeedInv
  BY InitHolds
<1>2. SeedInv /\ [Next]_vars => SeedInv'
  BY StepKeeps
<1>3. SeedInv /\ [Next]_vars => [~overlapped' /\ ~blind' => version' >= version]_vars
  BY StepKeeps
<1> QED
  BY <1>1, <1>2, <1>3, PTL DEF Spec, NoDowngrade

-----------------------------------------------------------------------------
(* What the version and the hashes promise *)

\* The manifest names of the tables that are updated.
UpdatedNames == {"channels", "modelMappings"}

\* Rows S of table t have the contents file f gives them.
Holding(t, f, S) == \A i \in S : table[t][i] = f[i]

\* A writer of release r has put file f into rows S, on record where the version
\* there is is a newer one.
Written(t, f, S, r) ==
  \A i \in S : table[t][i] = f[i] /\ (r < version => <<t, i>> \in older)

Settled(t, S) == {i \in S : <<t, i>> \notin torn}

\* seed_init has written the rows of the files it is past, and those of the file it
\* is at that are not left.
BootWrote ==
  \A k \in DOMAIN Tables :
    LET t == Tables[k]
        f == EmbeddedFile(t)
    IN  t \in Upserted =>
          /\ boot.pc \in {"hashes", "version"} => Written(t, f, DOMAIN f, Embedded)
          /\ boot.pc = "rows" /\ k < boot.k => Written(t, f, DOMAIN f, Embedded)
          /\ boot.pc = "rows" /\ k = boot.k => Written(t, f, DOMAIN f \ boot.rows, Embedded)

\* A refresh is at an entry of its manifest and, if it is alone, has written the
\* rows of the file that are not left.
CallWrote ==
  \A c \in Calls : call[c].pc = "rows" =>
    /\ call[c].name \in DOMAIN Releases[call[c].release]
    /\ ~overlapped /\ call[c].name \in UpdatedNames =>
         Written(TableOf(call[c].name), File(c, call[c].name),
                 DOMAIN File(c, call[c].name) \ call[c].rows, call[c].release)

\* ... and until an entry fails, the stored hashes of the entries it is past are
\* those of its release.
CallHashed ==
  ~overlapped => \A c \in Calls :
    Active(c) /\ ~call[c].failed =>
      \A name \in DOMAIN Releases[call[c].release] \ call[c].left :
        (call[c].pc = "rows" /\ name = call[c].name) \/ hash[name] = File(c, name)

\* A stored hash stands for the rows that are there.
HashTruthful ==
  ~overlapped => \A name \in UpdatedNames :
    Holding(TableOf(name), hash[name], Settled(TableOf(name), DOMAIN hash[name]))

\* What the maps are defined on.
TableNames == {Tables[k] : k \in DOMAIN Tables}

Data ==
  /\ table = [t \in TableNames |-> [i \in RowIds |-> table[t][i]]]
  /\ hash = [key \in HashKeys |-> hash[key]]
  /\ \A key \in HashKeys : DOMAIN hash[key] \subseteq RowIds
  /\ boot.k \in DOMAIN Tables

TruthInv ==
  /\ SeedInv /\ Data
  /\ BootWrote /\ CallWrote /\ CallHashed /\ HashTruthful /\ VersionTruthful

-----------------------------------------------------------------------------

\* Tables and manifest names correspond.
LEMMA NamesOfTables ==
  /\ DOMAIN Tables = 1..4
  /\ TableNames = {"providers", "models", "channels", "model_mappings"}
  /\ \A k \in DOMAIN Tables : Tables[k] \in TableNames
  /\ \A t \in TableNames : NameFor(t) \in Names /\ TableOf(NameFor(t)) = t
  /\ \A t \in TableNames : t \in HashKeys
  /\ \A n \in Names : TableOf(n) \in TableNames /\ NameFor(TableOf(n)) = n /\ n \in HashKeys
  /\ \A n \in Names : TableOf(n) \in Upserted <=> n \in UpdatedNames
  /\ UpdatedNames \subseteq Names
  /\ NameFor("channels") = "channels"
<1>1. DOMAIN Tables = 1..4 /\ Len(Tables) = 4
  BY DEF Tables
<1>2. /\ Tables[1] = "providers" /\ Tables[2] = "models" /\ Tables[3] = "channels"
      /\ Tables[4] = "model_mappings"
  BY DEF Tables
<1>3. TableNames = {"providers", "models", "channels", "model_mappings"}
  <2> HIDE DEF Tables
  <2>1. \A k \in 1..4 : k = 1 \/ k = 2 \/ k = 3 \/ k = 4
    OBVIOUS
  <2> QED
    BY <1>1, <1>2, <2>1 DEF TableNames
<1>4. \A n \in Names : TableOf(n) \in TableNames /\ n \in HashKeys
  BY <1>3 DEF Names, TableOf, HashKeys
<1>5. \A t \in TableNames : \E n \in Names : TableOf(n) = t
  BY <1>3 DEF Names, TableOf
<1>6. \A m, n \in Names : TableOf(m) = TableOf(n) => m = n
  BY DEF Names, TableOf
<1>7. \A t \in TableNames : NameFor(t) \in Names /\ TableOf(NameFor(t)) = t
  BY <1>5 DEF NameFor
<1>8. \A n \in Names : NameFor(TableOf(n)) = n
  BY <1>4, <1>6, <1>7
<1>9. NameFor("channels") = "channels"
  <2>1. "channels" \in Names /\ TableOf("channels") = "channels"
    BY DEF Names, TableOf
  <2> QED
    BY <2>1, <1>8
<1>10. \A n \in Names : TableOf(n) \in Upserted <=> n \in UpdatedNames
  BY DEF Names, TableOf, Upserted, UpdatedNames
<1>11. UpdatedNames \subseteq Names /\ \A t \in TableNames : t \in HashKeys
  BY <1>3 DEF UpdatedNames, Names, HashKeys
<1>12. \A k \in DOMAIN Tables : Tables[k] \in TableNames
  BY DEF TableNames
<1> QED
  BY <1>1, <1>3, <1>4, <1>7, <1>8, <1>9, <1>10, <1>11, <1>12

\* One statement of upsert_entry changes one row, and puts it on record as torn if
\* its table is updated.
LEMMA RowPut ==
  ASSUME Data, NEW t \in TableNames, NEW i, NEW c, NEW r, PutRow(t, i, c, r)
  PROVE  /\ table' = [u \in TableNames |-> [j \in RowIds |-> table'[u][j]]]
         /\ \A u \in TableNames : \A j \in RowIds :
              u # t \/ j # i => table'[u][j] = table[u][j]
         /\ t \in Upserted => \A j \in RowIds : j = i => table'[t][j] = c
         /\ torn \subseteq torn'
         /\ t \in Upserted => <<t, i>> \in torn'
         /\ older \subseteq older'
         /\ t \in Upserted /\ r < version => <<t, i>> \in older'
<1> DEFINE new == IF t \in Upserted \/ table[t][i] = Absent THEN c ELSE table[t][i]
<1>1. table' = [table EXCEPT ![t][i] = new]
  BY DEF PutRow
<1>2. /\ torn' = torn \cup (({t} \cap Upserted) \X {i})
      /\ older' = IF r < version THEN older \cup (({t} \cap Upserted) \X {i}) ELSE older
  BY DEF PutRow
<1>3. t \in Upserted => new = c
  OBVIOUS
<1> HIDE DEF new
<1>4. table = [u \in TableNames |-> [j \in RowIds |-> table[u][j]]]
  BY DEF Data
<1>5. table' = [u \in TableNames |-> [j \in RowIds |->
                  IF u = t /\ j = i THEN new ELSE table[u][j]]]
  <2>1. \A u \in TableNames : table[u] = [j \in RowIds |-> table[u][j]]
    BY <1>4
  <2>2. table' = [u \in TableNames |-> IF u = t THEN [table[u] EXCEPT ![i] = new]
                                                ELSE table[u]]
    BY <1>1, <1>4
  <2>3. ASSUME NEW u \in TableNames
        PROVE  (IF u = t THEN [table[u] EXCEPT ![i] = new] ELSE table[u])
               = [j \in RowIds |-> IF u = t /\ j = i THEN new ELSE table[u][j]]
    BY <2>1
  <2> QED
    BY <2>2, <2>3
<1>6. table' = [u \in TableNames |-> [j \in RowIds |-> table'[u][j]]]
  BY <1>5
<1>7. \A u \in TableNames : \A j \in RowIds :
        table'[u][j] = IF u = t /\ j = i THEN new ELSE table[u][j]
  BY <1>5
<1> QED
  BY <1>2, <1>3, <1>6, <1>7

\* A step that leaves hashes and version alone, and puts on record what it writes,
\* takes nothing from what they promise.
LEMMA PromisesKept ==
  ASSUME Data, HashTruthful, VersionTruthful, version \in Nat,
         UNCHANGED <<hash, version>>, overlapped => overlapped', torn \subseteq torn',
         older \subseteq older',
         \A u \in TableNames : \A j \in RowIds :
           u \in Upserted /\ <<u, j>> \notin torn' => table'[u][j] = table[u][j]
  PROVE  HashTruthful' /\ VersionTruthful'
<1>1. HashTruthful'
  <2> SUFFICES ASSUME ~overlapped', NEW name \in UpdatedNames, NEW i \in DOMAIN hash[name],
                      <<TableOf(name), i>> \notin torn'
               PROVE  table'[TableOf(name)][i] = hash[name][i]
    BY DEF HashTruthful, Holding, Settled, TableOf
  <2>1. /\ name \in Names /\ name \in HashKeys /\ TableOf(name) \in TableNames
        /\ TableOf(name) \in Upserted
    BY NamesOfTables
  <2>2. i \in RowIds
    BY <2>1 DEF Data
  <2>3. table[TableOf(name)][i] = hash[name][i]
    BY DEF HashTruthful, Holding, Settled
  <2> QED
    BY <2>1, <2>2, <2>3
<1>2. VersionTruthful'
  <2> SUFFICES ASSUME ~overlapped', version > 0, NEW name \in DOMAIN Releases[version],
                      TableOf(name) \in Upserted, NEW i \in DOMAIN Releases[version][name],
                      <<TableOf(name), i>> \notin torn' \cup older'
               PROVE  \E v \in version..Newest : Holds(v, name, i)'
    BY DEF VersionTruthful, TableOf, Upserted, Newest
  <2>1. PICK v \in version..Newest : Holds(v, name, i)
    BY DEF VersionTruthful
  <2>2. /\ name \in DOMAIN Releases[v] /\ i \in DOMAIN Releases[v][name]
        /\ table[TableOf(name)][i] = Releases[v][name][i]
    BY <2>1 DEF Holds
  <2>3. TableOf(name) \in TableNames
    BY NamesOfTables DEF TableOf, Upserted
  <2>4. v \in Versions
    BY <2>1, SeedAssumption DEF Newest, Versions
  <2>5. i \in RowIds
    BY <2>2, <2>4, FileRows
  <2>6. table'[TableOf(name)][i] = table[TableOf(name)][i]
    BY <2>3, <2>5
  <2> QED
    BY <2>2, <2>6 DEF Holds, TableOf
<1> QED
  BY <1>1, <1>2

\* Without calls there is nothing to say of them.
LEMMA NoCalls ==
  ASSUME \A c \in Calls : call'[c].pc = "idle"
  PROVE  CallWrote' /\ CallHashed'
  BY DEF CallWrote, CallHashed, Active

\* The steps of the start-up.
LEMMA BootTruth ==
  ASSUME TruthInv, SeedInv', BootStep \/ SeedInit(FALSE) \/ InitFails \/ Crash
  PROVE  TruthInv'
<1>0. /\ Data /\ BootWrote /\ HashTruthful /\ VersionTruthful /\ version \in Nat
      /\ DOMAIN Tables = 1..4 /\ boot.k \in 1..4 /\ boot \in BootStates
      /\ SeedInv
  BY NamesOfTables, VersionRange DEF TruthInv, Data, SeedInv, Shape
<1>1. ASSUME UNCHANGED <<table, hash, version, torn, older, overlapped>>,
             \A c \in Calls : call'[c].pc = "idle",
             boot'.k \in 1..4, BootWrote'
      PROVE  TruthInv'
  <2>1. Data'
    BY <1>0, <1>1 DEF Data, TableNames
  <2>2. HashTruthful' /\ VersionTruthful'
    BY <1>0, <1>1, PromisesKept
  <2>3. CallWrote' /\ CallHashed'
    BY <1>1, NoCalls
  <2> QED
    BY <1>1, <2>1, <2>2, <2>3 DEF TruthInv
<1>2. boot.pc # "up" => \A c \in Calls : call[c].pc = "idle"
  BY <1>0 DEF SeedInv, BootFirst, Active
<1>3. CASE \E read \in BOOLEAN : SeedInit(read)
  <2>1. /\ UNCHANGED <<table, hash, version, torn, older, overlapped, call>> /\ boot.pc = "start"
        /\ boot'.k = 1 /\ boot'.pc \in {"up", "rows"}
    BY <1>3 DEF SeedInit, BootDone, metadata
  <2>2. BootWrote'
    <3>1. Tables[1] \notin Upserted
      BY DEF Tables, Upserted
    <3> QED
      BY <1>0, <2>1, <3>1 DEF BootWrote
  <2> QED
    BY <1>1, <1>2, <2>1, <2>2
<1>4. CASE InitFails
  <2>1. /\ UNCHANGED <<table, hash, version, torn, older, overlapped, call>> /\ boot.pc # "up"
        /\ boot'.k = 1 /\ boot'.pc = "up"
    BY <1>4 DEF InitFails, BootDone, metadata, history
  <2> QED
    BY <1>1, <1>2, <2>1 DEF BootWrote
<1>5. CASE Crash
  <2>1. /\ UNCHANGED <<table, hash, version, torn, older, overlapped>>
        /\ boot'.k = 1 /\ boot'.pc = "start" /\ \A c \in Calls : call'[c].pc = "idle"
    BY <1>5, IdleShape DEF Crash, metadata, history
  <2> QED
    BY <1>1, <2>1 DEF BootWrote
<1>6. CASE InitNextFile
  <2>1. /\ UNCHANGED <<table, hash, version, torn, older, overlapped, call>>
        /\ boot.pc = "rows" /\ boot.rows = {}
        /\ boot' = IF boot.k < 4
                   THEN [pc |-> "rows", k |-> boot.k + 1,
                         rows |-> DOMAIN EmbeddedFile(Tables[boot.k + 1])]
                   ELSE [pc |-> "hashes", k |-> 1, rows |-> {}]
    <3>1. Len(Tables) = 4
      BY DEF Tables
    <3> QED
      BY <1>6, <3>1 DEF InitNextFile, metadata, history
  <2>2. ASSUME NEW k \in 1..4, Tables[k] \in Upserted, k <= boot.k
        PROVE  Written(Tables[k], EmbeddedFile(Tables[k]), DOMAIN EmbeddedFile(Tables[k]),
                       Embedded)
    <3>1. k < boot.k \/ k = boot.k
      BY <1>0, <2>2
    <3>2. DOMAIN EmbeddedFile(Tables[k]) \ boot.rows = DOMAIN EmbeddedFile(Tables[k])
      BY <2>1
    <3> QED
      BY <1>0, <2>1, <2>2, <3>1, <3>2 DEF BootWrote
  <2>3. CASE boot.k < 4
    <3>1. /\ boot'.pc = "rows" /\ boot'.k = boot.k + 1
          /\ boot'.rows = DOMAIN EmbeddedFile(Tables[boot.k + 1])
      BY <2>1, <2>3
    <3>2. \A k \in 1..4 : k < boot'.k => k <= boot.k
      BY <1>0, <3>1
    <3>3. \A k \in 1..4 : k = boot'.k =>
            DOMAIN EmbeddedFile(Tables[k]) \ boot'.rows = {}
      BY <3>1
    <3>4. BootWrote'
      BY <1>0, <2>1, <2>2, <3>1, <3>2, <3>3
      DEF BootWrote, Written, EmbeddedFile, Tables, Upserted
    <3> QED
      BY <1>0, <1>1, <1>2, <2>1, <2>3, <3>1, <3>4
  <2>4. CASE boot.k = 4
    <3>1. boot'.pc = "hashes" /\ boot'.k = 1
      BY <2>1, <2>4
    <3>2. BootWrote'
      BY <1>0, <2>1, <2>2, <2>4, <3>1
      DEF BootWrote, Written, EmbeddedFile, Tables, Upserted
    <3> QED
      BY <1>1, <1>2, <2>1, <3>1, <3>2
  <2> QED
    BY <1>0, <2>3, <2>4
<1>7. CASE InitRow
  <2> DEFINE t == Tables[boot.k]
             f == EmbeddedFile(t)
             i == Smallest(boot.rows)
  <2>1. /\ boot.pc = "rows" /\ PutRow(t, i, f[i], Embedded)
        /\ boot' = [boot EXCEPT !.rows = @ \ {i}]
        /\ UNCHANGED <<hash, version, call, overlapped>>
    BY <1>7 DEF InitRow, metadata
  <2>2. boot'.pc = "rows" /\ boot'.k = boot.k /\ boot'.rows = boot.rows \ {i}
    BY <1>0, <2>1 DEF BootStates
  <2>3. t \in TableNames /\ DOMAIN f \subseteq RowIds
    BY <1>0, NamesOfTables, EmbeddedRows
  <2> HIDE DEF i
  <2>4. /\ table' = [u \in TableNames |-> [j \in RowIds |-> table'[u][j]]]
        /\ \A u \in TableNames : \A j \in RowIds :
             u # t \/ j # i => table'[u][j] = table[u][j]
        /\ t \in Upserted => \A j \in RowIds : j = i => table'[t][j] = f[i]
        /\ torn \subseteq torn'
        /\ t \in Upserted => <<t, i>> \in torn'
        /\ older \subseteq older'
        /\ t \in Upserted /\ Embedded < version => <<t, i>> \in older'
    BY <1>0, <2>1, <2>3, RowPut
  <2>5. Data'
    BY <1>0, <2>1, <2>2, <2>4 DEF Data, TableNames
  <2>6. HashTruthful' /\ VersionTruthful'
    <3>1. \A u \in TableNames : \A j \in RowIds :
            u \in Upserted /\ <<u, j>> \notin torn' => table'[u][j] = table[u][j]
      BY <2>4
    <3> QED
      BY <1>0, <2>1, <2>4, <3>1, PromisesKept
  <2>7. CallWrote' /\ CallHashed'
    BY <1>2, <2>1, NoCalls
  <2>8. BootWrote'
    <3>1. ASSUME NEW k \in 1..4, Tables[k] \in Upserted, k < boot.k
          PROVE  Written(Tables[k], EmbeddedFile(Tables[k]),
                         DOMAIN EmbeddedFile(Tables[k]), Embedded)'
      <4>1. Tables[k] \in TableNames /\ DOMAIN EmbeddedFile(Tables[k]) \subseteq RowIds
        BY <1>0, NamesOfTables, EmbeddedRows
      <4>2. Tables[k] # t
        BY <1>0, <3>1 DEF Tables
      <4>3. Written(Tables[k], EmbeddedFile(Tables[k]), DOMAIN EmbeddedFile(Tables[k]), Embedded)
        BY <1>0, <2>1, <3>1 DEF BootWrote
      <4> QED
        BY <2>1, <2>4, <4>1, <4>2, <4>3 DEF Written, EmbeddedFile, Tables
    <3>2. ASSUME t \in Upserted
          PROVE  Written(t, f, DOMAIN f \ boot.rows, Embedded)
      BY <1>0, <2>1, <3>2 DEF BootWrote
    <3>3. ASSUME t \in Upserted, NEW j \in DOMAIN f \ boot'.rows
          PROVE  table'[t][j] = f[j] /\ (Embedded < version => <<t, j>> \in older')
      <4>1. j = i \/ j \in DOMAIN f \ boot.rows
        BY <2>2, <3>3
      <4>2. j \in RowIds
        BY <2>3, <3>3
      <4>3. CASE j = i
        BY <2>4, <3>3, <4>2, <4>3
      <4>4. CASE j # i
        BY <2>3, <2>4, <3>2, <3>3, <4>1, <4>2, <4>4 DEF Written
      <4> QED
        BY <4>3, <4>4
    <3>4. ASSUME NEW k \in 1..4, Tables[k] \in Upserted, k = boot.k
          PROVE  Written(Tables[k], EmbeddedFile(Tables[k]),
                         DOMAIN EmbeddedFile(Tables[k]) \ boot.rows, Embedded)'
      BY <2>1, <3>3, <3>4 DEF Written, EmbeddedFile, Tables
    <3> QED
      BY <1>0, <2>2, <3>1, <3>4 DEF BootWrote, EmbeddedFile, Tables
  <2> QED
    BY <2>5, <2>6, <2>7, <2>8 DEF TruthInv
<1>8. CASE InitHash
  <2> DEFINE t == Tables[boot.k]
             f == EmbeddedFile(t)
             n == NameFor(t)
  <2>1. /\ boot.pc = "hashes"
        /\ hash' = [hash EXCEPT ![t] = f]
        /\ torn' = IF hash'[n] \in {NoHash, f} THEN torn \ ({t} \X DOMAIN f) ELSE torn
        /\ UNCHANGED <<table, version, call, older, overlapped>>
        /\ boot' = IF boot.k < Len(Tables) THEN [boot EXCEPT !.k = @ + 1]
                   ELSE [boot EXCEPT !.pc = "version"]
    BY <1>8 DEF InitHash
  <2>2. Len(Tables) = 4
    BY DEF Tables
  <2>3. boot'.k \in 1..4 /\ boot'.pc \in {"hashes", "version"}
    BY <1>0, <2>1, <2>2 DEF BootStates
  <2>4. /\ t \in TableNames /\ t \in HashKeys /\ DOMAIN f \subseteq RowIds
        /\ n \in Names /\ TableOf(n) = t
        /\ t = "channels" => n = t
    BY <1>0, NamesOfTables, EmbeddedRows
  <2>5. /\ hash'[t] = f /\ \A key \in HashKeys \ {t} : hash'[key] = hash[key]
        /\ hash' = [key \in HashKeys |-> hash'[key]]
    <3>1. hash = [key \in HashKeys |-> hash[key]]
      BY <1>0 DEF Data
    <3>2. hash' = [key \in HashKeys |-> IF key = t THEN f ELSE hash[key]]
      BY <2>1, <3>1
    <3> QED
      BY <2>4, <3>2
  <2>7. Data'
    BY <1>0, <2>1, <2>3, <2>4, <2>5 DEF Data, TableNames
  <2>6. ASSUME t \in Upserted
        PROVE  Written(t, f, DOMAIN f, Embedded)
    BY <1>0, <2>1, <2>6 DEF BootWrote
  <2>8. VersionTruthful'
    <3> SUFFICES ASSUME ~overlapped, version > 0, NEW name \in DOMAIN Releases[version],
                        TableOf(name) \in Upserted, NEW i \in DOMAIN Releases[version][name],
                        <<TableOf(name), i>> \notin torn' \cup older
                 PROVE  \E v \in version..Newest : Holds(v, name, i)'
      BY <2>1 DEF VersionTruthful, TableOf, Upserted, Newest
    <3>1. CASE <<TableOf(name), i>> \notin torn
      <4>1. PICK v \in version..Newest : Holds(v, name, i)
        BY <1>0, <3>1 DEF VersionTruthful
      <4> QED
        BY <2>1, <4>1 DEF Holds, TableOf
    <3>2. CASE <<TableOf(name), i>> \in torn
      <4>1. TableOf(name) = t /\ i \in DOMAIN f
        BY <2>1, <3>2
      <4>2. table[t][i] = f[i] /\ ~(Embedded < version)
        BY <2>6, <4>1 DEF Written
      <4>8. version \in 0..Newest /\ Newest \in Nat
        BY <1>0, VersionRange DEF SeedInv, Shape
      <4>3. version = Embedded /\ version \in version..Newest
        BY <4>2, <4>8 DEF Embedded
      <4>4. name \in Names
        BY <4>3, VersionRange, FileRows
      <4>5. f = Releases[version][name]
        BY <4>1, <4>3, <4>4, NamesOfTables DEF EmbeddedFile
      <4>6. PICK v : v = version
        OBVIOUS
      <4>7. Holds(v, name, i)'
        BY <2>1, <4>1, <4>2, <4>5, <4>6 DEF Holds, TableOf
      <4> QED
        BY <4>3, <4>6, <4>7
    <3> QED
      BY <3>1, <3>2
  <2>9. CallWrote' /\ CallHashed'
    BY <1>2, <2>1, NoCalls
  <2>10. BootWrote'
    BY <1>0, <2>1, <2>3 DEF BootWrote, Written, EmbeddedFile, Tables
  <2>11. HashTruthful'
    <3> SUFFICES ASSUME ~overlapped, NEW name \in UpdatedNames,
                        NEW i \in DOMAIN hash'[name], <<TableOf(name), i>> \notin torn'
                 PROVE  table[TableOf(name)][i] = hash'[name][i]
      BY <2>1 DEF HashTruthful, Holding, Settled, TableOf
    <3>1. /\ name \in Names /\ name \in HashKeys /\ TableOf(name) \in Upserted
          /\ NameFor(TableOf(name)) = name
      BY NamesOfTables
    <3>2. ASSUME hash'[name] = hash[name], <<TableOf(name), i>> \notin torn
          PROVE  table[TableOf(name)][i] = hash'[name][i]
      BY <1>0, <3>2 DEF HashTruthful, Holding, Settled
    <3>3. CASE name # n
      <4>1. TableOf(name) # t
        BY <2>4, <3>1, <3>3
      <4>2. name # t
        BY <2>4, <3>3 DEF UpdatedNames, TableNames, Tables, TableOf, Names
      <4>3. <<TableOf(name), i>> \notin torn
        BY <2>1, <4>1
      <4> QED
        BY <2>5, <3>1, <3>2, <4>2, <4>3
    <3>4. CASE name = n
      <4>1. CASE hash'[n] = NoHash
        BY <3>4, <4>1 DEF NoHash
      <4>2. CASE hash'[n] = f
        <5>1. Written(t, f, DOMAIN f, Embedded)
          BY <2>4, <2>6, <3>1, <3>4
        <5> QED
          BY <2>4, <3>4, <4>2, <5>1 DEF Written
      <4>3. CASE hash'[n] \notin {NoHash, f}
        <5>1. name # t
          BY <2>5, <3>4, <4>3
        <5>2. torn' = torn
          BY <2>1, <4>3
        <5> QED
          BY <2>5, <3>1, <3>2, <5>1, <5>2
      <4> QED
        BY <4>1, <4>2, <4>3
    <3> QED
      BY <3>3, <3>4
  <2> QED
    BY <2>7, <2>8, <2>9, <2>10, <2>11 DEF TruthInv
<1>9. CASE InitVersion
  <2>1. /\ boot.pc = "version" /\ version' = 1 /\ boot'.pc = "up" /\ boot'.k = 1
        /\ UNCHANGED <<table, hash, torn, call, overlapped>>
    BY <1>9 DEF InitVersion, BootDone, Embedded
  <2>2. Data' /\ BootWrote'
    BY <1>0, <2>1 DEF Data, BootWrote, TableNames
  <2>3. CallWrote' /\ CallHashed'
    BY <1>2, <2>1, NoCalls
  <2>4. HashTruthful'
    BY <1>0, <2>1 DEF HashTruthful, Holding, Settled
  <2>5. VersionTruthful'
    <3> SUFFICES ASSUME NEW name \in DOMAIN Releases[1], TableOf(name) \in Upserted,
                        NEW i \in DOMAIN Releases[1][name]
                 PROVE  \E v \in 1..Newest : Holds(v, name, i)'
      BY <2>1 DEF VersionTruthful, TableOf, Upserted, Newest
    <3>1. name \in Names /\ 1 \in 1..Newest
      BY SeedAssumption DEF Embedded, Newest
    <3>2. TableOf(name) \in TableNames /\ NameFor(TableOf(name)) = name
      BY <3>1, NamesOfTables
    <3>3. PICK k \in DOMAIN Tables : Tables[k] = TableOf(name)
      BY <3>2 DEF TableNames
    <3>4. EmbeddedFile(Tables[k]) = Releases[1][name]
      BY <3>2, <3>3 DEF EmbeddedFile, Embedded
    <3>5. Written(Tables[k], EmbeddedFile(Tables[k]), DOMAIN EmbeddedFile(Tables[k]), Embedded)
      BY <1>0, <2>1, <3>3 DEF BootWrote
    <3>6. table[TableOf(name)][i] = Releases[1][name][i]
      BY <3>3, <3>4, <3>5 DEF Written
    <3>7. Holds(1, name, i)'
      BY <2>1, <3>6 DEF Holds, TableOf
    <3> QED
      BY <3>1, <3>7
  <2> QED
    BY <2>2, <2>3, <2>4, <2>5 DEF TruthInv
<1> QED
  BY <1>3, <1>4, <1>5, <1>6, <1>7, <1>8, <1>9 DEF BootStep

\* What a step of a call has to show of the state it takes the call to: nothing
\* is to be shown of the others, which are idle or overlap.
LEMMA CallAlone ==
  ASSUME SeedInv, CallWrote, NEW c \in Calls, Active(c), NEW s \in CallStates,
         call' = [call EXCEPT ![c] = s], overlapped' = overlapped,
         s.pc = "rows" => s.name \in DOMAIN Releases[s.release],
         ~overlapped /\ s.pc = "rows" /\ s.name \in UpdatedNames =>
           \A i \in DOMAIN Releases[s.release][s.name] \ s.rows :
             /\ table'[TableOf(s.name)][i] = Releases[s.release][s.name][i]
             /\ s.release < version' => <<TableOf(s.name), i>> \in older',
         ~overlapped /\ s.pc # "idle" /\ ~s.failed =>
           \A name \in DOMAIN Releases[s.release] \ s.left :
             (s.pc = "rows" /\ name = s.name) \/ hash'[name] = Releases[s.release][name]
  PROVE  CallWrote' /\ CallHashed'
<1>1. call'[c] = s /\ \A d \in Calls \ {c} : call'[d] = call[d]
  BY DEF SeedInv, Shape
<1>2. ~overlapped => \A d \in Calls \ {c} : call'[d].pc = "idle"
  BY <1>1 DEF SeedInv, Ahead, Active
<1>3. ASSUME NEW d \in Calls, call'[d].pc = "rows"
      PROVE  /\ call'[d].name \in DOMAIN Releases[call'[d].release]
             /\ ~overlapped /\ call'[d].name \in UpdatedNames =>
                  \A i \in DOMAIN Releases[call'[d].release][call'[d].name] \ call'[d].rows :
                    /\ table'[TableOf(call'[d].name)][i]
                         = Releases[call'[d].release][call'[d].name][i]
                    /\ call'[d].release < version' => <<TableOf(call'[d].name), i>> \in older'
  <2>1. CASE d = c
    BY <1>1, <1>3, <2>1
  <2>2. CASE d # c
    <3>1. overlapped /\ call'[d] = call[d]
      BY <1>1, <1>2, <1>3, <2>2
    <3> QED
      BY <1>3, <3>1 DEF CallWrote
  <2> QED
    BY <2>1, <2>2
<1>4. CallWrote'
  BY <1>3 DEF CallWrote, Written, File, TableOf, UpdatedNames
<1>5. CallHashed'
  BY <1>1, <1>2 DEF CallHashed, Active, File
<1> QED
  BY <1>4, <1>5

\* The steps of a refresh.
LEMMA CallTruth ==
  ASSUME TruthInv, SeedInv', NEW c \in Calls,
         \/ CallStep(c) \/ FetchOrStatementFails(c) \/ FinishFails(c)
         \/ \E name \in Names : RefetchEntry(c, name)
  PROVE  TruthInv'
<1>0. /\ Data /\ BootWrote /\ CallWrote /\ CallHashed /\ HashTruthful /\ VersionTruthful
      /\ SeedInv /\ version \in Nat /\ call \in [Calls -> CallStates] /\ call[c] \in CallStates
      /\ LeftOver(call[c])
  BY VersionRange DEF TruthInv, SeedInv, Shape
<1> DEFINE r == call[c].release
<1>1. r \in Versions /\ r \in Nat /\ DOMAIN Releases[r] \subseteq Names /\ r <= Newest
  BY <1>0, SeedAssumption DEF CallStates, Versions, Newest
<1>2. Active(c) /\ UNCHANGED <<boot, overlapped>>
  BY DEF CallStep, SkipEntry, FetchEntry, RefetchEntry, Fetched, UpsertRow, RowRefused,
         StoreHash, FinishRefresh, FetchOrStatementFails, FinishFails, Active, history
<1>3. BootWrote'
  <2>1. boot'.pc = "up"
    BY <1>0, <1>2 DEF SeedInv, BootFirst
  <2> QED
    BY <2>1 DEF BootWrote
<1>4. ASSUME UNCHANGED <<table, hash, version, torn, older>>, CallWrote', CallHashed'
      PROVE  TruthInv'
  <2>1. Data'
    BY <1>0, <1>2, <1>4 DEF Data, TableNames
  <2>2. HashTruthful' /\ VersionTruthful'
    BY <1>0, <1>2, <1>4, PromisesKept
  <2> QED
    BY <1>3, <1>4, <2>1, <2>2 DEF TruthInv
<1>6. ASSUME ~overlapped, ~call[c].failed, NEW name \in DOMAIN Releases[r] \ call[c].left
      PROVE  (call[c].pc = "rows" /\ name = call[c].name) \/ hash[name] = Releases[r][name]
  BY <1>0, <1>2, <1>6 DEF CallHashed, File
<1>7. CASE \E n \in Names : SkipEntry(c, n)
  <2> PICK n \in Names : SkipEntry(c, n)
    BY <1>7
  <2> DEFINE s == [call[c] EXCEPT !.left = @ \ {n}]
  <2>1. /\ s \in CallStates /\ s.release = r /\ s.pc = "next" /\ s.left = call[c].left \ {n}
        /\ s.failed = call[c].failed
    BY <1>0 DEF SkipEntry, CallStates
  <2>2. /\ call' = [call EXCEPT ![c] = s] /\ UNCHANGED <<table, hash, version, torn, older>>
        /\ hash[n] = Releases[r][n] /\ call[c].pc = "next"
    BY <1>0 DEF SkipEntry, metadata, history, File
  <2> HIDE DEF s
  <2>3. ASSUME ~overlapped, ~s.failed, NEW name \in DOMAIN Releases[r] \ s.left
        PROVE  hash'[name] = Releases[r][name]
    <3>1. name = n \/ name \in DOMAIN Releases[r] \ call[c].left
      BY <2>1, <2>3
    <3> QED
      BY <1>6, <2>1, <2>2, <2>3, <3>1
  <2>4. CallWrote' /\ CallHashed'
    BY <1>0, <1>2, <2>1, <2>2, <2>3, CallAlone
  <2> QED
    BY <1>4, <2>2, <2>4
<1>8. CASE \E n \in Names : FetchEntry(c, n) \/ RefetchEntry(c, n)
  <2> PICK n \in Names : FetchEntry(c, n) \/ RefetchEntry(c, n)
    BY <1>8
  <2> DEFINE s == [call[c] EXCEPT !.pc = "rows", !.left = @ \ {n}, !.name = n,
                                  !.rows = DOMAIN File(c, n)]
  <2>0. n \in DOMAIN Releases[r]
    BY <1>0 DEF FetchEntry, RefetchEntry, Fetched, LeftOver
  <2>1. DOMAIN File(c, n) \subseteq RowIds
    BY <1>1, <2>0, FileRows DEF File
  <2>2. /\ s \in CallStates /\ s.release = r /\ s.pc = "rows" /\ s.left = call[c].left \ {n}
        /\ s.failed = call[c].failed /\ s.name = n /\ s.rows = DOMAIN Releases[r][n]
    BY <1>0, <2>1 DEF FetchEntry, RefetchEntry, Fetched, CallStates, File
  <2>3. /\ call' = [call EXCEPT ![c] = s] /\ UNCHANGED <<table, hash, version, torn, older>>
        /\ call[c].pc = "next"
    BY <1>0 DEF FetchEntry, RefetchEntry, Fetched, metadata, history
  <2> HIDE DEF s
  <2>4. ASSUME ~overlapped, ~s.failed, NEW name \in DOMAIN Releases[r] \ s.left
        PROVE  name = s.name \/ hash'[name] = Releases[r][name]
    <3>1. name = n \/ name \in DOMAIN Releases[r] \ call[c].left
      BY <2>2, <2>4
    <3> QED
      BY <1>6, <2>2, <2>3, <2>4, <3>1
  <2>5. CallWrote' /\ CallHashed'
    BY <1>0, <1>2, <2>0, <2>2, <2>3, <2>4, CallAlone
  <2> QED
    BY <1>4, <2>3, <2>5
<1>9. CASE RowRefused(c) \/ FetchOrStatementFails(c)
  <2> DEFINE s == [call[c] EXCEPT !.pc = "next", !.name = NoName, !.rows = {}, !.failed = TRUE]
  <2>1. s \in CallStates /\ s.pc = "next" /\ s.failed
    BY <1>0 DEF CallStates
  <2>2. call' = [call EXCEPT ![c] = s] /\ UNCHANGED <<table, hash, version, torn, older>>
    BY <1>0, <1>9 DEF RowRefused, FetchOrStatementFails, EntryFails, metadata, history
  <2> HIDE DEF s
  <2>3. CallWrote' /\ CallHashed'
    BY <1>0, <1>2, <2>1, <2>2, CallAlone
  <2> QED
    BY <1>4, <2>2, <2>3
<1>10. CASE FinishFails(c)
  <2>1. call' = [call EXCEPT ![c] = Idle] /\ UNCHANGED <<table, hash, version, torn, older>>
    BY <1>10 DEF FinishFails, metadata, history
  <2>2. CallWrote' /\ CallHashed'
    BY <1>0, <1>2, <2>1, IdleShape, CallAlone
  <2> QED
    BY <1>4, <2>1, <2>2
<1>11. CASE FinishRefresh(c)
  <2>1. /\ call' = [call EXCEPT ![c] = Idle] /\ UNCHANGED <<table, hash, torn>>
        /\ version' = IF ~call[c].failed THEN r ELSE version
        /\ older' = IF ~call[c].failed THEN {} ELSE older
        /\ call[c].pc = "next" /\ call[c].left = {}
    BY <1>11 DEF FinishRefresh, VersionDue
  <2>2. CallWrote' /\ CallHashed'
    BY <1>0, <1>2, <2>1, IdleShape, CallAlone
  <2>3. CASE call[c].failed
    BY <1>4, <2>1, <2>2, <2>3
  <2>4. CASE ~call[c].failed
    <3>1. version' = r
      BY <2>1, <2>4
    <3>2. Data' /\ HashTruthful'
      BY <1>0, <1>2, <2>1 DEF Data, TableNames, HashTruthful, Holding, Settled
    <3>3. VersionTruthful'
      <4> SUFFICES ASSUME ~overlapped, NEW name \in DOMAIN Releases[r],
                          TableOf(name) \in Upserted, NEW i \in DOMAIN Releases[r][name],
                          <<TableOf(name), i>> \notin torn
                   PROVE  \E v \in r..Newest : Holds(v, name, i)'
        BY <1>2, <2>1, <3>1 DEF VersionTruthful, TableOf, Upserted, Newest
      <4>1. name \in UpdatedNames
        BY <1>1, NamesOfTables
      <4>2. hash[name] = Releases[r][name]
        BY <1>6, <2>1, <2>4
      <4>3. table[TableOf(name)][i] = Releases[r][name][i]
        BY <1>0, <4>1, <4>2 DEF HashTruthful, Holding, Settled
      <4>4. PICK v : v = r
        OBVIOUS
      <4>5. Holds(v, name, i)'
        BY <2>1, <4>3, <4>4 DEF Holds, TableOf
      <4>6. v \in r..Newest
        BY <1>1, <4>4, SeedAssumption DEF Newest
      <4> QED
        BY <4>5, <4>6
    <3> QED
      BY <1>3, <2>2, <3>2, <3>3 DEF TruthInv
  <2> QED
    BY <2>3, <2>4
<1>12. CASE UpsertRow(c)
  <2> DEFINE n == call[c].name
             f == Releases[r][n]
             i == Smallest(call[c].rows)
             s == [call[c] EXCEPT !.rows = @ \ {i}]
  <2>1. /\ call[c].pc = "rows" /\ PutRow(TableOf(n), i, f[i], r)
        /\ call' = [call EXCEPT ![c] = s] /\ UNCHANGED <<hash, version>>
    BY <1>0, <1>12 DEF UpsertRow, metadata, File
  <2> HIDE DEF i
  <2>2. /\ s \in CallStates /\ s.pc = "rows" /\ s.release = r /\ s.name = n
        /\ s.rows = call[c].rows \ {i} /\ s.left = call[c].left /\ s.failed = call[c].failed
    BY <1>0, <2>1 DEF CallStates
  <2> HIDE DEF s
  <2>3. n \in DOMAIN Releases[r] /\ n \in Names /\ DOMAIN f \subseteq RowIds
        /\ TableOf(n) \in TableNames /\ (TableOf(n) \in Upserted <=> n \in UpdatedNames)
    BY <1>0, <1>1, <2>1, FileRows, NamesOfTables DEF CallWrote
  <2>4. /\ table' = [u \in TableNames |-> [j \in RowIds |-> table'[u][j]]]
        /\ \A u \in TableNames : \A j \in RowIds :
             u # TableOf(n) \/ j # i => table'[u][j] = table[u][j]
        /\ TableOf(n) \in Upserted => \A j \in RowIds : j = i => table'[TableOf(n)][j] = f[i]
        /\ torn \subseteq torn'
        /\ TableOf(n) \in Upserted => <<TableOf(n), i>> \in torn'
        /\ older \subseteq older'
        /\ TableOf(n) \in Upserted /\ r < version => <<TableOf(n), i>> \in older'
    BY <1>0, <2>1, <2>3, RowPut
  <2>5. Data'
    BY <1>0, <1>2, <2>1, <2>4 DEF Data, TableNames
  <2>6. HashTruthful' /\ VersionTruthful'
    <3>1. \A u \in TableNames : \A j \in RowIds :
            u \in Upserted /\ <<u, j>> \notin torn' => table'[u][j] = table[u][j]
      BY <2>4
    <3> QED
      BY <1>0, <1>2, <2>1, <2>4, <3>1, PromisesKept
  <2>7. ASSUME ~overlapped, n \in UpdatedNames, NEW j \in DOMAIN f \ s.rows
        PROVE  table'[TableOf(n)][j] = f[j] /\ (r < version => <<TableOf(n), j>> \in older')
    <3>1. j = i \/ j \in DOMAIN f \ call[c].rows
      BY <2>2, <2>7
    <3>2. j \in RowIds
      BY <2>3, <2>7
    <3>3. CASE j = i
      BY <2>3, <2>4, <2>7, <3>2, <3>3
    <3>4. CASE j # i
      <4>1. table[TableOf(n)][j] = f[j] /\ (r < version => <<TableOf(n), j>> \in older)
        BY <1>0, <2>1, <2>7, <3>1, <3>4 DEF CallWrote, Written, File
      <4> QED
        BY <2>3, <2>4, <3>2, <3>4, <4>1
    <3> QED
      BY <3>3, <3>4
  <2>8. ASSUME ~overlapped, ~s.failed, NEW name \in DOMAIN Releases[r] \ s.left
        PROVE  name = s.name \/ hash'[name] = Releases[r][name]
    BY <1>6, <2>1, <2>2, <2>8
  <2>9. CallWrote' /\ CallHashed'
    BY <1>0, <1>2, <2>1, <2>2, <2>3, <2>7, <2>8, CallAlone
  <2> QED
    BY <1>3, <2>5, <2>6, <2>9 DEF TruthInv
<1>13. CASE StoreHash(c)
  <2> DEFINE n == call[c].name
             f == Releases[r][n]
             t == TableOf(n)
             s == [call[c] EXCEPT !.pc = "next", !.name = NoName]
  <2>1. /\ call[c].pc = "rows" /\ call[c].rows = {}
        /\ hash' = [hash EXCEPT ![n] = f] /\ torn' = torn \ ({t} \X DOMAIN f)
        /\ call' = [call EXCEPT ![c] = s] /\ UNCHANGED <<table, version, older>>
    BY <1>0, <1>13 DEF StoreHash, File
  <2>2. /\ s \in CallStates /\ s.pc = "next" /\ s.release = r
        /\ s.left = call[c].left /\ s.failed = call[c].failed
    BY <1>0, <2>1 DEF CallStates
  <2> HIDE DEF s
  <2>3. n \in DOMAIN Releases[r] /\ n \in Names /\ n \in HashKeys /\ DOMAIN f \subseteq RowIds
        /\ (t \in Upserted <=> n \in UpdatedNames)
    BY <1>0, <1>1, <2>1, FileRows, NamesOfTables DEF CallWrote
  <2>4. /\ hash'[n] = f /\ \A key \in HashKeys \ {n} : hash'[key] = hash[key]
        /\ hash' = [key \in HashKeys |-> hash'[key]]
    <3>1. hash = [key \in HashKeys |-> hash[key]]
      BY <1>0 DEF Data
    <3>2. hash' = [key \in HashKeys |-> IF key = n THEN f ELSE hash[key]]
      BY <2>1, <3>1
    <3> QED
      BY <2>3, <3>2
  <2>5. ASSUME ~overlapped, n \in UpdatedNames, NEW i \in DOMAIN f
        PROVE  table[t][i] = f[i] /\ (r < version => <<t, i>> \in older)
    BY <1>0, <2>1, <2>5 DEF CallWrote, Written, File
  <2>6. Data'
    BY <1>0, <1>2, <2>1, <2>3, <2>4 DEF Data, TableNames
  <2>7. ASSUME ~overlapped, ~s.failed, NEW name \in DOMAIN Releases[r] \ s.left
        PROVE  hash'[name] = Releases[r][name]
    <3>1. CASE name = n
      BY <2>4, <3>1
    <3>2. CASE name # n
      <4>1. hash[name] = Releases[r][name]
        BY <1>6, <2>2, <2>7, <3>2
      <4>2. name \in HashKeys
        BY <1>1, <2>7, NamesOfTables
      <4> QED
        BY <2>4, <3>2, <4>1, <4>2
    <3> QED
      BY <3>1, <3>2
  <2>8. CallWrote' /\ CallHashed'
    BY <1>0, <1>2, <2>1, <2>2, <2>7, CallAlone
  <2>9. HashTruthful'
    <3> SUFFICES ASSUME ~overlapped, NEW name \in UpdatedNames,
                        NEW i \in DOMAIN hash'[name], <<TableOf(name), i>> \notin torn'
                 PROVE  table[TableOf(name)][i] = hash'[name][i]
      BY <1>2, <2>1 DEF HashTruthful, Holding, Settled, TableOf
    <3>1. name \in Names /\ name \in HashKeys
      BY NamesOfTables
    <3>2. CASE name = n
      BY <2>4, <2>5, <3>2
    <3>3. CASE name # n
      <4>1. TableOf(name) # t
        BY <2>3, <3>1, <3>3 DEF Names, TableOf
      <4>2. <<TableOf(name), i>> \notin torn
        BY <2>1, <4>1
      <4>3. hash'[name] = hash[name]
        BY <2>4, <3>1, <3>3
      <4> QED
        BY <1>0, <4>2, <4>3 DEF HashTruthful, Holding, Settled
    <3> QED
      BY <3>2, <3>3
  <2>10. VersionTruthful'
    <3> SUFFICES ASSUME ~overlapped, version > 0, NEW name \in DOMAIN Releases[version],
                        TableOf(name) \in Upserted, NEW i \in DOMAIN Releases[version][name],
                        <<TableOf(name), i>> \notin torn' \cup older
                 PROVE  \E v \in version..Newest : Holds(v, name, i)'
      BY <1>2, <2>1 DEF VersionTruthful, TableOf, Upserted, Newest
    <3>1. CASE <<TableOf(name), i>> \notin torn
      <4>1. PICK v \in version..Newest : Holds(v, name, i)
        BY <1>0, <3>1 DEF VersionTruthful
      <4> QED
        BY <2>1, <4>1 DEF Holds, TableOf
    <3>2. CASE <<TableOf(name), i>> \in torn
      <4>1. TableOf(name) = t /\ i \in DOMAIN f
        BY <2>1, <3>2
      <4>2. version \in Versions
        BY <1>0, VersionRange DEF SeedInv, Shape
      <4>3. name \in Names
        BY <4>2, FileRows
      <4>4. name = n
        BY <2>3, <4>1, <4>3, NamesOfTables
      <4>5. table[t][i] = f[i] /\ r \in version..Newest
        BY <1>0, <1>1, <2>3, <2>5, <4>1, VersionRange
      <4>6. PICK v : v = r
        OBVIOUS
      <4>7. Holds(v, name, i)'
        BY <2>1, <2>3, <4>1, <4>4, <4>5, <4>6 DEF Holds, TableOf
      <4> QED
        BY <4>5, <4>6, <4>7
    <3> QED
      BY <3>1, <3>2
  <2> QED
    BY <1>3, <2>6, <2>8, <2>9, <2>10 DEF TruthInv
<1> QED
  BY <1>7, <1>8, <1>9, <1>10, <1>11, <1>12, <1>13 DEF CallStep

\* A call that begins has everything before it.
LEMMA StartTruth ==
  ASSUME TruthInv, SeedInv', NEW c \in Calls, NEW v \in Versions, NEW read \in BOOLEAN,
         StartRefresh(c, v, read)
  PROVE  TruthInv'
<1>0. /\ Data /\ BootWrote /\ CallWrote /\ CallHashed /\ HashTruthful /\ VersionTruthful
      /\ SeedInv /\ version \in Nat /\ call \in [Calls -> CallStates]
  BY VersionRange DEF TruthInv, SeedInv, Shape
<1> DEFINE s == [Idle EXCEPT !.pc = "next", !.release = v, !.left = DOMAIN Releases[v]]
<1>1. s.pc = "next" /\ s.left = DOMAIN Releases[s.release]
  BY IdleShape DEF CallStates
<1>2. /\ call' = [call EXCEPT ![c] = s] /\ UNCHANGED <<table, hash, version, torn, older, boot>>
      /\ overlapped' = (overlapped \/ \E d \in Calls : Active(d)) /\ boot.pc = "up"
  BY DEF StartRefresh, Active, metadata
<1> HIDE DEF s
<1>3. call'[c] = s /\ \A d \in Calls \ {c} : call'[d] = call[d]
  BY <1>0, <1>2
<1>4. Data' /\ BootWrote'
  BY <1>0, <1>2 DEF Data, TableNames, BootWrote
<1>5. HashTruthful' /\ VersionTruthful'
  BY <1>0, <1>2, PromisesKept
<1>6. ASSUME NEW d \in Calls, call'[d].pc = "rows"
      PROVE  /\ overlapped' /\ call'[d].name \in DOMAIN Releases[call'[d].release]
  <2>1. call'[d] = call[d]
    BY <1>1, <1>3, <1>6
  <2> QED
    BY <1>0, <1>2, <1>6, <2>1 DEF CallWrote, Active
<1>7. CallWrote'
  BY <1>6 DEF CallWrote
<1>8. CallHashed'
  BY <1>1, <1>2, <1>3 DEF CallHashed, Active
<1> QED
  BY <1>4, <1>5, <1>7, <1>8 DEF TruthInv

\* The empty tables promise nothing.
LEMMA InitTruth == Init => TruthInv
<1> SUFFICES ASSUME Init PROVE TruthInv
  OBVIOUS
<1>1. SeedInv
  BY InitHolds
<1>2. /\ table = [t \in TableNames |-> [i \in RowIds |-> Absent]]
      /\ hash = [key \in HashKeys |-> NoHash] /\ version = 0
      /\ boot.pc = "start" /\ boot.k = 1
      /\ \A c \in Calls : call[c].pc = "idle"
  BY IdleShape DEF Init, TableNames
<1>3. DOMAIN NoHash = {}
  BY DEF NoHash
<1>4. Data
  BY <1>2, <1>3, NamesOfTables DEF Data
<1>5. BootWrote /\ VersionTruthful
  BY <1>2 DEF BootWrote, VersionTruthful
<1>6. CallWrote /\ CallHashed
  BY <1>2 DEF CallWrote, CallHashed, Active
<1>7. HashTruthful
  BY <1>2, <1>3, NamesOfTables DEF HashTruthful, Holding, Settled
<1> QED
  BY <1>1, <1>4, <1>5, <1>6, <1>7 DEF TruthInv

\* Every step keeps what hashes and version promise.
LEMMA StepTruth ==
  ASSUME TruthInv, [Next]_vars
  PROVE  TruthInv'
<1>1. SeedInv'
  BY StepKeeps DEF TruthInv
<1>2. CASE BootStep \/ SeedInit(FALSE) \/ InitFails \/ Crash
  BY <1>1, <1>2, BootTruth
<1>3. CASE \E c \in Calls : \/ CallStep(c) \/ FetchOrStatementFails(c) \/ FinishFails(c)
                           \/ \E name \in Names : RefetchEntry(c, name)
  BY <1>1, <1>3, CallTruth
<1>4. CASE \E c \in Calls, v \in Versions, read \in BOOLEAN : StartRefresh(c, v, read)
  BY <1>1, <1>4, StartTruth
<1>5. CASE \/ \E c \in Calls : ManifestFails(c) \/ \E v \in Versions : UpToDate(c, v)
           \/ UNCHANGED vars
  <2>1. UNCHANGED <<table, hash, version, boot, call, torn, older, overlapped>>
    BY <1>5 DEF ManifestFails, UpToDate, vars, metadata
  <2>2. Data' /\ BootWrote'
    BY <2>1 DEF TruthInv, Data, TableNames, BootWrote, Written
  <2>4. CallWrote'
    BY <2>1 DEF TruthInv, CallWrote, Written, File
  <2>5. CallHashed'
    BY <2>1 DEF TruthInv, CallHashed, File, Active
  <2>3. HashTruthful' /\ VersionTruthful'
    BY <2>1 DEF TruthInv, HashTruthful, VersionTruthful, Holding, Settled, Holds
  <2> QED
    BY <1>1, <2>2, <2>3, <2>4, <2>5 DEF TruthInv
<1> QED
  BY <1>2, <1>3, <1>4, <1>5 DEF Next

\* The version in seed_metadata never promises an updatable row that is not there,
\* for any releases, calls and any number of failures and crashes half-way through
\* seed_init and seed_refresh, with the exceptions VersionTruthful names.
THEOREM VersionKept == Spec => []VersionTruthful
<1>1. Init => TruthInv
  BY InitTruth
<1>2. TruthInv /\ [Next]_vars => TruthInv'
  BY StepTruth
<1>3. TruthInv => VersionTruthful
  BY DEF TruthInv
<1> QED
  BY <1>1, <1>2, <1>3, PTL DEF Spec

=============================================================================
