------------------------- MODULE AuctionSyncProofs -------------------------
(***************************************************************************)
(* Proofs about AuctionSync, for any number of auctions, any batches and   *)
(* pages, and any number of failures, cleanups and registrations: what may *)
(* leave the database, what may come back, and what the importer has not   *)
(* passed by.                                                              *)
(***************************************************************************)
EXTENDS AuctionSync, FiniteSetTheorems, SequenceTheorems, TLAPS

Created == {id \in Ids : Happened("created", id, Len(log))}
Deleted == {id \in Ids : Happened("deleted", id, Len(log))}

\* An auction is created after those with a smaller id.
CreatedInOrder ==
  \A i \in 1 .. Len(log) : log[i][1] = "created" =>
    \A id \in 1 .. log[i][2] - 1 : \E k \in 1 .. i - 1 : log[k] = <<"created", id>>

\* Whatever a program holds is about auctions that there have been, and what it takes
\* for gone is gone for good.
ImporterInv == \A id \in Ids : importer.found[id] # "none" => id \in Created

CleanerInv ==
  /\ cleaner.page \subseteq Created /\ cleaner.todo \subseteq cleaner.page
  /\ cleaner.gone \subseteq Deleted
  /\ cleaner.pc \in {"check", "delete app"} => cleaner.todo # {}
  /\ cleaner.pc = "delete rows" => cleaner.todo = {}
  /\ WithClient => cleaner.page \ cleaner.todo \subseteq cleaner.gone

\* What the watcher has looked up is either gone for good, or there is a deletion to
\* come that the watcher has not dealt with.
WatcherInv ==
  /\ \A i \in watcher.todo : log[i][1] = watcher.event
  /\ watcher.pc \in {"idle", "dead"} => watcher.event = "created"
  /\ watcher.pc \in {"lookup", "write"} => watcher.todo # {}
  /\ watcher.pc = "save" => watcher.todo = {}
  /\ watcher.pc = "write" /\ watcher.event = "deleted" => watcher.seen = "none"
  /\ watcher.pc = "write" /\ watcher.seen = "none" => WatchedId \in Deleted
  /\ watcher.pc = "write" /\ watcher.seen # "none" =>
       \A i \in 1 .. cursor["deleted"] : log[i] # <<"deleted", WatchedId>>

SyncInv ==
  /\ SyncTypeOK
  /\ CreatedInOrder
  /\ Rows \subseteq Created
  /\ ImporterInv
  /\ CleanerInv
  /\ WatcherInv

-----------------------------------------------------------------------------
(***************************************************************************)
(* What the importer relies on while the manager stays registered.         *)
(***************************************************************************)
Stored(id) == Exists(id) => db[id] # "none"

\* The creations that the watcher is done with.
Handled(i) ==
  \/ i <= cursor["created"]
  \/ /\ watcher.pc \in {"lookup", "write", "save"} /\ watcher.event = "created"
     /\ i <= watcher.last /\ i \notin watcher.todo

WorkersIdle == {importer.pc, watcher.pc} \subseteq {"idle", "dead"}

\* While the manager is not registered it has no rows and no saved positions.
Unregistered ==
  ~registered => db = NoRows /\ cursor = [event \in {"created", "deleted"} |-> 0]

WhileRegistered ==
  registered =>
    /\ \A j \in Rows, id \in Ids : id <= j => Stored(id)
    /\ \A i \in 1 .. Len(log), id \in Ids : Handled(i) /\ log[i] = <<"created", id>> => Stored(id)
    /\ importer.pc = "search" =>
         \A id \in Ids : id <= importer.above => id \in Created /\ Stored(id)
    /\ importer.pc = "store" =>
         \A j, id \in Ids : importer.found[j] # "none" /\ id <= j =>
           importer.found[id] # "none" \/ Stored(id)
    /\ watcher.pc = "write" => watcher.seen # "unregistered"

SkipInv ==
  /\ SyncInv
  /\ Unregistered
  /\ \A i \in watcher.todo : i <= watcher.last
  /\ WhileRegistered

-----------------------------------------------------------------------------
(***************************************************************************)
(* Numbers.                                                                *)
(***************************************************************************)

\* Theorem WFMin with its conclusion as a leaf can use it.
LEMMA LeastElement ==
  ASSUME NEW R, NEW S, IsWellFoundedOn(R, S), NEW T, T \subseteq S, T # {}
  PROVE  \E x \in T : \A y \in T : ~(<<y, x>> \in R)
  BY WFMin

LEMMA NatLeast ==
  ASSUME NEW S, S \subseteq Nat, S # {}
  PROVE  \E i \in S : \A j \in S : i <= j
<1>1. PICK R : R = {ss \in Nat \X Nat : ss[1] < ss[2]}
  OBVIOUS
<1>2. IsWellFoundedOn(R, Nat)
  BY <1>1, NatLessThanWellFounded DEF OpToRel
<1>3. PICK i \in S : \A j \in S : ~(<<j, i>> \in R)
  BY <1>2, LeastElement
<1>4. ASSUME NEW j \in S
      PROVE  i <= j
  <2>1. i \in Nat /\ j \in Nat
    OBVIOUS
  <2>2. j < i => <<j, i>> \in R
    BY <1>1, <2>1
  <2>3. QED
    BY <1>3, <2>1, <2>2
<1>5. QED
  BY <1>4

\* The operator Least picks such an element.
LEMMA LeastIs ==
  ASSUME NEW S, S \subseteq Nat, S # {}
  PROVE  Least(S) \in S /\ \A j \in S : Least(S) <= j
  BY NatLeast DEF Least

\* A set of numbers with a bound has a greatest one.
LEMMA NatGreatest ==
  ASSUME NEW S, S \subseteq Nat, S # {}, NEW n \in Nat, \A i \in S : i <= n
  PROVE  \E i \in S : \A j \in S : j <= i
<1> DEFINE Above == {m \in Nat : \A i \in S : i <= m}
<1>1. Above \subseteq Nat /\ Above # {}
  OBVIOUS
<1>2. PICK m \in Above : \A k \in Above : m <= k
  <2> HIDE DEF Above
  <2>1. QED
    BY <1>1, NatLeast
<1>3. m \in Nat /\ \A i \in S : i <= m
  BY <1>2
<1>4. m \in S
  <2>1. SUFFICES ASSUME m \notin S PROVE FALSE
    OBVIOUS
  <2>2. \A i \in S : i <= m - 1
    BY <1>3, <2>1
  <2>3. m - 1 \in Nat
    <3>1. PICK i \in S : i \in Nat /\ i <= m - 1
      BY <2>2
    <3>2. QED
      BY <1>3, <3>1
  <2>4. m - 1 \in Above
    BY <2>2, <2>3
  <2>5. QED
    BY <1>2, <1>3, <2>4
<1>5. QED
  BY <1>3, <1>4

\* The first n of some numbers leave out none that is smaller than one of them.
LEMMA FirstOfIsClosed ==
  ASSUME NEW S, IsFiniteSet(S), S \subseteq Nat, NEW n \in Nat
  PROVE  /\ FirstOf(S, n) \subseteq S
         /\ \A i \in FirstOf(S, n), j \in S : j <= i => j \in FirstOf(S, n)
<1>1. ASSUME NEW i \in FirstOf(S, n), NEW j \in S, j <= i
      PROVE  j \in FirstOf(S, n)
  <2> DEFINE U == {k \in S : k <= i}
             V == {k \in S : k <= j}
  <2>1. i \in Nat /\ j \in Nat /\ i \in S /\ Cardinality(U) <= n
    BY DEF FirstOf
  <2>2. V \in SUBSET U
    <3>1. ASSUME NEW k \in S, k <= j
          PROVE  k <= i
      BY <1>1, <2>1, <3>1
    <3>2. QED
      BY <3>1
  <2>3. IsFiniteSet(U)
    <3>1. U \in SUBSET S
      OBVIOUS
    <3> HIDE DEF U
    <3>2. QED
      BY <3>1, FS_Subset
  <2>4. IsFiniteSet(V) /\ Cardinality(V) <= Cardinality(U)
    <3> HIDE DEF U, V
    <3>1. QED
      BY <2>2, <2>3, FS_Subset
  <2>5. Cardinality(V) \in Nat /\ Cardinality(U) \in Nat
    BY <2>3, <2>4, FS_CardinalityType
  <2>6. Cardinality(V) <= n
    BY <2>1, <2>4, <2>5
  <2>7. QED
    BY <2>6 DEF FirstOf
<1>2. QED
  BY <1>1 DEF FirstOf

-----------------------------------------------------------------------------
(***************************************************************************)
(* The chain.                                                              *)
(***************************************************************************)
LEMMA ConstantTypes ==
  /\ MaxAuctions \in Nat \ {0} /\ Ids \subseteq Nat \ {0} /\ IsFiniteSet(Ids)
  /\ \A id \in Ids : id <= MaxAuctions
  /\ ImportBatch \in Nat /\ WatchBatch \in Nat /\ PageSize \in Nat
  /\ MaxFailures \in Nat /\ MaxCleanups \in Nat /\ MaxRegistrations \in Nat
<1>1. {MaxAuctions, ImportBatch, WatchBatch, PageSize} \subseteq Nat \ {0}
  BY SyncAssumption DEF SyncAssumption
<1>2. {MaxFailures, MaxCleanups, MaxRegistrations} \subseteq Nat
  BY SyncAssumption DEF SyncAssumption
<1>3. IsFiniteSet(Ids)
  BY <1>1, FS_Interval DEF Ids
<1>4. QED
  BY <1>1, <1>2, <1>3 DEF Ids

LEMMA LogType ==
  ASSUME SyncTypeOK
  PROVE  /\ Len(log) \in Nat /\ indexed \in Nat /\ indexed <= Len(log)
         /\ \A i \in 1 .. Len(log) : /\ log[i] \in Kinds \X Ids
                                     /\ log[i][1] \in Kinds /\ log[i][2] \in Ids
                                     /\ log[i] = <<log[i][1], log[i][2]>>
<1>1. log \in Seq(Kinds \X Ids) /\ indexed \in 0 .. Len(log)
  BY DEF SyncTypeOK
<1>2. Len(log) \in Nat
  BY <1>1, LenProperties
<1>3. \A i \in 1 .. Len(log) : log[i] \in Kinds \X Ids
  BY <1>1, ElementOfSeq
<1>4. QED
  BY <1>1, <1>2, <1>3

\* The log only grows.
Kept ==
  /\ Len(log) <= Len(log') /\ Len(log') \in Nat
  /\ \A i \in 1 .. Len(log) : log'[i] = log[i]

LEMMA Appended ==
  ASSUME SyncTypeOK, NEW kind \in Kinds, NEW id \in Ids, log' = Append(log, <<kind, id>>)
  PROVE  /\ log' \in Seq(Kinds \X Ids) /\ Kept
         /\ Len(log') = Len(log) + 1 /\ log'[Len(log) + 1] = <<kind, id>>
<1>1. log \in Seq(Kinds \X Ids) /\ Len(log) \in Nat
  BY LogType DEF SyncTypeOK
<1>2. PICK e \in Kinds \X Ids : e = <<kind, id>>
  OBVIOUS
<1>3. log' = Append(log, e)
  BY <1>2
<1>4. /\ log' \in Seq(Kinds \X Ids) /\ Len(log') = Len(log) + 1
      /\ log'[Len(log) + 1] = e
      /\ \A i \in 1 .. Len(log) : log'[i] = log[i]
  BY <1>1, <1>3
<1>5. QED
  BY <1>1, <1>2, <1>4 DEF Kept

LEMMA ExistsIs ==
  ASSUME NEW id \in Ids
  PROVE  Exists(id) <=> id \in Created /\ id \notin Deleted
  BY DEF Exists, OnChain, StatusAt, Created, Deleted

LEMMA KeptGrows ==
  ASSUME SyncTypeOK, Kept
  PROVE  Created \subseteq Created' /\ Deleted \subseteq Deleted'
<1>1. Len(log) \in Nat
  BY LogType
<1>2. ASSUME NEW kind, NEW id, \E i \in 1 .. Len(log) : log[i] = <<kind, id>>
      PROVE  \E i \in 1 .. Len(log') : log'[i] = <<kind, id>>
  BY <1>1, <1>2 DEF Kept
<1>3. QED
  BY <1>2 DEF Created, Deleted, Happened

\* Whatever a step does, what has happened has happened.
LEMMA StepKeeps ==
  ASSUME SyncTypeOK, [Next]_vars
  PROVE  Kept
<1>1. Len(log) \in Nat
  BY LogType
<1>2. CASE log' = log
  BY <1>1, <1>2 DEF Kept
<1>3. ASSUME NEW kind \in Kinds, NEW id \in Ids, log' = Append(log, <<kind, id>>)
      PROVE  Kept
  BY <1>3, Appended
<1>4. CASE CreateAuction
  BY <1>3, <1>4 DEF CreateAuction, Kinds
<1>5. ASSUME NEW id \in Ids, FinalizeAuction(id) \/ DeleteAuction(id)
      PROVE  Kept
  BY <1>3, <1>5 DEF FinalizeAuction, DeleteAuction, Kinds
<1>6. CASE CleanerDeletesApp
  <2>1. cleaner.pc = "delete app"
    BY <1>6 DEF CleanerDeletesApp
  <2>2. CASE log' = Append(log, <<"deleted", Least(cleaner.todo)>>) /\ OnChain(Least(cleaner.todo)) = "finalized"
    <3>1. PICK i \in 1 .. Len(log) : log[i] = <<"finalized", Least(cleaner.todo)>>
      BY <2>2 DEF OnChain, StatusAt, Happened
    <3>2. Least(cleaner.todo) \in Ids
      <4>1. log[i][2] \in Ids
        BY LogType
      <4>2. QED
        BY <3>1, <4>1
    <3>3. QED
      BY <1>3, <2>2, <3>2 DEF Kinds
  <2>3. QED
    BY <1>2, <1>6, <2>2 DEF CleanerDeletesApp
<1>7. CASE Index \/ Register \/ Unregister
  BY <1>2, <1>7 DEF Index, Register, Unregister, chainVars
<1>8. CASE ImporterStep \/ WatcherStep
  BY <1>2, <1>8 DEF ImporterStep, ImporterReadsMax, ImporterSearches, ImporterStores, WatcherStep,
     WatcherSearches, WatcherLooksUp, WatcherWrites, WatcherSaves, chainVars
<1>9. CASE CleanerStarts \/ CleanerSearches \/ CleanerChecks \/ CleanerDeletesRows
  BY <1>2, <1>9 DEF CleanerStarts, CleanerSearches, CleanerChecks, CleanerDeletesRows, chainVars
<1>10. CASE WorkerFails \/ RestartService \/ NothingToPoll \/ UNCHANGED vars
  BY <1>2, <1>10 DEF WorkerFails, RestartService, NothingToPoll, vars, chainVars
<1>11. QED
  BY <1>4, <1>5, <1>6, <1>7, <1>8, <1>9, <1>10 DEF Next, CleanerStep

-----------------------------------------------------------------------------
(***************************************************************************)
(* Which program changes what.                                             *)
(***************************************************************************)
DeadImporter == [IdleImporter EXCEPT !.pc = "dead"]
DeadWatcher == [IdleWatcher EXCEPT !.pc = "dead"]

LEMMA ImporterFrame ==
  ASSUME [Next]_vars
  PROVE  importer' = importer \/ ImporterStep \/ importer' = IdleImporter \/ importer' = DeadImporter
  BY DEF Next, CreateAuction, FinalizeAuction, DeleteAuction, Index, Register, Unregister,
     WatcherStep, WatcherSearches, WatcherLooksUp, WatcherWrites, WatcherSaves, CleanerStarts,
     CleanerStep, CleanerSearches, CleanerChecks, CleanerDeletesApp, CleanerDeletesRows,
     WorkerFails, RestartService, NothingToPoll, vars, DeadImporter

LEMMA WatcherFrame ==
  ASSUME [Next]_vars
  PROVE  watcher' = watcher \/ WatcherStep \/ watcher' = IdleWatcher \/ watcher' = DeadWatcher
  BY DEF Next, CreateAuction, FinalizeAuction, DeleteAuction, Index, Register, Unregister,
     ImporterStep, ImporterReadsMax, ImporterSearches, ImporterStores, CleanerStarts,
     CleanerStep, CleanerSearches, CleanerChecks, CleanerDeletesApp, CleanerDeletesRows,
     WorkerFails, RestartService, NothingToPoll, vars, DeadWatcher

LEMMA CleanerFrame ==
  ASSUME [Next]_vars
  PROVE  cleaner' = cleaner \/ CleanerStarts \/ CleanerStep
  BY DEF Next, CreateAuction, FinalizeAuction, DeleteAuction, Index, Register, Unregister,
     ImporterStep, ImporterReadsMax, ImporterSearches, ImporterStores, WatcherStep,
     WatcherSearches, WatcherLooksUp, WatcherWrites, WatcherSaves,
     WorkerFails, RestartService, NothingToPoll, vars

LEMMA RowsFrame ==
  ASSUME [Next]_vars
  PROVE  db' = db \/ Unregister \/ ImporterStores \/ WatcherWrites \/ CleanerDeletesRows
  BY DEF Next, CreateAuction, FinalizeAuction, DeleteAuction, Index, Register, ImporterStep,
     ImporterReadsMax, ImporterSearches, WatcherStep, WatcherSearches, WatcherLooksUp,
     WatcherSaves, CleanerStarts, CleanerStep, CleanerSearches, CleanerChecks,
     CleanerDeletesApp, WorkerFails, RestartService, NothingToPoll, vars, dbVars

LEMMA CursorFrame ==
  ASSUME [Next]_vars
  PROVE  cursor' = cursor \/ Unregister \/ WatcherSaves
  BY DEF Next, CreateAuction, FinalizeAuction, DeleteAuction, Index, Register, ImporterStep,
     ImporterReadsMax, ImporterSearches, ImporterStores, WatcherStep, WatcherSearches,
     WatcherLooksUp, WatcherWrites, CleanerStarts, CleanerStep, CleanerSearches, CleanerChecks,
     CleanerDeletesApp, CleanerDeletesRows, WorkerFails, RestartService, NothingToPoll, vars, dbVars

LEMMA RegistrationFrame ==
  ASSUME [Next]_vars
  PROVE  UNCHANGED <<registered, registrations>> \/ Register \/ Unregister
  BY DEF Next, CreateAuction, FinalizeAuction, DeleteAuction, Index, ImporterStep,
     ImporterReadsMax, ImporterSearches, ImporterStores, WatcherStep, WatcherSearches,
     WatcherLooksUp, WatcherWrites, WatcherSaves, CleanerStarts, CleanerStep, CleanerSearches,
     CleanerChecks, CleanerDeletesApp, CleanerDeletesRows, WorkerFails, RestartService,
     NothingToPoll, vars, dbVars

LEMMA ChainFrame ==
  ASSUME [Next]_vars
  PROVE  \/ UNCHANGED <<log, indexed>> \/ CreateAuction \/ Index \/ CleanerDeletesApp
         \/ \E id \in Ids : FinalizeAuction(id) \/ DeleteAuction(id)
  BY DEF Next, Register, Unregister, ImporterStep, ImporterReadsMax, ImporterSearches,
     ImporterStores, WatcherStep, WatcherSearches, WatcherLooksUp, WatcherWrites, WatcherSaves,
     CleanerStarts, CleanerStep, CleanerSearches, CleanerChecks, CleanerDeletesRows, WorkerFails,
     RestartService, NothingToPoll, vars, chainVars

LEMMA BoundsFrame ==
  ASSUME [Next]_vars
  PROVE  /\ failures' = failures \/ (failures < MaxFailures /\ failures' = failures + 1)
         /\ cleanups' = cleanups \/ (cleanups < MaxCleanups /\ cleanups' = cleanups + 1)
  BY DEF Next, CreateAuction, FinalizeAuction, DeleteAuction, Index, Register, Unregister,
     ImporterStep, ImporterReadsMax, ImporterSearches, ImporterStores, WatcherStep,
     WatcherSearches, WatcherLooksUp, WatcherWrites, WatcherSaves, CleanerStarts, CleanerStep,
     CleanerSearches, CleanerChecks, CleanerDeletesApp, CleanerDeletesRows, WorkerFails,
     RestartService, NothingToPoll, vars, bounds

-----------------------------------------------------------------------------
(***************************************************************************)
(* The types, component by component.                                      *)
(***************************************************************************)
ImporterType ==
  [pc : {"idle", "search", "store", "dead"}, above : 0 .. MaxAuctions, found : [Ids -> Statuses]]

\* The watcher's state when n things have happened.
WatcherType(n) ==
  [pc : {"idle", "lookup", "write", "save", "dead"}, event : {"created", "deleted"},
   todo : SUBSET (1 .. n), last : 0 .. n, seen : Statuses \cup {"unregistered"}]

CleanerType ==
  [pc : {"idle", "search", "check", "delete app", "delete rows"}, total : 0 .. MaxAuctions,
   page : SUBSET Ids, todo : SUBSET Ids, gone : SUBSET Ids]

LEMMA StatusType ==
  /\ NoRows \in [Ids -> Statuses]
  /\ \A id, n : StatusAt(id, n) \in Statuses
  BY DEF NoRows, Statuses, StatusAt

LEMMA ImporterTypeStep ==
  ASSUME SyncTypeOK, [Next]_vars
  PROVE  importer' \in ImporterType
<1>1. importer \in ImporterType /\ db \in [Ids -> Statuses]
  BY DEF SyncTypeOK, ImporterType
<1>2. MaxAuctions \in Nat /\ 0 \in 0 .. MaxAuctions
  BY ConstantTypes
<1>3. IdleImporter \in ImporterType /\ DeadImporter \in ImporterType
  BY <1>2, StatusType DEF ImporterType, IdleImporter, DeadImporter
<1>4. CASE ImporterReadsMax
  <2>1. MaxAuctionAppId \in 0 .. MaxAuctions
    <3>1. CASE Rows = {}
      BY <1>2, <3>1 DEF MaxAuctionAppId
    <3>2. CASE Rows # {}
      <4>1. Rows \subseteq Nat /\ \A id \in Rows : id <= MaxAuctions /\ id \in Ids
        BY ConstantTypes DEF Rows
      <4>2. \E id \in Rows : \A j \in Rows : j <= id
        BY <1>2, <3>2, <4>1, NatGreatest
      <4>3. MaxAuctionAppId \in Rows
        BY <3>2, <4>2 DEF MaxAuctionAppId
      <4>4. QED
        BY <1>2, <4>1, <4>3
    <3>3. QED
      BY <3>1, <3>2
  <2>2. importer' = [importer EXCEPT !.pc = "search", !.above = MaxAuctionAppId]
    BY <1>4 DEF ImporterReadsMax
  <2>3. QED
    BY <1>1, <2>1, <2>2 DEF ImporterType
<1>5. CASE ImporterSearches
  <2> DEFINE page == SearchPage(importer.above)
             found == [id \in Ids |-> IF id \in page THEN StatusAt(id, indexed) ELSE "none"]
  <2>1. found \in [Ids -> Statuses]
    BY StatusType DEF Statuses
  <2>2. importer' = IdleImporter \/ importer' = [pc |-> "store", above |-> 0, found |-> found]
    BY <1>5 DEF ImporterSearches
  <2> HIDE DEF found
  <2>3. QED
    BY <1>2, <1>3, <2>1, <2>2 DEF ImporterType
<1>6. CASE ImporterStores
  BY <1>3, <1>6 DEF ImporterStores, DeadImporter
<1>7. QED
  BY <1>1, <1>3, <1>4, <1>5, <1>6, ImporterFrame DEF ImporterStep

\* The positions that the watcher searches for an event.
Positions(event) == {i \in cursor[event] + 1 .. indexed : log[i][1] = event}

LEMMA PositionsType ==
  ASSUME SyncTypeOK, NEW event \in {"created", "deleted"}
  PROVE  /\ IsFiniteSet(Positions(event))
         /\ Positions(event) \subseteq Nat
         /\ \A i : i \in Positions(event) <=>
              i \in 1 .. Len(log) /\ i > cursor[event] /\ i <= indexed /\ log[i][1] = event
<1>1. Len(log) \in Nat /\ indexed \in Nat /\ indexed <= Len(log)
  BY LogType
<1>2. cursor[event] \in Nat
  <2>1. cursor \in [{"created", "deleted"} -> 0 .. Len(log)]
    BY DEF SyncTypeOK
  <2>2. cursor[event] \in 0 .. Len(log)
    BY <2>1
  <2>3. QED
    BY <1>1, <2>2
<1>3. IsFiniteSet(cursor[event] + 1 .. indexed)
  <2>1. cursor[event] + 1 \in Int /\ indexed \in Int
    BY <1>1, <1>2
  <2>2. QED
    BY <2>1, FS_Interval
<1>4. Positions(event) \in SUBSET (cursor[event] + 1 .. indexed)
  BY DEF Positions
<1>5. IsFiniteSet(Positions(event))
  BY <1>3, <1>4, FS_Subset
<1>6. QED
  BY <1>1, <1>2, <1>5 DEF Positions

\* A batch: the first positions, the last of which the watcher remembers.
LEMMA BatchIs ==
  ASSUME SyncTypeOK, WatcherSearches
  PROVE  \E event \in EventsWatched :
           LET batch == FirstOf(Positions(event), WatchBatch) IN
             /\ event \in {"created", "deleted"} /\ registered
             /\ watcher.pc = "idle"
             /\ watcher'.pc = "lookup" /\ watcher'.event = event /\ watcher'.todo = batch
             /\ watcher'.seen = "none"
             /\ watcher'.last \in batch /\ \A i \in batch : i <= watcher'.last
             /\ watcher' \in WatcherType(Len(log))
             /\ UNCHANGED <<log, indexed, registered, registrations, db, cursor>>
<1>1. PICK event \in EventsWatched :
        LET batch == FirstOf(Positions(event), WatchBatch) IN
          /\ batch # {}
          /\ watcher' = [pc |-> "lookup", event |-> event, todo |-> batch,
                         last |-> CHOOSE i \in batch : \A j \in batch : j <= i, seen |-> "none"]
  BY DEF WatcherSearches, Positions
<1>2. event \in {"created", "deleted"}
  BY SyncAssumption DEF SyncAssumption
<1> DEFINE batch == FirstOf(Positions(event), WatchBatch)
           last == CHOOSE i \in batch : \A j \in batch : j <= i
<1>3. Len(log) \in Nat /\ WatchBatch \in Nat
  BY LogType, ConstantTypes
<1>4. batch \subseteq Positions(event)
  BY DEF FirstOf
<1>5. batch \subseteq 1 .. Len(log) /\ batch \subseteq Nat /\ batch # {} /\ \A i \in batch : i <= Len(log)
  <2> HIDE DEF batch
  <2>1. batch # {}
    BY <1>1 DEF batch
  <2>2. QED
    BY <1>2, <1>3, <1>4, <2>1, PositionsType
<1>6. watcher' = [pc |-> "lookup", event |-> event, todo |-> batch, last |-> last, seen |-> "none"]
  BY <1>1
<1>7. last \in batch /\ \A j \in batch : j <= last
  <2> HIDE DEF batch
  <2>1. \E i \in batch : \A j \in batch : j <= i
    BY <1>3, <1>5, NatGreatest
  <2>2. QED
    BY <2>1
<1>8. registered /\ watcher.pc = "idle" /\ UNCHANGED <<log, indexed, registered, registrations, db, cursor>>
  BY DEF WatcherSearches, chainVars, dbVars
<1>9. watcher' \in WatcherType(Len(log)) /\ watcher'.todo = batch /\ watcher'.last = last
      /\ watcher'.pc = "lookup" /\ watcher'.event = event /\ watcher'.seen = "none"
  <2> HIDE DEF batch, last
  <2>1. last \in 0 .. Len(log)
    BY <1>3, <1>5, <1>7
  <2>2. QED
    BY <1>2, <1>5, <1>6, <2>1 DEF WatcherType, Statuses
<1>10. QED
  <2> HIDE DEF last
  <2>1. QED
    BY <1>2, <1>7, <1>8, <1>9

LEMMA WatcherTypeStep ==
  ASSUME SyncTypeOK, [Next]_vars
  PROVE  watcher' \in WatcherType(Len(log'))
<1>1. watcher \in WatcherType(Len(log))
  BY DEF SyncTypeOK, WatcherType
<1>2. Len(log) \in Nat /\ Len(log') \in Nat /\ Len(log) <= Len(log')
  BY LogType, StepKeeps DEF Kept
<1>3. \A w \in WatcherType(Len(log)) : w \in WatcherType(Len(log'))
  BY <1>2 DEF WatcherType
<1>4. IdleWatcher \in WatcherType(Len(log)) /\ DeadWatcher \in WatcherType(Len(log))
  BY <1>2 DEF WatcherType, IdleWatcher, DeadWatcher, Statuses
<1>5. CASE WatcherSearches
  BY <1>3, <1>5, BatchIs
<1>6. CASE WatcherLooksUp
  BY <1>1, <1>3, <1>6, StatusType DEF WatcherLooksUp, WatcherType, OnChain
<1>7. CASE WatcherWrites
  <2>1. CASE watcher' = [IdleWatcher EXCEPT !.pc = "dead"]
    BY <1>3, <1>4, <2>1 DEF DeadWatcher
  <2>2. CASE LET rest == watcher.todo \ {Least(watcher.todo)} IN
               watcher' = [watcher EXCEPT !.pc = IF rest = {} THEN "save" ELSE "lookup",
                                          !.todo = rest, !.seen = "none"]
    BY <1>1, <1>3, <2>2 DEF WatcherType, Statuses
  <2>3. QED
    BY <1>7, <2>1, <2>2 DEF WatcherWrites
<1>8. CASE WatcherSaves
  BY <1>3, <1>4, <1>8 DEF WatcherSaves, DeadWatcher
<1>9. QED
  BY <1>1, <1>3, <1>4, <1>5, <1>6, <1>7, <1>8, WatcherFrame DEF WatcherStep

LEMMA CleanerTypeStep ==
  ASSUME SyncTypeOK, CleanerInv, [Next]_vars
  PROVE  cleaner' \in CleanerType
<1>1. cleaner \in CleanerType
  BY DEF SyncTypeOK, CleanerType
<1>2. MaxAuctions \in Nat /\ IsFiniteSet(Ids) /\ Cardinality(Ids) = MaxAuctions
  BY ConstantTypes, FS_Interval DEF Ids
<1>3. IdleCleaner \in CleanerType /\ [IdleCleaner EXCEPT !.pc = "search"] \in CleanerType
  <2>1. 0 \in 0 .. MaxAuctions
    BY <1>2
  <2>2. IdleCleaner \in CleanerType
    BY <2>1 DEF CleanerType, IdleCleaner
  <2>3. \A c \in CleanerType : [c EXCEPT !.pc = "search"] \in CleanerType
    BY DEF CleanerType
  <2>4. QED
    BY <2>2, <2>3
<1>4. CASE CleanerStarts
  BY <1>1, <1>4 DEF CleanerStarts, CleanerType
<1>5. CASE CleanerSearches
  <2>1. PICK page : page = FirstOf(SearchFinalized, PageSize)
    OBVIOUS
  <2>2. page \in SUBSET Ids /\ SearchFinalized \in SUBSET Ids
    BY <2>1 DEF FirstOf, SearchFinalized
  <2>3. PICK n : n = Cardinality(SearchFinalized)
    OBVIOUS
  <2>4. n \in 0 .. MaxAuctions
    BY <1>2, <2>2, <2>3, FS_Subset, FS_CardinalityType
  <2>5. CASE cleaner' = [pc |-> "check", total |-> n, page |-> page, todo |-> page, gone |-> {}]
    BY <2>2, <2>4, <2>5 DEF CleanerType
  <2>6. QED
    BY <1>3, <1>5, <2>1, <2>3, <2>5 DEF CleanerSearches
<1>6. ASSUME NEW gone \in BOOLEAN, cleaner' = Checked(gone), cleaner.todo # {}
      PROVE  cleaner' \in CleanerType
  <2>1. Least(cleaner.todo) \in Ids
    BY <1>1, <1>6, LeastIs, ConstantTypes DEF CleanerType
  <2>2. QED
    BY <1>1, <1>6, <2>1 DEF Checked, CleanerType
<1>7. CASE CleanerChecks
  BY <1>1, <1>6, <1>7 DEF CleanerChecks, CleanerInv, CleanerType
<1>8. CASE CleanerDeletesApp
  BY <1>1, <1>3, <1>6, <1>8 DEF CleanerDeletesApp, CleanerInv
<1>9. CASE CleanerDeletesRows
  BY <1>3, <1>9 DEF CleanerDeletesRows
<1>10. QED
  BY <1>1, <1>4, <1>5, <1>7, <1>8, <1>9, CleanerFrame DEF CleanerStep

LEMMA TypeStep ==
  ASSUME SyncTypeOK, CleanerInv, WatcherInv, [Next]_vars
  PROVE  SyncTypeOK'
<1>1. Kept /\ Len(log) \in Nat /\ indexed \in Nat /\ indexed <= Len(log)
  BY LogType, StepKeeps
<1>2. log' \in Seq(Kinds \X Ids) /\ indexed' \in 0 .. Len(log')
  <2>1. log' \in Seq(Kinds \X Ids)
    <3>1. CASE log' = log
      BY <3>1 DEF SyncTypeOK
    <3>2. ASSUME NEW kind \in Kinds, NEW id \in Ids, log' = Append(log, <<kind, id>>)
          PROVE  log' \in Seq(Kinds \X Ids)
      BY <3>2, Appended
    <3>3. CASE CreateAuction
      BY <3>2, <3>3 DEF CreateAuction, Kinds
    <3>4. ASSUME NEW id \in Ids, FinalizeAuction(id) \/ DeleteAuction(id)
          PROVE  log' \in Seq(Kinds \X Ids)
      BY <3>2, <3>4 DEF FinalizeAuction, DeleteAuction, Kinds
    <3>5. CASE CleanerDeletesApp
      <4>1. cleaner.todo # {} /\ cleaner.todo \subseteq Ids
        BY <3>5 DEF CleanerDeletesApp, CleanerInv, SyncTypeOK
      <4>2. Least(cleaner.todo) \in Ids
        BY <4>1, LeastIs, ConstantTypes
      <4>3. QED
        BY <3>1, <3>2, <3>5, <4>2 DEF CleanerDeletesApp, Kinds
    <3>6. QED
      BY <3>1, <3>3, <3>4, <3>5, ChainFrame DEF Index
  <2>2. indexed' = indexed \/ (log' = log /\ indexed < Len(log) /\ indexed' = indexed + 1)
    BY ChainFrame DEF CreateAuction, FinalizeAuction, DeleteAuction, Index, CleanerDeletesApp
  <2>3. QED
    BY <1>1, <2>1, <2>2 DEF Kept
<1>3. registered' \in BOOLEAN /\ registrations' \in 0 .. MaxRegistrations
  <2>1. registered \in BOOLEAN /\ registrations \in 0 .. MaxRegistrations
    BY DEF SyncTypeOK
  <2>2. MaxRegistrations \in Nat
    BY ConstantTypes
  <2>3. registrations' = registrations \/
        (registrations < MaxRegistrations /\ registrations' = registrations + 1)
    BY RegistrationFrame DEF Register, Unregister
  <2>4. registered' \in BOOLEAN
    BY <2>1, RegistrationFrame DEF Register, Unregister
  <2>5. QED
    BY <2>1, <2>2, <2>3, <2>4
<1>4. db' \in [Ids -> Statuses]
  <2>1. db \in [Ids -> Statuses] /\ importer.found \in [Ids -> Statuses]
    BY DEF SyncTypeOK
  <2>2. CASE ImporterStores
    BY <2>1, <2>2 DEF ImporterStores
  <2>3. CASE WatcherWrites
    <3>1. watcher.seen \in Statuses \cup {"unregistered"}
      BY DEF SyncTypeOK
    <3>2. Refreshed(WatchedId, watcher.seen) \in [Ids -> Statuses]
      BY <2>1, <3>1 DEF Refreshed
    <3>3. QED
      BY <2>1, <2>3, <3>2 DEF WatcherWrites
  <2>4. CASE CleanerDeletesRows
    BY <2>1, <2>4 DEF CleanerDeletesRows, Statuses
  <2>5. QED
    BY <2>1, <2>2, <2>3, <2>4, RowsFrame, StatusType DEF Unregister
<1>5. cursor' \in [{"created", "deleted"} -> 0 .. Len(log')]
  <2>1. cursor \in [{"created", "deleted"} -> 0 .. Len(log)]
    BY DEF SyncTypeOK
  <2>2. 0 .. Len(log) \subseteq 0 .. Len(log') /\ 0 \in 0 .. Len(log')
    BY <1>1 DEF Kept
  <2>3. cursor \in [{"created", "deleted"} -> 0 .. Len(log')]
    BY <2>1, <2>2
  <2>4. watcher.last \in 0 .. Len(log) /\ watcher.event \in {"created", "deleted"}
    BY DEF SyncTypeOK
  <2>5. QED
    BY <2>2, <2>3, <2>4, CursorFrame DEF Unregister, WatcherSaves
<1>6. failures' \in 0 .. MaxFailures /\ cleanups' \in 0 .. MaxCleanups
  <2>1. failures \in 0 .. MaxFailures /\ cleanups \in 0 .. MaxCleanups
    BY DEF SyncTypeOK
  <2>2. QED
    BY <2>1, ConstantTypes, BoundsFrame
<1>7. importer' \in ImporterType /\ watcher' \in WatcherType(Len(log')) /\ cleaner' \in CleanerType
  BY ImporterTypeStep, WatcherTypeStep, CleanerTypeStep
<1>8. QED
  BY <1>2, <1>3, <1>4, <1>5, <1>6, <1>7 DEF SyncTypeOK, ImporterType, WatcherType, CleanerType

-----------------------------------------------------------------------------
(***************************************************************************)
(* The invariant, part by part.                                            *)
(***************************************************************************)
LEMMA InitSyncInv == Init => SyncInv
<1> SUFFICES ASSUME Init PROVE SyncInv
  OBVIOUS
<1>1. log = <<>> /\ Len(log) = 0 /\ 1 .. Len(log) = {}
  BY DEF Init
<1>2. SyncTypeOK
  <2>1. log \in Seq(Kinds \X Ids) /\ indexed \in 0 .. Len(log)
    BY <1>1 DEF Init
  <2>2. importer \in ImporterType
    BY ConstantTypes, StatusType DEF Init, ImporterType, IdleImporter
  <2>3. watcher \in WatcherType(Len(log))
    BY <1>1 DEF Init, WatcherType, IdleWatcher, Statuses
  <2>4. cleaner \in CleanerType
    BY ConstantTypes DEF Init, CleanerType, IdleCleaner
  <2>5. cursor \in [{"created", "deleted"} -> 0 .. Len(log)] /\ db \in [Ids -> Statuses]
    BY <1>1, StatusType DEF Init
  <2>6. /\ registrations \in 0 .. MaxRegistrations /\ failures \in 0 .. MaxFailures
        /\ cleanups \in 0 .. MaxCleanups
    BY ConstantTypes DEF Init
  <2>7. registered \in BOOLEAN
    BY DEF Init
  <2>8. QED
    BY <2>1, <2>2, <2>3, <2>4, <2>5, <2>6, <2>7 DEF SyncTypeOK, ImporterType, WatcherType, CleanerType
<1>3. CreatedInOrder
  BY <1>1 DEF CreatedInOrder
<1>4. Rows \subseteq Created /\ ImporterInv
  BY DEF Init, Rows, NoRows, ImporterInv, IdleImporter
<1>5. CleanerInv
  BY DEF Init, CleanerInv, IdleCleaner
<1>6. WatcherInv
  BY DEF Init, WatcherInv, IdleWatcher
<1>7. QED
  BY <1>2, <1>3, <1>4, <1>5, <1>6 DEF SyncInv

\* The number of the auctions created is the next id.
LEMMA OrderStep ==
  ASSUME SyncTypeOK, CreatedInOrder, CleanerInv, [Next]_vars
  PROVE  CreatedInOrder'
<1>1. Len(log) \in Nat
  BY LogType
<1>2. CASE log' = log
  BY <1>2 DEF CreatedInOrder
<1>3. ASSUME NEW kind \in Kinds, NEW id \in Ids, log' = Append(log, <<kind, id>>),
             kind = "created" => \A j \in 1 .. id - 1 : \E k \in 1 .. Len(log) : log[k] = <<"created", j>>
      PROVE  CreatedInOrder'
  <2>1. /\ Len(log') = Len(log) + 1 /\ log'[Len(log) + 1] = <<kind, id>>
        /\ \A i \in 1 .. Len(log) : log'[i] = log[i]
    BY <1>3, Appended DEF Kept
  <2>2. SUFFICES ASSUME NEW i \in 1 .. Len(log'), log'[i][1] = "created",
                        NEW j \in 1 .. log'[i][2] - 1
                 PROVE  \E k \in 1 .. i - 1 : log'[k] = <<"created", j>>
    BY DEF CreatedInOrder
  <2>3. CASE i \in 1 .. Len(log)
    <3>1. log'[i] = log[i]
      BY <2>1, <2>3
    <3>2. PICK k \in 1 .. i - 1 : log[k] = <<"created", j>>
      BY <2>2, <2>3, <3>1 DEF CreatedInOrder
    <3>3. k \in 1 .. Len(log)
      BY <1>1, <2>3
    <3>4. QED
      BY <2>1, <3>2, <3>3
  <2>4. CASE i = Len(log) + 1
    <3>1. kind = "created" /\ log'[i][2] = id
      BY <2>1, <2>2, <2>4
    <3>2. PICK k \in 1 .. Len(log) : log[k] = <<"created", j>>
      BY <1>3, <3>1, <2>2
    <3>3. k \in 1 .. i - 1 /\ log'[k] = log[k]
      BY <1>1, <2>1, <2>4
    <3>4. QED
      BY <3>2, <3>3
  <2>5. QED
    BY <1>1, <2>1, <2>3, <2>4
<1>4. CASE CreateAuction
  <2>1. PICK id \in Ids : /\ {i \in Ids : Happened("created", i, Len(log))} = 1 .. id - 1
                          /\ log' = Append(log, <<"created", id>>)
    BY <1>4 DEF CreateAuction
  <2>2. \A j \in 1 .. id - 1 : \E k \in 1 .. Len(log) : log[k] = <<"created", j>>
    BY <2>1 DEF Happened
  <2>3. QED
    BY <1>3, <2>1, <2>2 DEF Kinds
<1>5. ASSUME NEW id \in Ids, FinalizeAuction(id) \/ DeleteAuction(id)
      PROVE  CreatedInOrder'
  BY <1>3, <1>5 DEF FinalizeAuction, DeleteAuction, Kinds
<1>6. CASE CleanerDeletesApp
  <2>1. cleaner.todo # {} /\ cleaner.todo \subseteq Ids
    BY <1>6 DEF CleanerDeletesApp, CleanerInv, SyncTypeOK
  <2>2. Least(cleaner.todo) \in Ids
    BY <2>1, LeastIs, ConstantTypes
  <2>3. QED
    BY <1>2, <1>3, <1>6, <2>2 DEF CleanerDeletesApp, Kinds
<1>7. QED
  BY <1>2, <1>4, <1>5, <1>6, ChainFrame DEF Index

\* What the watcher looks at.
LEMMA WatchedIs ==
  ASSUME SyncTypeOK, WatcherInv, watcher.todo # {}
  PROVE  /\ Least(watcher.todo) \in watcher.todo /\ Least(watcher.todo) \in 1 .. Len(log)
         /\ \A i \in watcher.todo : Least(watcher.todo) <= i
         /\ WatchedId \in Ids /\ log[Least(watcher.todo)] = <<watcher.event, WatchedId>>
         /\ watcher.event = "created" => WatchedId \in Created
         /\ watcher.event = "deleted" => WatchedId \in Deleted
<1>1. watcher.todo \subseteq 1 .. Len(log) /\ watcher.todo \subseteq Nat
  <2>1. watcher \in WatcherType(Len(log)) /\ Len(log) \in Nat
    BY LogType DEF SyncTypeOK, WatcherType
  <2>2. watcher.todo \subseteq 1 .. Len(log)
    BY <2>1 DEF WatcherType
  <2>3. QED
    BY <2>1, <2>2
<1>2. PICK i : i = Least(watcher.todo)
  OBVIOUS
<1>3. i \in watcher.todo /\ \A j \in watcher.todo : i <= j
  BY <1>1, <1>2, LeastIs
<1>4. i \in 1 .. Len(log)
  BY <1>1, <1>3
<1>5. log[i][1] = watcher.event /\ log[i][2] \in Ids /\ log[i] = <<log[i][1], log[i][2]>>
  BY <1>3, <1>4, LogType DEF WatcherInv
<1>6. WatchedId = log[i][2] /\ log[i] = <<watcher.event, WatchedId>> /\ WatchedId \in Ids
  BY <1>2, <1>5 DEF WatchedId
<1>7. /\ watcher.event = "created" => WatchedId \in Created
      /\ watcher.event = "deleted" => WatchedId \in Deleted
  BY <1>4, <1>6 DEF Created, Deleted, Happened
<1>8. QED
  BY <1>2, <1>3, <1>4, <1>6, <1>7

LEMMA RowsStep ==
  ASSUME SyncInv, [Next]_vars
  PROVE  Rows' \subseteq Created'
<1>1. Created \subseteq Created' /\ Rows \subseteq Created /\ SyncTypeOK
  BY StepKeeps, KeptGrows DEF SyncInv
<1>2. CASE Rows' \subseteq Rows
  BY <1>1, <1>2
<1>3. CASE Unregister
  BY <1>3 DEF Unregister, Rows, NoRows
<1>4. CASE ImporterStores
  BY <1>1, <1>4 DEF SyncInv, ImporterInv, ImporterStores, Rows
<1>5. CASE WatcherWrites
  <2>1. CASE db' = db
    BY <1>2, <2>1 DEF Rows
  <2>2. CASE watcher.pc = "write" /\ db' = Refreshed(WatchedId, watcher.seen) /\ watcher.seen # "unregistered"
    <3>1. db \in [Ids -> Statuses] /\ WatcherInv /\ watcher.todo # {}
      BY <2>2 DEF SyncInv, SyncTypeOK, WatcherInv
    <3>2. CASE watcher.seen = "none"
      BY <1>2, <2>2, <3>1, <3>2 DEF Refreshed, Rows
    <3>3. CASE watcher.seen # "none"
      <4>1. watcher.event = "created"
        BY <1>1, <2>2, <3>1, <3>3 DEF WatcherInv, SyncTypeOK
      <4>2. WatchedId \in Created
        BY <1>1, <3>1, <4>1, WatchedIs
      <4>3. Rows' \subseteq Rows \cup {WatchedId}
        BY <2>2, <3>1 DEF Refreshed, Rows
      <4>4. QED
        BY <1>1, <4>2, <4>3
    <3>4. QED
      BY <3>2, <3>3
  <2>3. QED
    BY <1>5, <2>1, <2>2 DEF WatcherWrites, Refreshed
<1>6. CASE CleanerDeletesRows
  BY <1>2, <1>6 DEF CleanerDeletesRows, Rows
<1>7. CASE db' = db
  BY <1>2, <1>7 DEF Rows
<1>8. QED
  BY <1>3, <1>4, <1>5, <1>6, <1>7, RowsFrame

LEMMA ImporterStepInv ==
  ASSUME SyncInv, [Next]_vars
  PROVE  ImporterInv'
<1>1. Created \subseteq Created' /\ ImporterInv /\ SyncTypeOK
  BY StepKeeps, KeptGrows DEF SyncInv
<1>2. ASSUME importer'.found = importer.found \/ importer'.found = NoRows
      PROVE  ImporterInv'
  BY <1>1, <1>2 DEF ImporterInv, NoRows
<1>3. IdleImporter.found = NoRows /\ DeadImporter.found = NoRows
  BY DEF IdleImporter, DeadImporter
<1>4. CASE ImporterReadsMax
  <2>1. importer \in ImporterType /\ importer' = [importer EXCEPT !.pc = "search", !.above = MaxAuctionAppId]
    BY <1>1, <1>4 DEF SyncTypeOK, ImporterType, ImporterReadsMax
  <2>2. importer'.found = importer.found
    BY <2>1 DEF ImporterType
  <2>3. QED
    BY <1>2, <2>2
<1>5. CASE ImporterSearches
  <2>1. CASE importer' = IdleImporter
    BY <1>2, <1>3, <2>1
  <2>2. CASE \A id \in Ids : importer'.found[id] # "none" => StatusAt(id, indexed) # "none"
    <3>1. ASSUME NEW id \in Ids, StatusAt(id, indexed) # "none"
          PROVE  id \in Created
      <4>1. PICK i \in 1 .. indexed : log[i] = <<"created", id>>
        BY <3>1 DEF StatusAt, Happened
      <4>2. i \in 1 .. Len(log)
        BY <1>1, LogType
      <4>3. QED
        BY <4>1, <4>2 DEF Created, Happened
    <3>2. QED
      BY <1>1, <2>2, <3>1 DEF ImporterInv
  <2>3. QED
    BY <1>5, <2>1, <2>2 DEF ImporterSearches
<1>6. CASE ImporterStores
  BY <1>2, <1>3, <1>6 DEF ImporterStores, DeadImporter
<1>7. QED
  BY <1>2, <1>3, <1>4, <1>5, <1>6, ImporterFrame DEF ImporterStep

LEMMA CleanerStepInv ==
  ASSUME SyncInv, [Next]_vars
  PROVE  CleanerInv'
<1>1. /\ Created \subseteq Created' /\ Deleted \subseteq Deleted' /\ Rows \subseteq Created
      /\ SyncTypeOK /\ cleaner \in CleanerType
  BY StepKeeps, KeptGrows DEF SyncInv, SyncTypeOK, CleanerType
<1>2. /\ cleaner.page \subseteq Created /\ cleaner.todo \subseteq cleaner.page
      /\ cleaner.gone \subseteq Deleted
      /\ cleaner.pc \in {"check", "delete app"} => cleaner.todo # {}
      /\ cleaner.pc = "delete rows" => cleaner.todo = {}
      /\ WithClient => cleaner.page \ cleaner.todo \subseteq cleaner.gone
  BY DEF SyncInv, CleanerInv
<1>3. CASE cleaner' = cleaner
  BY <1>1, <1>2, <1>3 DEF CleanerInv
<1>4. CASE cleaner' = IdleCleaner \/ cleaner' = [IdleCleaner EXCEPT !.pc = "search"]
  <2>1. /\ cleaner'.pc \in {"idle", "search"} /\ cleaner'.page = {}
        /\ cleaner'.todo = {} /\ cleaner'.gone = {}
    BY <1>4 DEF IdleCleaner
  <2>2. QED
    BY <2>1 DEF CleanerInv
<1>5. CASE CleanerStarts
  <2>1. cleaner' = [cleaner EXCEPT !.pc = "search"]
    BY <1>5 DEF CleanerStarts
  <2>2. /\ cleaner'.pc = "search" /\ cleaner'.page = cleaner.page
        /\ cleaner'.todo = cleaner.todo /\ cleaner'.gone = cleaner.gone
    BY <1>1, <2>1 DEF CleanerType
  <2>3. QED
    BY <1>1, <1>2, <2>2 DEF CleanerInv
<1>6. CASE CleanerSearches
  <2>1. PICK page : page = FirstOf(SearchFinalized, PageSize)
    OBVIOUS
  <2>2. page \subseteq Rows
    BY <2>1 DEF FirstOf, SearchFinalized, Rows
  <2>3. \/ cleaner' = IdleCleaner
        \/ /\ page # {} /\ cleaner'.pc = "check" /\ cleaner'.page = page
           /\ cleaner'.todo = page /\ cleaner'.gone = {}
    BY <1>6, <2>1 DEF CleanerSearches
  <2>4. QED
    BY <1>1, <1>4, <2>2, <2>3 DEF CleanerInv
<1>7. ASSUME NEW gone \in BOOLEAN, cleaner' = Checked(gone), cleaner.todo # {},
             gone => Least(cleaner.todo) \in Deleted', WithClient => gone
      PROVE  CleanerInv'
  <2>1. PICK id : id = Least(cleaner.todo)
    OBVIOUS
  <2>2. /\ cleaner'.pc = IF cleaner.todo \ {id} = {} THEN "delete rows" ELSE "check"
        /\ cleaner'.page = cleaner.page /\ cleaner'.todo = cleaner.todo \ {id}
        /\ cleaner'.gone = IF gone THEN cleaner.gone \cup {id} ELSE cleaner.gone
    BY <1>1, <1>7, <2>1 DEF Checked, CleanerType
  <2>3. cleaner'.gone \subseteq Deleted'
    BY <1>1, <1>2, <1>7, <2>1, <2>2
  <2>4. WithClient => cleaner'.page \ cleaner'.todo \subseteq cleaner'.gone
    BY <1>2, <1>7, <2>2
  <2>5. QED
    BY <1>1, <1>2, <2>2, <2>3, <2>4 DEF CleanerInv
<1>8. cleaner.todo # {} => Least(cleaner.todo) \in cleaner.todo /\ Least(cleaner.todo) \in Ids
  BY <1>1, LeastIs, ConstantTypes DEF CleanerType
<1>9. CASE CleanerChecks
  <2>1. cleaner.pc = "check" /\ cleaner.todo # {}
    BY <1>2, <1>9 DEF CleanerChecks
  <2>2. CASE ~Exists(Least(cleaner.todo))
    <3>1. Least(cleaner.todo) \in Deleted
      BY <1>2, <1>8, <2>1, <2>2, ExistsIs
    <3>2. cleaner' = Checked(TRUE)
      BY <1>9, <2>2 DEF CleanerChecks
    <3>3. QED
      BY <1>1, <1>7, <2>1, <3>1, <3>2
  <2>3. CASE Exists(Least(cleaner.todo)) /\ WithClient
    <3>1. cleaner' = [cleaner EXCEPT !.pc = "delete app"]
      BY <1>9, <2>3 DEF CleanerChecks
    <3>2. /\ cleaner'.pc = "delete app" /\ cleaner'.page = cleaner.page
          /\ cleaner'.todo = cleaner.todo /\ cleaner'.gone = cleaner.gone
      BY <1>1, <3>1 DEF CleanerType
    <3>3. QED
      BY <1>1, <1>2, <2>1, <3>2 DEF CleanerInv
  <2>4. CASE Exists(Least(cleaner.todo)) /\ ~WithClient
    <3>1. cleaner' = Checked(FALSE)
      BY <1>9, <2>4 DEF CleanerChecks
    <3>2. QED
      BY <1>7, <2>1, <2>4, <3>1
  <2>5. QED
    BY <2>2, <2>3, <2>4
<1>10. CASE CleanerDeletesApp
  <2>1. cleaner.todo # {}
    BY <1>2, <1>10 DEF CleanerDeletesApp
  <2>2. CASE log' = Append(log, <<"deleted", Least(cleaner.todo)>>) /\ cleaner' = Checked(TRUE)
    <3>1. Least(cleaner.todo) \in Ids
      BY <1>8, <2>1
    <3>2. Len(log') = Len(log) + 1 /\ log'[Len(log) + 1] = <<"deleted", Least(cleaner.todo)>>
          /\ Len(log) \in Nat
      BY <1>1, <2>2, <3>1, Appended, LogType DEF Kinds
    <3>3. Least(cleaner.todo) \in Deleted'
      <4>1. PICK id \in Ids : id = Least(cleaner.todo)
        BY <3>1
      <4>2. \E i \in 1 .. Len(log') : log'[i] = <<"deleted", id>>
        BY <3>2, <4>1
      <4>3. id \in Deleted'
        BY <4>2 DEF Deleted, Happened
      <4>4. QED
        BY <4>1, <4>3
    <3>4. QED
      BY <1>7, <2>1, <2>2, <3>3
  <2>3. QED
    BY <1>4, <1>10, <2>2 DEF CleanerDeletesApp
<1>11. CASE CleanerDeletesRows
  BY <1>4, <1>11 DEF CleanerDeletesRows
<1>12. QED
  BY <1>3, <1>5, <1>6, <1>9, <1>10, <1>11, CleanerFrame DEF CleanerStep

LEMMA WatcherStepInv ==
  ASSUME SyncInv, [Next]_vars
  PROVE  WatcherInv'
<1>1. /\ Deleted \subseteq Deleted' /\ SyncTypeOK /\ WatcherInv /\ Kept
      /\ watcher \in WatcherType(Len(log)) /\ Len(log) \in Nat
  BY StepKeeps, KeptGrows, LogType DEF SyncInv, SyncTypeOK, WatcherType
<1>2. watcher.todo \subseteq 1 .. Len(log) /\ watcher.event \in {"created", "deleted"}
  BY <1>1 DEF WatcherType
<1>3. CASE watcher' = IdleWatcher \/ watcher' = DeadWatcher
  BY <1>3 DEF WatcherInv, IdleWatcher, DeadWatcher
<1>4. CASE watcher' = watcher
  <2>1. \A i \in watcher'.todo : log'[i][1] = watcher'.event
    BY <1>1, <1>2, <1>4 DEF WatcherInv, Kept
  <2>2. watcher.pc = "write" => WatchedId' = WatchedId /\ WatchedId \in Ids
    <3>1. SUFFICES ASSUME watcher.pc = "write" PROVE WatchedId' = WatchedId /\ WatchedId \in Ids
      OBVIOUS
    <3>2. watcher.todo # {}
      BY <1>1, <3>1 DEF WatcherInv
    <3>3. Least(watcher.todo) \in 1 .. Len(log) /\ WatchedId \in Ids
      BY <1>1, <3>2, WatchedIs
    <3>4. QED
      BY <1>1, <1>4, <3>3 DEF WatchedId, Kept
  <2>3. ASSUME watcher.pc = "write", watcher.seen # "none"
        PROVE  \A i \in 1 .. cursor'["deleted"] : log'[i] # <<"deleted", WatchedId'>>
    <3>1. cursor \in [{"created", "deleted"} -> 0 .. Len(log)]
      BY <1>1 DEF SyncTypeOK
    <3>2. ~WatcherSaves
      BY <2>3 DEF WatcherSaves
    <3>3. cursor'["deleted"] = cursor["deleted"] \/ cursor'["deleted"] = 0
      BY <3>2, CursorFrame DEF Unregister
    <3>4. cursor["deleted"] \in Nat /\ cursor["deleted"] <= Len(log)
      BY <1>1, <3>1
    <3>5. \A i \in 1 .. cursor["deleted"] : log[i] # <<"deleted", WatchedId>>
      BY <1>1, <2>3 DEF WatcherInv
    <3>6. SUFFICES ASSUME NEW i \in 1 .. cursor'["deleted"] PROVE log'[i] # <<"deleted", WatchedId>>
      BY <2>2, <2>3
    <3>7. i \in 1 .. cursor["deleted"] /\ i \in 1 .. Len(log)
      BY <1>1, <3>3, <3>4
    <3>8. log'[i] = log[i]
      BY <1>1, <3>7 DEF Kept
    <3>9. QED
      BY <3>5, <3>7, <3>8
  <2>4. QED
    BY <1>1, <1>4, <2>1, <2>2, <2>3 DEF WatcherInv
<1>5. CASE WatcherSearches
  <2>1. PICK event \in EventsWatched :
          /\ event \in {"created", "deleted"}
          /\ watcher'.pc = "lookup" /\ watcher'.event = event
          /\ watcher'.todo = FirstOf(Positions(event), WatchBatch)
          /\ watcher'.last \in watcher'.todo /\ log' = log
    BY <1>1, <1>5, BatchIs
  <2>2. \A i \in watcher'.todo : i \in Positions(event)
    BY <2>1 DEF FirstOf
  <2>3. \A i \in watcher'.todo : log'[i][1] = event
    BY <1>1, <2>1, <2>2, PositionsType
  <2>4. QED
    BY <2>1, <2>3 DEF WatcherInv
<1>6. CASE WatcherLooksUp
  <2>1. watcher.pc = "lookup" /\ watcher.todo # {} /\ log' = log /\ cursor' = cursor
    BY <1>1, <1>6 DEF WatcherLooksUp, WatcherInv, chainVars, dbVars
  <2>2. PICK seen : /\ seen = IF Exists(WatchedId) /\ ~registered THEN "unregistered" ELSE OnChain(WatchedId)
                    /\ watcher' = [watcher EXCEPT !.pc = "write", !.seen = seen]
    BY <1>6 DEF WatcherLooksUp
  <2>3. /\ watcher'.pc = "write" /\ watcher'.seen = seen /\ watcher'.todo = watcher.todo
        /\ watcher'.event = watcher.event
    BY <1>1, <2>2 DEF WatcherType
  <2>4. WatchedId' = WatchedId /\ Deleted' = Deleted
    BY <2>1, <2>3 DEF WatchedId, Deleted, Happened
  <2>5. /\ WatchedId \in Ids
        /\ watcher.event = "created" => WatchedId \in Created
        /\ watcher.event = "deleted" => WatchedId \in Deleted
    BY <1>1, <2>1, WatchedIs
  <2>6. seen = "none" <=> ~Exists(WatchedId)
    BY <2>2 DEF Exists
  <2>7. Exists(WatchedId) <=> WatchedId \in Created /\ WatchedId \notin Deleted
    BY <2>5, ExistsIs
  <2>8. watcher.event = "deleted" => seen = "none"
    BY <2>5, <2>6, <2>7
  <2>9. seen = "none" => WatchedId \in Deleted
    BY <1>2, <2>5, <2>6, <2>7
  <2>10. ASSUME seen # "none"
         PROVE  \A i \in 1 .. cursor["deleted"] : log[i] # <<"deleted", WatchedId>>
    <3>1. WatchedId \notin Deleted
      BY <2>6, <2>7, <2>10
    <3>2. \A i \in 1 .. Len(log) : log[i] # <<"deleted", WatchedId>>
      BY <2>5, <3>1 DEF Deleted, Happened
    <3>3. cursor["deleted"] \in 0 .. Len(log)
      BY <1>1 DEF SyncTypeOK
    <3>4. QED
      BY <1>1, <3>2, <3>3
  <2>11. \A i \in watcher'.todo : log'[i][1] = watcher'.event
    BY <1>1, <2>1, <2>3 DEF WatcherInv
  <2>12. QED
    BY <2>1, <2>3, <2>4, <2>8, <2>9, <2>10, <2>11 DEF WatcherInv
<1>7. CASE WatcherWrites
  <2>1. CASE watcher' = [watcher EXCEPT !.pc = IF watcher.todo \ {Least(watcher.todo)} = {} THEN "save" ELSE "lookup",
                                        !.todo = watcher.todo \ {Least(watcher.todo)}, !.seen = "none"]
             /\ log' = log
    <3>1. PICK rest : rest = watcher.todo \ {Least(watcher.todo)}
      OBVIOUS
    <3>2. /\ watcher'.pc = (IF rest = {} THEN "save" ELSE "lookup") /\ watcher'.todo = rest
          /\ watcher'.event = watcher.event
      BY <1>1, <2>1, <3>1 DEF WatcherType
    <3>3. \A i \in rest : log'[i][1] = watcher.event
      BY <1>1, <2>1, <3>1 DEF WatcherInv
    <3>4. QED
      BY <3>2, <3>3 DEF WatcherInv
  <2>2. QED
    BY <1>3, <1>7, <2>1 DEF WatcherWrites, DeadWatcher, chainVars
<1>8. CASE WatcherSaves
  BY <1>3, <1>8 DEF WatcherSaves, DeadWatcher
<1>9. QED
  BY <1>3, <1>4, <1>5, <1>6, <1>7, <1>8, WatcherFrame DEF WatcherStep

LEMMA NextSyncInv ==
  ASSUME SyncInv, [Next]_vars
  PROVE  SyncInv'
<1>1. SyncTypeOK'
  BY TypeStep DEF SyncInv
<1>2. CreatedInOrder'
  BY OrderStep DEF SyncInv
<1>3. (Rows \subseteq Created)' /\ ImporterInv' /\ CleanerInv' /\ WatcherInv'
  BY RowsStep, ImporterStepInv, CleanerStepInv, WatcherStepInv
<1>4. QED
  BY <1>1, <1>2, <1>3 DEF SyncInv

\* What the three programs hold between two steps of theirs is about auctions that
\* there have been, and what they take for gone is gone for good, whatever the others,
\* the chain and the registrations do meanwhile.
THEOREM SpecSyncInv == Spec => []SyncInv
<1>1. SyncInv /\ [Next]_vars => SyncInv'
  BY NextSyncInv
<1>2. QED
  BY <1>1, InitSyncInv, PTL DEF Spec

\* Every variable has its type: positions stay within the log, ids within the page.
THEOREM SyncTypes == Spec => []SyncTypeOK
<1>1. SyncInv => SyncTypeOK
  BY DEF SyncInv
<1>2. QED
  BY <1>1, SpecSyncInv, PTL

-----------------------------------------------------------------------------
(***************************************************************************)
(* What leaves the database.                                               *)
(***************************************************************************)
OnlyGoneLeave == registered' => \A id \in Ids : db[id] # "none" /\ db'[id] = "none" => OnChain(id) = "none"

LEMMA GoneIsGone ==
  ASSUME NEW id \in Deleted
  PROVE  OnChain(id) = "none"
  BY DEF Deleted, OnChain, StatusAt

LEMMA LeaveStep ==
  ASSUME SyncInv, [Next]_vars
  PROVE  OnlyGoneLeave
<1> SUFFICES ASSUME registered', NEW id \in Ids, db[id] # "none", db'[id] = "none"
             PROVE  OnChain(id) = "none"
  BY DEF OnlyGoneLeave
<1>1. SyncTypeOK /\ CleanerInv /\ WatcherInv /\ db \in [Ids -> Statuses]
  BY DEF SyncInv, SyncTypeOK
<1>2. ~Unregister
  BY DEF Unregister
<1>3. CASE ImporterStores
  BY <1>3 DEF ImporterStores
<1>4. CASE WatcherWrites
  <2>1. watcher.pc = "write" /\ db' = Refreshed(WatchedId, watcher.seen)
    BY <1>4 DEF WatcherWrites
  <2>2. watcher.seen = "none" /\ id = WatchedId
    BY <1>1, <2>1 DEF Refreshed
  <2>3. WatchedId \in Deleted
    BY <1>1, <2>1, <2>2 DEF WatcherInv
  <2>4. QED
    BY <2>2, <2>3, GoneIsGone
<1>5. CASE CleanerDeletesRows
  <2>1. cleaner.pc = "delete rows" /\ id \in RowsToDelete
    BY <1>5 DEF CleanerDeletesRows
  <2>2. id \in cleaner.gone
    BY <1>1, <2>1 DEF RowsToDelete, CleanerInv
  <2>3. QED
    BY <1>1, <2>2, GoneIsGone DEF CleanerInv
<1>6. QED
  BY <1>2, <1>3, <1>4, <1>5, RowsFrame

\* A row leaves the database of a registered manager only when its auction is gone from
\* the chain: the importer never takes one out, and what the watcher and the cleaner have
\* looked up is still true when they delete, however old it is.
THEOREM RowsOfLiveAuctionsStay == Spec => OnlyGoneAuctionsLeave
<1>1. SyncInv /\ [Next]_vars => [OnlyGoneLeave]_vars
  BY LeaveStep
<1>2. QED
  BY <1>1, SpecSyncInv, PTL DEF Spec, OnlyGoneAuctionsLeave, OnlyGoneLeave

-----------------------------------------------------------------------------
(***************************************************************************)
(* What comes back.                                                        *)
(***************************************************************************)
OnlyImports == \A id \in Phantoms' \ Phantoms : importer.pc = "store" /\ importer.found[id] # "none"

\* A deletion that the watcher is done with in the next state, it was done with before
\* or is deleting the row for.
LEMMA ConsumedStep ==
  ASSUME SyncInv, [Next]_vars, NEW i \in 1 .. Len(log'), Consumed(i)', NEW id \in Ids,
         log'[i] = <<"deleted", id>>
  PROVE  /\ i \in 1 .. Len(log) /\ log[i] = <<"deleted", id>>
         /\ Consumed(i) \/ (WatcherWrites /\ watcher.event = "deleted" /\ db'[id] = "none")
<1>1. /\ SyncTypeOK /\ WatcherInv /\ watcher \in WatcherType(Len(log)) /\ Kept
      /\ Len(log) \in Nat
      /\ cursor \in [{"created", "deleted"} -> 0 .. Len(log)]
  BY StepKeeps, LogType DEF SyncInv, SyncTypeOK, WatcherType
<1>2. /\ watcher.last \in 0 .. Len(log) /\ cursor["deleted"] \in 0 .. Len(log)
      /\ watcher.event \in {"created", "deleted"}
  BY <1>1 DEF WatcherType
<1>3. ASSUME i <= Len(log)
      PROVE  i \in 1 .. Len(log) /\ log[i] = <<"deleted", id>>
  <2>1. i \in 1 .. Len(log)
    BY <1>1, <1>3 DEF Kept
  <2>2. QED
    BY <1>1, <2>1 DEF Kept
<1> DEFINE Goal == /\ i \in 1 .. Len(log) /\ log[i] = <<"deleted", id>>
                   /\ Consumed(i) \/ (WatcherWrites /\ watcher.event = "deleted" /\ db'[id] = "none")
<1>4. i \in Int
  BY <1>1 DEF Kept
<1>5. CASE i <= cursor'["deleted"]
  <2>1. CASE WatcherSaves
    <3>1. CASE cursor' = [cursor EXCEPT ![watcher.event] = watcher.last] /\ watcher.event = "deleted"
      <4>1. i <= watcher.last /\ watcher.todo = {}
        BY <1>1, <1>5, <2>1, <3>1 DEF WatcherSaves, WatcherInv
      <4>2. i <= Len(log)
        BY <1>1, <1>2, <1>4, <4>1
      <4>3. QED
        BY <1>3, <3>1, <4>1, <4>2 DEF Consumed
    <3>2. CASE cursor'["deleted"] = cursor["deleted"]
      <4>1. i <= Len(log) /\ i <= cursor["deleted"]
        BY <1>1, <1>2, <1>4, <1>5, <3>2
      <4>2. QED
        BY <1>3, <4>1 DEF Consumed
    <3>3. QED
      BY <1>1, <1>2, <2>1, <3>1, <3>2 DEF WatcherSaves
  <2>2. CASE ~WatcherSaves
    <3>1. cursor'["deleted"] = cursor["deleted"] \/ cursor'["deleted"] = 0
      BY <2>2, CursorFrame DEF Unregister
    <3>2. i <= Len(log) /\ i <= cursor["deleted"]
      BY <1>1, <1>2, <1>4, <1>5, <3>1
    <3>3. QED
      BY <1>3, <3>2 DEF Consumed
  <2>3. QED
    BY <2>1, <2>2
<1>6. CASE watcher'.event = "deleted" /\ i <= watcher'.last /\ i \notin watcher'.todo
  <2>1. CASE watcher' = watcher
    <3>1. i <= Len(log)
      BY <1>1, <1>2, <1>4, <1>6, <2>1
    <3>2. QED
      BY <1>3, <1>6, <2>1, <3>1 DEF Consumed
  <2>2. CASE WatcherSearches
    <3>1. PICK event \in EventsWatched :
            /\ event \in {"created", "deleted"} /\ watcher'.event = event
            /\ watcher'.todo = FirstOf(Positions(event), WatchBatch)
            /\ watcher'.last \in watcher'.todo /\ log' = log
      BY <1>1, <2>2, BatchIs
    <3>2. event = "deleted" /\ i \in 1 .. Len(log) /\ log[i] = <<"deleted", id>>
      BY <1>6, <3>1
    <3>3. watcher'.last \in Positions("deleted")
      BY <3>1, <3>2 DEF FirstOf
    <3>4. watcher'.last \in 1 .. Len(log) /\ watcher'.last <= indexed /\ indexed \in Nat
      BY <1>1, <3>3, PositionsType, LogType
    <3>5. i \notin Positions("deleted")
      BY <1>6, <3>1, <3>2, <3>3, PositionsType, ConstantTypes, FirstOfIsClosed, <1>1
    <3>6. i <= indexed /\ log[i][1] = "deleted"
      BY <1>1, <1>4, <1>6, <3>2, <3>4
    <3>7. i <= cursor["deleted"]
      BY <1>1, <1>2, <1>4, <3>2, <3>5, <3>6, PositionsType
    <3>8. QED
      BY <3>2, <3>7 DEF Consumed
  <2>3. CASE WatcherLooksUp
    <3>1. watcher'.event = watcher.event /\ watcher'.last = watcher.last /\ watcher'.todo = watcher.todo
      BY <1>1, <2>3 DEF WatcherLooksUp, WatcherType
    <3>2. i <= Len(log)
      BY <1>1, <1>2, <1>4, <1>6, <3>1
    <3>3. QED
      BY <1>3, <1>6, <3>1, <3>2 DEF Consumed
  <2>4. CASE WatcherWrites
    <3>1. CASE watcher' = DeadWatcher
      BY <1>6, <3>1 DEF DeadWatcher, IdleWatcher
    <3>2. CASE /\ watcher' = [watcher EXCEPT !.pc = IF watcher.todo \ {Least(watcher.todo)} = {} THEN "save" ELSE "lookup",
                                        !.todo = watcher.todo \ {Least(watcher.todo)}, !.seen = "none"]
               /\ db' = Refreshed(WatchedId, watcher.seen)
      <4>1. PICK p : p = Least(watcher.todo)
        OBVIOUS
      <4>2. /\ watcher'.event = watcher.event /\ watcher'.last = watcher.last
            /\ watcher'.todo = watcher.todo \ {p}
        BY <1>1, <3>2, <4>1 DEF WatcherType
      <4>3. i <= Len(log)
        BY <1>1, <1>2, <1>4, <1>6, <4>2
      <4>4. CASE i \notin watcher.todo
        BY <1>3, <1>6, <4>2, <4>3, <4>4 DEF Consumed
      <4>5. CASE i = p
        <5>1. watcher.pc = "write" /\ watcher.todo # {} /\ watcher.event = "deleted"
          BY <1>1, <1>6, <2>4, <4>2 DEF WatcherWrites, WatcherInv
        <5>2. log[p] = <<"deleted", WatchedId>> /\ WatchedId \in Ids
          BY <1>1, <4>1, <5>1, WatchedIs
        <5>3. id = WatchedId
          BY <1>3, <4>3, <4>5, <5>2
        <5>4. watcher.seen = "none"
          BY <1>1, <5>1 DEF WatcherInv
        <5>5. db'[id] = "none"
          BY <3>2, <5>2, <5>3, <5>4 DEF Refreshed, SyncInv, SyncTypeOK
        <5>6. QED
          BY <1>3, <2>4, <4>3, <5>1, <5>5
      <4>6. QED
        BY <1>6, <4>2, <4>4, <4>5
    <3>3. QED
      BY <2>4, <3>1, <3>2 DEF WatcherWrites, DeadWatcher
  <2>5. CASE watcher' = IdleWatcher \/ watcher' = DeadWatcher
    BY <1>6, <2>5 DEF DeadWatcher, IdleWatcher
  <2>6. QED
    BY <2>1, <2>2, <2>3, <2>4, <2>5, WatcherFrame DEF WatcherStep, WatcherSaves, DeadWatcher
<1>7. QED
  BY <1>5, <1>6 DEF Consumed

LEMMA ResurrectStep ==
  ASSUME SyncInv, [Next]_vars
  PROVE  OnlyImports
<1> SUFFICES ASSUME NEW id \in Phantoms', id \notin Phantoms
             PROVE  importer.pc = "store" /\ importer.found[id] # "none"
  BY DEF OnlyImports
<1>1. id \in Ids /\ db'[id] # "none"
  BY DEF Phantoms, Rows
<1>2. PICK i \in 1 .. Len(log') : log'[i] = <<"deleted", id>> /\ Consumed(i)'
  BY DEF Phantoms, Consumed
<1>3. i \in 1 .. Len(log) /\ log[i] = <<"deleted", id>> /\ Consumed(i)
  BY <1>1, <1>2, ConsumedStep
<1>4. db[id] = "none"
  BY <1>1, <1>3 DEF Phantoms, Rows
<1>5. SyncTypeOK /\ WatcherInv /\ db \in [Ids -> Statuses]
  BY DEF SyncInv, SyncTypeOK
<1>6. ~WatcherWrites
  <2>1. SUFFICES ASSUME WatcherWrites PROVE FALSE
    OBVIOUS
  <2>2. watcher.pc = "write" /\ watcher.seen # "none" /\ id = WatchedId
    BY <1>1, <1>4, <1>5, <2>1 DEF WatcherWrites, Refreshed
  <2>3. watcher.event # "deleted"
    BY <1>5, <2>2 DEF WatcherInv
  <2>4. i <= cursor["deleted"]
    BY <1>3, <2>3 DEF Consumed
  <2>5. cursor["deleted"] \in Nat
    <3>1. cursor["deleted"] \in 0 .. Len(log)
      BY <1>5 DEF SyncTypeOK
    <3>2. QED
      BY <1>5, <3>1, LogType
  <2>6. i \in 1 .. cursor["deleted"]
    BY <1>3, <1>5, <2>4, <2>5, LogType
  <2>7. QED
    BY <1>3, <1>5, <2>2, <2>6 DEF WatcherInv
<1>7. ~Unregister /\ ~CleanerDeletesRows
  BY <1>1, <1>4 DEF Unregister, NoRows, CleanerDeletesRows
<1>8. CASE ImporterStores
  BY <1>1, <1>4, <1>8 DEF ImporterStores
<1>9. QED
  BY <1>1, <1>4, <1>6, <1>7, <1>8, RowsFrame

\* Once the watcher has dealt with the deletion of an auction, its row comes back only
\* by an import that was under way: what the watcher itself has looked up is never
\* written after the deletion it belongs before, also not after a restart or a new
\* registration.
THEOREM WatcherNeverResurrects == Spec => OnlyImportsResurrect
<1>1. SyncInv /\ [Next]_vars => [OnlyImports]_vars
  BY ResurrectStep
<1>2. QED
  BY <1>1, SpecSyncInv, PTL DEF Spec, OnlyImportsResurrect, OnlyImports
-----------------------------------------------------------------------------
(***************************************************************************)
(* What the importer has not passed by.                                    *)
(***************************************************************************)

\* An auction with a smaller id than a created one has been created.
LEMMA CreatedIsClosed ==
  ASSUME SyncTypeOK, CreatedInOrder, NEW j \in Created, NEW id \in Ids, id <= j
  PROVE  id \in Created
<1>1. PICK i \in 1 .. Len(log) : log[i] = <<"created", j>>
  BY DEF Created, Happened
<1>2. CASE id = j
  BY <1>2
<1>3. CASE id # j
  <2>1. j \in Ids /\ id \in Nat \ {0} /\ j \in Nat
    BY ConstantTypes DEF Created
  <2>2. id \in 1 .. log[i][2] - 1 /\ log[i][1] = "created"
    BY <1>1, <1>3, <2>1
  <2>3. PICK k \in 1 .. i - 1 : log[k] = <<"created", id>>
    BY <2>2 DEF CreatedInOrder
  <2>4. k \in 1 .. Len(log)
    BY LogType
  <2>5. QED
    BY <2>3, <2>4 DEF Created, Happened
<1>4. QED
  BY <1>2, <1>3

\* What is stored or gone stays stored or gone while the manager is registered.
LEMMA StoredStep ==
  ASSUME SyncInv, [Next]_vars, registered', NEW id \in Created, Stored(id)
  PROVE  Stored(id)'
<1>1. SUFFICES ASSUME Exists(id)', db'[id] = "none"
               PROVE  FALSE
  BY DEF Stored
<1>2. id \in Ids /\ SyncTypeOK /\ Deleted \subseteq Deleted'
  BY StepKeeps, KeptGrows DEF SyncInv, Created
<1>3. id \notin Deleted'
  BY <1>1, <1>2 DEF Exists, OnChain, StatusAt, Deleted
<1>4. Exists(id)
  BY <1>2, <1>3, ExistsIs
<1>5. db[id] # "none"
  BY <1>4 DEF Stored
<1>6. OnChain(id) = "none"
  BY <1>1, <1>2, <1>5, LeaveStep DEF OnlyGoneLeave
<1>7. QED
  BY <1>4, <1>6 DEF Exists

\* What is gone is never missing.
LEMMA GoneIsStored ==
  ASSUME NEW id \in Deleted
  PROVE  Stored(id)
  BY GoneIsGone DEF Stored, Exists

\* The auctions before the one that the watcher is refreshing have been dealt with.
LEMMA EarlierAreStored ==
  ASSUME SkipInv, registered, watcher.pc \in {"lookup", "write"}, watcher.event = "created",
         NEW id \in Ids, id <= WatchedId, id # WatchedId
  PROVE  id \in Created /\ Stored(id)
<1>1. SyncTypeOK /\ CreatedInOrder /\ WatcherInv /\ watcher.todo # {}
  BY DEF SkipInv, SyncInv, WatcherInv
<1>2. PICK p : p = Least(watcher.todo)
  OBVIOUS
<1>3. /\ p \in watcher.todo /\ p \in 1 .. Len(log) /\ \A i \in watcher.todo : p <= i
      /\ log[p] = <<"created", WatchedId>> /\ WatchedId \in Ids
  BY <1>1, <1>2, WatchedIs
<1>4. id \in 1 .. WatchedId - 1
  BY <1>3, ConstantTypes
<1>5. PICK k \in 1 .. p - 1 : log[k] = <<"created", id>>
  <2>1. log[p][1] = "created" /\ log[p][2] = WatchedId
    BY <1>3
  <2>2. id \in 1 .. log[p][2] - 1
    BY <1>4, <2>1
  <2>3. QED
    BY <1>1, <1>3, <2>1, <2>2 DEF CreatedInOrder
<1>6. k \in 1 .. Len(log) /\ k \notin watcher.todo /\ k <= p
  BY <1>1, <1>3, LogType
<1>7. watcher.last \in Nat
  <2>1. watcher.last \in 0 .. Len(log) /\ Len(log) \in Nat
    BY <1>1, LogType DEF SyncTypeOK
  <2>2. QED
    BY <2>1
<1>8. p <= watcher.last
  BY <1>3 DEF SkipInv
<1>9. k <= watcher.last
  BY <1>3, <1>6, <1>7, <1>8
<1>10. Handled(k)
  BY <1>6, <1>9 DEF Handled
<1>11. Stored(id)
  BY <1>5, <1>6, <1>10 DEF SkipInv, WhileRegistered
<1>12. QED
  BY <1>5, <1>6, <1>11 DEF Created, Happened

\* A creation that the watcher is done with in the next state, it was done with before
\* or is writing the row of.
LEMMA HandledStep ==
  ASSUME SyncInv, [Next]_vars, registered', NEW i \in 1 .. Len(log'), Handled(i)',
         log'[i][1] = "created"
  PROVE  /\ i \in 1 .. Len(log) /\ log'[i] = log[i]
         /\ Handled(i) \/ (/\ WatcherWrites /\ watcher.event = "created"
                           /\ log[i] = <<"created", WatchedId>>
                           /\ db' = Refreshed(WatchedId, watcher.seen))
<1>1. /\ SyncTypeOK /\ WatcherInv /\ watcher \in WatcherType(Len(log)) /\ Kept
      /\ Len(log) \in Nat /\ indexed \in Nat /\ indexed <= Len(log)
  BY StepKeeps, LogType DEF SyncInv, SyncTypeOK, WatcherType
<1>2. cursor["created"] \in Nat /\ cursor["created"] <= Len(log)
  <2>1. cursor["created"] \in 0 .. Len(log)
    BY <1>1 DEF SyncTypeOK
  <2>2. QED
    BY <1>1, <2>1
<1>3. watcher.last \in Nat /\ watcher.last <= Len(log)
  <2>1. watcher.last \in 0 .. Len(log)
    BY <1>1 DEF WatcherType
  <2>2. QED
    BY <1>1, <2>1
<1>4. i \in Nat /\ i >= 1
  BY <1>1 DEF Kept
<1>5. ~Unregister
  BY DEF Unregister
<1>6. ASSUME i <= Len(log)
      PROVE  i \in 1 .. Len(log) /\ log'[i] = log[i] /\ log[i][1] = "created"
  BY <1>1, <1>4, <1>6 DEF Kept
<1>7. ASSUME Handled(i)
      PROVE  i <= Len(log)
  BY <1>1, <1>2, <1>3, <1>4, <1>7 DEF Handled
<1>8. CASE WatcherSaves
  <2>1. watcher.pc = "save" /\ watcher.todo = {}
    BY <1>1, <1>8 DEF WatcherSaves, WatcherInv
  <2>2. watcher' = IdleWatcher \/ watcher' = DeadWatcher
    BY <1>8 DEF WatcherSaves, DeadWatcher
  <2>3. watcher'.pc \notin {"lookup", "write", "save"}
    BY <2>2 DEF IdleWatcher, DeadWatcher
  <2>4. i <= cursor'["created"]
    BY <2>3 DEF Handled
  <2>5. cursor' = cursor \/ cursor' = [cursor EXCEPT ![watcher.event] = watcher.last]
    BY <1>8 DEF WatcherSaves
  <2>6. cursor \in [{"created", "deleted"} -> 0 .. Len(log)]
    BY <1>1 DEF SyncTypeOK
  <2>7. i <= cursor["created"] \/ (watcher.event = "created" /\ i <= watcher.last)
    BY <2>4, <2>5, <2>6
  <2>8. Handled(i)
    BY <2>1, <2>7 DEF Handled
  <2>9. QED
    BY <1>6, <1>7, <2>8
<1>9. CASE ~WatcherSaves
  <2> DEFINE InBatch == /\ watcher'.pc \in {"lookup", "write", "save"} /\ watcher'.event = "created"
                        /\ i <= watcher'.last /\ i \notin watcher'.todo
  <2>1. cursor' = cursor
    BY <1>5, <1>9, CursorFrame
  <2>2. CASE i <= cursor["created"]
    <3>1. Handled(i)
      BY <2>2 DEF Handled
    <3>2. QED
      BY <1>6, <1>7, <3>1
  <2>3. CASE InBatch
    <3>1. CASE watcher' = watcher
      <4>1. Handled(i)
        BY <2>3, <3>1 DEF Handled
      <4>2. QED
        BY <1>6, <1>7, <4>1
    <3>2. CASE WatcherSearches
      <4>1. PICK event \in EventsWatched :
              /\ event \in {"created", "deleted"} /\ watcher'.event = event
              /\ watcher'.todo = FirstOf(Positions(event), WatchBatch)
              /\ watcher'.last \in watcher'.todo /\ log' = log
        BY <1>1, <3>2, BatchIs
      <4>2. event = "created" /\ i \in 1 .. Len(log) /\ log[i][1] = "created"
        BY <2>3, <4>1
      <4>3. watcher'.last \in Positions("created")
        BY <4>1, <4>2 DEF FirstOf
      <4>4. watcher'.last \in 1 .. Len(log) /\ watcher'.last <= indexed
        BY <1>1, <4>3, PositionsType
      <4>5. i \notin Positions("created")
        BY <2>3, <4>1, <4>2, <4>3, PositionsType, ConstantTypes, FirstOfIsClosed, <1>1
      <4>6. i <= indexed
        BY <1>1, <1>4, <2>3, <4>4
      <4>7. i <= cursor["created"]
        BY <1>1, <1>2, <1>4, <4>2, <4>5, <4>6, PositionsType
      <4>8. QED
        BY <2>2, <4>7
    <3>3. CASE WatcherLooksUp
      <4>1. /\ watcher.pc = "lookup" /\ watcher'.event = watcher.event
            /\ watcher'.last = watcher.last /\ watcher'.todo = watcher.todo
        BY <1>1, <3>3 DEF WatcherLooksUp, WatcherType
      <4>2. Handled(i)
        BY <2>3, <4>1 DEF Handled
      <4>3. QED
        BY <1>6, <1>7, <4>2
    <3>4. CASE WatcherWrites
      <4>1. CASE watcher' = DeadWatcher
        BY <2>3, <4>1 DEF DeadWatcher, IdleWatcher
      <4>2. CASE /\ watcher' = [watcher EXCEPT !.pc = IF watcher.todo \ {Least(watcher.todo)} = {} THEN "save" ELSE "lookup",
                                          !.todo = watcher.todo \ {Least(watcher.todo)}, !.seen = "none"]
                 /\ db' = Refreshed(WatchedId, watcher.seen)
        <5>1. PICK p : p = Least(watcher.todo)
          OBVIOUS
        <5>2. /\ watcher'.event = watcher.event /\ watcher'.last = watcher.last
              /\ watcher'.todo = watcher.todo \ {p} /\ watcher.pc = "write"
          BY <1>1, <3>4, <4>2, <5>1 DEF WatcherType, WatcherWrites
        <5>3. i <= Len(log)
          BY <1>1, <1>3, <1>4, <2>3, <5>2
        <5>4. CASE i \notin watcher.todo
          <6>1. Handled(i)
            BY <2>3, <5>2, <5>4 DEF Handled
          <6>2. QED
            BY <1>6, <5>3, <6>1
        <5>5. CASE i = p
          <6>1. watcher.todo # {} /\ watcher.event = "created"
            BY <1>1, <2>3, <5>2 DEF WatcherInv
          <6>2. log[p] = <<"created", WatchedId>>
            BY <1>1, <5>1, <6>1, WatchedIs
          <6>3. QED
            BY <1>6, <3>4, <4>2, <5>3, <5>5, <6>1, <6>2
        <5>6. QED
          BY <2>3, <5>2, <5>4, <5>5
      <4>3. QED
        BY <3>4, <4>1, <4>2 DEF WatcherWrites, DeadWatcher
    <3>5. CASE watcher' = IdleWatcher \/ watcher' = DeadWatcher
      BY <2>3, <3>5 DEF DeadWatcher, IdleWatcher
    <3>6. QED
      BY <1>9, <3>1, <3>2, <3>3, <3>4, <3>5, WatcherFrame DEF WatcherStep
  <2>4. QED
    BY <2>1, <2>2, <2>3 DEF Handled
<1>10. QED
  BY <1>8, <1>9

\* The rows and what is stored, part by part.
LEMMA RowsClosedStep ==
  ASSUME SkipInv, [Next]_vars, registered, registered'
  PROVE  (\A j \in Rows, id \in Ids : id <= j => Stored(id))'
<1>1. SyncInv /\ SyncTypeOK /\ CreatedInOrder /\ WatcherInv /\ db \in [Ids -> Statuses]
  BY DEF SkipInv, SyncInv, SyncTypeOK
<1>2. SUFFICES ASSUME NEW j \in Ids, db'[j] # "none", NEW id \in Ids, id <= j
               PROVE  Stored(id)'
  BY DEF Rows
<1>3. CASE db[j] # "none"
  <2>1. j \in Created
    BY <1>1, <1>3 DEF SyncInv, Rows
  <2>2. Stored(id)
    BY <1>2, <1>3 DEF SkipInv, WhileRegistered, Rows
  <2>3. QED
    BY <1>1, <1>2, <2>1, <2>2, CreatedIsClosed, StoredStep
<1>4. CASE db[j] = "none"
  <2>1. ~Unregister /\ ~CleanerDeletesRows /\ db' # db
    BY <1>2, <1>4 DEF Unregister, CleanerDeletesRows
  <2>2. CASE ImporterStores
    <3>1. /\ importer.pc = "store" /\ importer.found[j] # "none"
          /\ db' = [k \in Ids |-> IF importer.found[k] # "none" THEN importer.found[k] ELSE db[k]]
      BY <1>2, <1>4, <2>2 DEF ImporterStores
    <3>2. j \in Created
      BY <1>1, <3>1 DEF SyncInv, ImporterInv
    <3>3. importer.found[id] # "none" \/ Stored(id)
      BY <1>2, <3>1 DEF SkipInv, WhileRegistered
    <3>4. CASE importer.found[id] # "none"
      BY <3>1, <3>4 DEF Stored
    <3>5. CASE Stored(id)
      BY <1>1, <1>2, <3>2, <3>5, CreatedIsClosed, StoredStep
    <3>6. QED
      BY <3>3, <3>4, <3>5
  <2>3. CASE WatcherWrites
    <3>1. watcher.pc = "write" /\ db' = Refreshed(WatchedId, watcher.seen)
      BY <2>1, <2>3 DEF WatcherWrites
    <3>2. watcher.seen # "none" /\ watcher.seen # "unregistered" /\ j = WatchedId
      BY <1>1, <1>2, <1>4, <3>1 DEF Refreshed
    <3>3. watcher.event = "created"
      BY <1>1, <3>1, <3>2 DEF WatcherInv, SyncTypeOK
    <3>4. CASE id = j
      BY <1>2, <3>4 DEF Stored
    <3>5. CASE id # j
      BY <1>1, <1>2, <3>1, <3>2, <3>3, <3>5, EarlierAreStored, StoredStep
    <3>6. QED
      BY <3>4, <3>5
  <2>4. QED
    BY <2>1, <2>2, <2>3, RowsFrame
<1>5. QED
  BY <1>3, <1>4

LEMMA HandledStoredStep ==
  ASSUME SkipInv, [Next]_vars, registered, registered', NEW i \in 1 .. Len(log'), Handled(i)',
         NEW id \in Ids, log'[i] = <<"created", id>>
  PROVE  Stored(id)'
<1>1. SyncInv /\ SyncTypeOK /\ WatcherInv /\ db \in [Ids -> Statuses]
  BY DEF SkipInv, SyncInv, SyncTypeOK
<1>2. log'[i][1] = "created"
  OBVIOUS
<1>3. /\ i \in 1 .. Len(log) /\ log'[i] = log[i]
      /\ Handled(i) \/ (/\ WatcherWrites /\ watcher.event = "created"
                        /\ log[i] = <<"created", WatchedId>>
                        /\ db' = Refreshed(WatchedId, watcher.seen))
  BY <1>1, <1>2, HandledStep
<1>4. log[i] = <<"created", id>>
  BY <1>3
<1>5. id \in Created
  BY <1>3, <1>4 DEF Created, Happened
<1>6. CASE Handled(i)
  <2>1. Stored(id)
    BY <1>3, <1>4, <1>6 DEF SkipInv, WhileRegistered
  <2>2. QED
    BY <1>1, <1>5, <2>1, StoredStep
<1>7. CASE /\ WatcherWrites /\ watcher.event = "created" /\ log[i] = <<"created", WatchedId>>
           /\ db' = Refreshed(WatchedId, watcher.seen)
  <2>1. id = WatchedId /\ watcher.pc = "write"
    BY <1>4, <1>7 DEF WatcherWrites
  <2>2. watcher.seen # "unregistered"
    BY <2>1 DEF SkipInv, WhileRegistered
  <2>3. CASE watcher.seen = "none"
    <3>1. id \in Deleted
      BY <1>1, <2>1, <2>3 DEF WatcherInv
    <3>2. Stored(id)
      BY <3>1, GoneIsStored
    <3>3. QED
      BY <1>1, <1>5, <3>2, StoredStep
  <2>4. CASE watcher.seen # "none"
    <3>1. db'[id] # "none"
      BY <1>1, <1>7, <2>1, <2>2, <2>4 DEF Refreshed
    <3>2. QED
      BY <3>1 DEF Stored
  <2>5. QED
    BY <2>3, <2>4
<1>8. QED
  BY <1>3, <1>6, <1>7

\* What the importer searches above, and what it has found.
LEMMA AboveStep ==
  ASSUME SkipInv, [Next]_vars, registered, registered', importer'.pc = "search",
         NEW id \in Ids, id <= importer'.above
  PROVE  id \in Created' /\ Stored(id)'
<1>1. /\ SyncInv /\ SyncTypeOK /\ CreatedInOrder /\ Created \subseteq Created'
      /\ importer \in ImporterType
  BY StepKeeps, KeptGrows DEF SkipInv, SyncInv, SyncTypeOK, ImporterType
<1>2. CASE importer' = importer
  <2>1. id \in Created /\ Stored(id)
    BY <1>2 DEF SkipInv, WhileRegistered
  <2>2. QED
    BY <1>1, <2>1, StoredStep
<1>3. CASE ImporterReadsMax
  <2>1. importer'.above = MaxAuctionAppId
    BY <1>1, <1>3 DEF ImporterReadsMax, ImporterType
  <2>2. Rows # {}
    BY <2>1, ConstantTypes DEF MaxAuctionAppId
  <2>3. MaxAuctionAppId \in Rows
    <3>1. Rows \subseteq Nat /\ \A r \in Rows : r <= MaxAuctions
      BY ConstantTypes DEF Rows
    <3>2. \E r \in Rows : \A j \in Rows : j <= r
      BY <2>2, <3>1, ConstantTypes, NatGreatest
    <3>3. QED
      BY <2>2, <3>2 DEF MaxAuctionAppId
  <2>4. Stored(id) /\ MaxAuctionAppId \in Created
    BY <1>1, <2>1, <2>3 DEF SkipInv, WhileRegistered, SyncInv
  <2>5. id \in Created
    BY <1>1, <2>1, <2>4, CreatedIsClosed
  <2>6. QED
    BY <1>1, <2>4, <2>5, StoredStep
<1>4. CASE importer' = IdleImporter \/ importer' = DeadImporter \/ ImporterStores
  BY <1>4 DEF IdleImporter, DeadImporter, ImporterStores
<1>5. CASE ImporterSearches
  BY <1>5 DEF ImporterSearches, IdleImporter
<1>6. QED
  BY <1>2, <1>3, <1>4, <1>5, ImporterFrame DEF ImporterStep

LEMMA FoundStep ==
  ASSUME SkipInv, [Next]_vars, registered, registered', importer'.pc = "store",
         NEW j \in Ids, importer'.found[j] # "none", NEW id \in Ids, id <= j
  PROVE  importer'.found[id] # "none" \/ Stored(id)'
<1>1. /\ SyncInv /\ SyncTypeOK /\ CreatedInOrder /\ ImporterInv
      /\ importer \in ImporterType /\ importer.above \in Nat
  <2>1. importer \in ImporterType /\ SyncInv /\ SyncTypeOK /\ CreatedInOrder /\ ImporterInv
    BY DEF SkipInv, SyncInv, SyncTypeOK, ImporterType
  <2>2. importer.above \in 0 .. MaxAuctions /\ MaxAuctions \in Nat
    BY <2>1, ConstantTypes DEF ImporterType
  <2>3. QED
    BY <2>1, <2>2
<1>2. CASE importer' = importer
  <2>1. j \in Created
    BY <1>1, <1>2 DEF ImporterInv
  <2>2. importer.found[id] # "none" \/ Stored(id)
    BY <1>2 DEF SkipInv, WhileRegistered
  <2>3. Stored(id) => Stored(id)'
    BY <1>1, <2>1, CreatedIsClosed, StoredStep
  <2>4. QED
    BY <1>2, <2>2, <2>3
<1>3. CASE ImporterSearches
  <2> DEFINE Known == {k \in Ids : k > importer.above /\ StatusAt(k, indexed) # "none"}
  <2>1. PICK page : page = FirstOf(Known, ImportBatch)
    OBVIOUS
  <2>2. \A k \in Ids : importer'.found[k] = IF k \in page THEN StatusAt(k, indexed) ELSE "none"
    BY <1>3, <2>1 DEF ImporterSearches, SearchPage, IdleImporter
  <2>3. importer.pc = "search" /\ log' = log
    BY <1>3 DEF ImporterSearches, chainVars
  <2>4. IsFiniteSet(Known) /\ Known \subseteq Nat
    <3>1. Known \in SUBSET Ids
      OBVIOUS
    <3> HIDE DEF Known
    <3>2. QED
      BY <3>1, ConstantTypes, FS_Subset
  <2>5. page \subseteq Known /\ (j \in page /\ id \in Known => id \in page)
    <3> HIDE DEF Known
    <3>1. QED
      BY <2>1, <2>4, ConstantTypes, FirstOfIsClosed
  <2>6. j \in page
    BY <2>2
  <2>7. StatusAt(j, indexed) # "none"
    BY <2>5, <2>6
  <2>8. PICK i \in 1 .. indexed : log[i] = <<"created", j>>
    BY <2>7 DEF StatusAt, Happened
  <2>9. i \in 1 .. Len(log) /\ Len(log) \in Nat /\ indexed \in Nat /\ indexed <= Len(log)
    BY <1>1, LogType
  <2>10. j \in Created /\ id \in Created
    <3>1. j \in Created
      BY <2>8, <2>9 DEF Created, Happened
    <3>2. QED
      BY <1>1, <3>1, CreatedIsClosed
  <2>11. CASE Stored(id)
    BY <1>1, <2>10, <2>11, StoredStep
  <2>12. CASE ~Stored(id)
    <3>1. id \in Nat /\ ~(id <= importer.above)
      BY <2>3, <2>12, ConstantTypes DEF SkipInv, WhileRegistered
    <3>2. id > importer.above
      BY <1>1, <3>1
    <3>3. Happened("created", id, indexed)
      <4>1. CASE id = j
        BY <2>8, <4>1 DEF Happened
      <4>2. CASE id # j
        <5>1. log[i][1] = "created" /\ log[i][2] = j
          BY <2>8
        <5>2. id \in 1 .. log[i][2] - 1
          BY <4>2, <5>1, ConstantTypes
        <5>3. PICK k \in 1 .. i - 1 : log[k] = <<"created", id>>
          BY <1>1, <2>9, <5>1, <5>2 DEF CreatedInOrder
        <5>4. k \in 1 .. indexed
          BY <2>8, <2>9
        <5>5. QED
          BY <5>3, <5>4 DEF Happened
      <4>3. QED
        BY <4>1, <4>2
    <3>4. ~Happened("deleted", id, indexed)
      <4>1. SUFFICES ASSUME NEW k \in 1 .. indexed, log[k] = <<"deleted", id>>
                     PROVE  FALSE
        BY DEF Happened
      <4>2. k \in 1 .. Len(log)
        BY <2>9
      <4>3. id \in Deleted
        BY <4>1, <4>2 DEF Deleted, Happened
      <4>4. QED
        BY <2>12, <4>3, GoneIsStored
    <3>5. StatusAt(id, indexed) # "none"
      BY <3>3, <3>4 DEF StatusAt
    <3>6. id \in page
      BY <2>5, <2>6, <3>2, <3>5
    <3>7. QED
      BY <2>2, <3>5, <3>6
  <2>13. QED
    BY <2>11, <2>12
<1>4. CASE ImporterReadsMax
  <2>1. importer' = [importer EXCEPT !.pc = "search", !.above = MaxAuctionAppId]
    BY <1>4 DEF ImporterReadsMax
  <2>2. importer'.pc = "search"
    BY <1>1, <2>1 DEF ImporterType
  <2>3. QED
    BY <2>2
<1>5. CASE importer' = IdleImporter \/ importer' = DeadImporter \/ ImporterStores
  <2>1. importer' = IdleImporter \/ importer' = DeadImporter
    BY <1>5 DEF ImporterStores, DeadImporter
  <2>2. QED
    BY <2>1 DEF IdleImporter, DeadImporter
<1>6. QED
  BY <1>2, <1>3, <1>4, <1>5, ImporterFrame DEF ImporterStep

LEMMA SeenStep ==
  ASSUME SkipInv, [Next]_vars, registered, watcher'.pc = "write"
  PROVE  watcher'.seen # "unregistered"
<1>1. SyncTypeOK /\ watcher \in WatcherType(Len(log))
  BY DEF SkipInv, SyncInv, SyncTypeOK, WatcherType
<1>2. CASE watcher' = watcher
  BY <1>2 DEF SkipInv, WhileRegistered
<1>3. CASE WatcherLooksUp
  <2>1. watcher' = [watcher EXCEPT !.pc = "write", !.seen = OnChain(WatchedId)]
    BY <1>3 DEF WatcherLooksUp
  <2>2. watcher'.seen = OnChain(WatchedId)
    BY <1>1, <2>1 DEF WatcherType
  <2>3. QED
    BY <2>2, StatusType DEF OnChain, Statuses
<1>4. CASE WatcherSearches
  <2>1. watcher'.seen = "none"
    BY <1>1, <1>4, BatchIs
  <2>2. QED
    BY <2>1
<1>5. CASE WatcherWrites
  <2>1. CASE watcher' = DeadWatcher
    BY <2>1 DEF DeadWatcher, IdleWatcher
  <2>2. CASE watcher' = [watcher EXCEPT !.pc = IF watcher.todo \ {Least(watcher.todo)} = {} THEN "save" ELSE "lookup",
                                        !.todo = watcher.todo \ {Least(watcher.todo)}, !.seen = "none"]
    <3>1. watcher'.seen = "none"
      BY <1>1, <2>2 DEF WatcherType
    <3>2. QED
      BY <3>1
  <2>3. QED
    BY <1>5, <2>1, <2>2 DEF WatcherWrites, DeadWatcher
<1>6. CASE watcher' = IdleWatcher \/ watcher' = DeadWatcher \/ WatcherSaves
  <2>1. watcher' = IdleWatcher \/ watcher' = DeadWatcher
    BY <1>6 DEF WatcherSaves, DeadWatcher
  <2>2. watcher'.pc # "write"
    BY <2>1 DEF IdleWatcher, DeadWatcher
  <2>3. QED
    BY <2>2
<1>7. QED
  BY <1>2, <1>3, <1>4, <1>5, <1>6, WatcherFrame DEF WatcherStep

LEMMA LastStep ==
  ASSUME SkipInv, [Next]_vars
  PROVE  (\A i \in watcher.todo : i <= watcher.last)'
<1>1. SyncTypeOK /\ watcher \in WatcherType(Len(log))
  BY DEF SkipInv, SyncInv, SyncTypeOK, WatcherType
<1>2. CASE watcher'.todo \subseteq watcher.todo /\ watcher'.last = watcher.last
  BY <1>2 DEF SkipInv
<1>3. CASE watcher' = IdleWatcher \/ watcher' = DeadWatcher
  BY <1>3 DEF IdleWatcher, DeadWatcher
<1>4. CASE WatcherSearches
  BY <1>1, <1>4, BatchIs
<1>5. CASE WatcherLooksUp
  BY <1>1, <1>2, <1>5 DEF WatcherLooksUp, WatcherType
<1>6. CASE WatcherWrites
  <2>1. CASE watcher' = [watcher EXCEPT !.pc = IF watcher.todo \ {Least(watcher.todo)} = {} THEN "save" ELSE "lookup",
                                        !.todo = watcher.todo \ {Least(watcher.todo)}, !.seen = "none"]
    BY <1>1, <1>2, <2>1 DEF WatcherType
  <2>2. QED
    BY <1>3, <1>6, <2>1 DEF WatcherWrites, DeadWatcher
<1>7. CASE WatcherSaves
  BY <1>3, <1>7 DEF WatcherSaves, DeadWatcher
<1>8. QED
  BY <1>2, <1>3, <1>4, <1>5, <1>6, <1>7, WatcherFrame DEF WatcherStep

LEMMA RegistrationsType ==
  ASSUME SyncTypeOK
  PROVE  registrations \in Nat
<1>1. registrations \in 0 .. MaxRegistrations
  BY DEF SyncTypeOK
<1>2. QED
  BY <1>1, ConstantTypes

LEMMA UnregisteredStep ==
  ASSUME SyncTypeOK, Unregistered, [Next]_vars
  PROVE  Unregistered'
<1>1. CASE registered' = registered
  <2>1. SUFFICES ASSUME ~registered
                 PROVE  db' = NoRows /\ cursor' = [event \in {"created", "deleted"} |-> 0]
    BY <1>1 DEF Unregistered
  <2>2. db = NoRows /\ cursor = [event \in {"created", "deleted"} |-> 0]
    BY <2>1 DEF Unregistered
  <2>3. cursor' = cursor
    BY <2>1, CursorFrame DEF Unregister, WatcherSaves
  <2>4. db' = db
    <3>1. CASE WatcherWrites
      <4>1. CASE db' = Refreshed(WatchedId, watcher.seen) /\ watcher.seen \notin {"open", "finalized"}
        <5>1. watcher.seen \in {"none", "unregistered"}
          BY <4>1 DEF SyncTypeOK, Statuses
        <5>2. QED
          BY <2>2, <4>1, <5>1 DEF Refreshed, NoRows
      <4>2. QED
        BY <2>1, <3>1, <4>1 DEF WatcherWrites
    <3>2. CASE CleanerDeletesRows
      BY <2>2, <3>2 DEF CleanerDeletesRows, NoRows
    <3>3. CASE ImporterStores
      BY <2>1, <3>3 DEF ImporterStores
    <3>4. QED
      BY <2>1, <3>1, <3>2, <3>3, RowsFrame DEF Unregister
  <2>5. QED
    BY <2>2, <2>3, <2>4
<1>2. CASE Register
  BY <1>2 DEF Register, Unregistered
<1>3. CASE Unregister
  BY <1>3 DEF Unregister, Unregistered
<1>4. QED
  BY <1>1, <1>2, <1>3, RegistrationFrame

LEMMA RegisteringIsClean ==
  ASSUME SkipInv, Register, WorkersIdle
  PROVE  WhileRegistered'
<1>1. SyncTypeOK /\ db = NoRows /\ cursor = [event \in {"created", "deleted"} |-> 0]
  BY DEF SkipInv, SyncInv, Unregistered, Register
<1>2. UNCHANGED <<log, indexed, db, cursor, importer, watcher>>
  BY DEF Register, chainVars
<1>3. importer.pc \in {"idle", "dead"} /\ watcher.pc \in {"idle", "dead"}
  BY DEF WorkersIdle
<1>4. Rows' = {}
  BY <1>1, <1>2 DEF Rows, NoRows
<1>5. \A i \in 1 .. Len(log') : ~Handled(i)'
  <2>1. SUFFICES ASSUME NEW i \in 1 .. Len(log) PROVE ~(i <= cursor["created"])
    BY <1>2, <1>3 DEF Handled
  <2>2. cursor["created"] = 0 /\ i \in Nat /\ i >= 1
    BY <1>1, LogType
  <2>3. QED
    BY <2>2
<1>6. QED
  BY <1>2, <1>3, <1>4, <1>5 DEF WhileRegistered

LEMMA WhileRegisteredStep ==
  ASSUME SkipInv, [Next]_vars, Register => WorkersIdle
  PROVE  WhileRegistered'
<1>1. CASE Register
  BY <1>1, RegisteringIsClean
<1>2. CASE registered /\ registered'
  <2>1. (\A j \in Rows, id \in Ids : id <= j => Stored(id))'
    BY <1>2, RowsClosedStep
  <2>2. (\A i \in 1 .. Len(log), id \in Ids : Handled(i) /\ log[i] = <<"created", id>> => Stored(id))'
    BY <1>2, HandledStoredStep
  <2>3. (importer.pc = "search" =>
           \A id \in Ids : id <= importer.above => id \in Created /\ Stored(id))'
    BY <1>2, AboveStep
  <2>4. (importer.pc = "store" =>
           \A j, id \in Ids : importer.found[j] # "none" /\ id <= j =>
             importer.found[id] # "none" \/ Stored(id))'
    BY <1>2, FoundStep
  <2>5. (watcher.pc = "write" => watcher.seen # "unregistered")'
    BY <1>2, SeenStep
  <2>6. QED
    BY <2>1, <2>2, <2>3, <2>4, <2>5 DEF WhileRegistered
<1>3. CASE ~registered'
  BY <1>3 DEF WhileRegistered
<1>4. QED
  BY <1>1, <1>2, <1>3, RegistrationFrame DEF Unregister

LEMMA SkipInvIsEnough == SkipInv => NothingIsSkipped
<1> SUFFICES ASSUME SkipInv, registered, NEW id \in Ids, Exists(id), db[id] = "none",
                    ~(id > MaxAuctionAppId)
             PROVE  FALSE
  BY DEF NothingIsSkipped
<1>1. CASE Rows = {}
  BY <1>1, ConstantTypes DEF MaxAuctionAppId
<1>2. CASE Rows # {}
  <2>1. Rows \subseteq Nat /\ \A r \in Rows : r <= MaxAuctions
    BY ConstantTypes DEF Rows
  <2>2. \E r \in Rows : \A j \in Rows : j <= r
    BY <1>2, <2>1, ConstantTypes, NatGreatest
  <2>3. MaxAuctionAppId \in Rows
    BY <1>2, <2>2 DEF MaxAuctionAppId
  <2>4. id <= MaxAuctionAppId
    BY <2>1, <2>3, ConstantTypes
  <2>5. QED
    BY <2>3, <2>4 DEF SkipInv, WhileRegistered, Stored
<1>3. QED
  BY <1>1, <1>2

\* The manager is not registered again while a worker still holds what it read before.
QuietRegistrations == [][Register => WorkersIdle]_vars

\* The importer's cursor, the highest id stored, never gets past an auction that exists and
\* is not stored, although the watcher writes rows too and both work on what they read
\* earlier: each stores the auctions in the order of their ids.  The proof needs that no
\* registration comes between what a worker reads and what it writes; the code does not see
\* to that, and without it the importer does leave an auction out for good.
THEOREM NothingIsPassedBy == Spec /\ QuietRegistrations => []NothingIsSkipped
<1>1. Init => SkipInv
  <2>1. SUFFICES ASSUME Init PROVE SkipInv
    OBVIOUS
  <2>2. Unregistered /\ WhileRegistered /\ watcher.todo = {}
    BY <2>1 DEF Init, Unregistered, WhileRegistered, IdleWatcher
  <2>3. QED
    BY <2>1, <2>2, InitSyncInv DEF SkipInv
<1>2. SkipInv /\ [Next]_vars /\ [Register => WorkersIdle]_vars => SkipInv'
  <2>1. SUFFICES ASSUME SkipInv, [Next]_vars, [Register => WorkersIdle]_vars
                 PROVE  SkipInv'
    OBVIOUS
  <2>2. Register => WorkersIdle
    BY <2>1 DEF Register, vars, dbVars
  <2>3. SyncInv' /\ Unregistered' /\ (\A i \in watcher.todo : i <= watcher.last)' /\ WhileRegistered'
    BY <2>1, <2>2, NextSyncInv, UnregisteredStep, LastStep, WhileRegisteredStep DEF SkipInv, SyncInv
  <2>4. QED
    BY <2>3 DEF SkipInv
<1>3. QED
  BY <1>1, <1>2, SkipInvIsEnough, PTL DEF Spec, QuietRegistrations

FirstRegistration == registrations = 0 => WorkersIdle /\ ~registered

\* A manager that is registered once and for all is registered before the workers have
\* anything to do, so nothing is passed by.
THEOREM RegisteredOnce ==
  ASSUME MaxRegistrations <= 1
  PROVE  Spec => []NothingIsSkipped
<1>1. Init => FirstRegistration
  BY DEF Init, FirstRegistration, WorkersIdle, IdleImporter, IdleWatcher
<1>2. SyncTypeOK /\ FirstRegistration /\ [Next]_vars => FirstRegistration'
  <2>1. SUFFICES ASSUME SyncTypeOK, FirstRegistration, [Next]_vars, registrations' = 0
                 PROVE  WorkersIdle' /\ ~registered'
    BY DEF FirstRegistration
  <2>2. UNCHANGED <<registered, registrations>>
    <3>1. registrations \in Nat
      BY <2>1, RegistrationsType
    <3>2. ~Register
      BY <2>1, <3>1 DEF Register
    <3>3. ~Unregister
      BY <2>1 DEF Unregister, FirstRegistration
    <3>4. QED
      BY <2>1, <3>2, <3>3, RegistrationFrame
  <2>3. WorkersIdle /\ ~registered
    BY <2>1, <2>2 DEF FirstRegistration
  <2>4. importer.pc \in {"idle", "dead"} /\ watcher.pc \in {"idle", "dead"}
    BY <2>3 DEF WorkersIdle
  <2>5. importer'.pc \in {"idle", "dead"}
    <3>1. ~ImporterStep
      BY <2>3, <2>4 DEF ImporterStep, ImporterReadsMax, ImporterSearches, ImporterStores
    <3>2. QED
      BY <2>1, <2>4, <3>1, ImporterFrame DEF IdleImporter, DeadImporter
  <2>6. watcher'.pc \in {"idle", "dead"}
    <3>1. ~WatcherStep
      BY <2>3, <2>4 DEF WatcherStep, WatcherSearches, WatcherLooksUp, WatcherWrites, WatcherSaves
    <3>2. QED
      BY <2>1, <2>4, <3>1, WatcherFrame DEF IdleWatcher, DeadWatcher
  <2>7. QED
    BY <2>2, <2>3, <2>5, <2>6 DEF WorkersIdle
<1>3. SyncTypeOK /\ FirstRegistration /\ [Next]_vars => [Register => WorkersIdle]_vars
  <2>1. SUFFICES ASSUME SyncTypeOK, FirstRegistration, Register
                 PROVE  WorkersIdle
    OBVIOUS
  <2>2. registrations = 0
    <3>1. registrations \in Nat /\ registrations < MaxRegistrations
      BY <2>1, RegistrationsType DEF Register
    <3>2. QED
      BY <3>1, ConstantTypes
  <2>3. QED
    BY <2>1, <2>2 DEF FirstRegistration
<1>4. Spec => QuietRegistrations
  BY <1>1, <1>2, <1>3, SyncTypes, PTL DEF Spec, QuietRegistrations
<1>5. QED
  BY <1>4, NothingIsPassedBy, PTL
=============================================================================
