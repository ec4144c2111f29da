----------------------------- MODULE AuctionSync -----------------------------
(***************************************************************************)
(* apps/auction/services and apps/auction/commands/data: the database that *)
(* mirrors the auctions of one AuctionManager, and the three programs that *)
(* write to it.                                                            *)
(*                                                                         *)
(*   importer  AuctionImportService polling ImportAuctions                 *)
(*   watcher   AuctionManagerWatcherService following the manager's events *)
(*   cleaner   a call of DeleteFinalizedAuctions                           *)
(*                                                                         *)
(* Every database transaction and every request to algod or to the indexer *)
(* is a step; between two steps of one program the others, the chain and   *)
(* the indexer move on.  A step of a worker thread may also raise: nothing *)
(* catches it, and the thread is gone until its service is started again.  *)
(***************************************************************************)
EXTENDS Integers, Sequences, FiniteSets

CONSTANTS
  MaxAuctions,      \* bound: number of auctions the manager creates
  EventsWatched,    \* the events the watcher is configured for
  ImportBatch, WatchBatch, PageSize,
  WithClient,       \* whether DeleteFinalizedAuctions has a client to delete apps with
  MaxFailures,      \* bound: errors raised by algod, the indexer or the database
  MaxCleanups,      \* bound: calls of DeleteFinalizedAuctions
  MaxRegistrations  \* bound: how often the manager is registered

ASSUME SyncAssumption ==
  /\ EventsWatched \subseteq {"created", "deleted"} /\ EventsWatched # {}
  /\ {MaxAuctions, ImportBatch, WatchBatch, PageSize} \subseteq Nat \ {0}
  /\ {MaxFailures, MaxCleanups, MaxRegistrations} \subseteq Nat
  /\ WithClient \in BOOLEAN

\* Application ids grow in the order of creation and are not used twice.
Ids == 1 .. MaxAuctions
Kinds == {"created", "finalized", "deleted"}
Statuses == {"none", "open", "finalized"}
NoRows == [id \in Ids |-> "none"]

VARIABLES
  log,            \* what happened on the chain, in order
  indexed,        \* how much of it the indexer knows
  registered, registrations,
  db,             \* db[id]: status of the row, "none" if there is no row
  cursor,         \* cursor[event]: position saved with the watcher's service state
  importer,       \* pc, the id it searches above, the auctions found
  watcher,        \* pc, the event, the positions to refresh, the last one, what a lookup saw
  cleaner,        \* pc, total_count, the page, what is left of it, the ids to delete
  failures, cleanups

chainVars == <<log, indexed>>
dbVars == <<registered, registrations, db, cursor>>
bounds == <<failures, cleanups>>
vars == <<chainVars, dbVars, importer, watcher, cleaner, bounds>>

SyncTypeOK ==
  /\ log \in Seq(Kinds \X Ids) /\ indexed \in 0 .. Len(log)
  /\ registered \in BOOLEAN /\ registrations \in 0 .. MaxRegistrations
  /\ db \in [Ids -> Statuses]
  /\ cursor \in [{"created", "deleted"} -> 0 .. Len(log)]
  /\ importer \in [pc : {"idle", "search", "store", "dead"}, above : 0 .. MaxAuctions,
                   found : [Ids -> Statuses]]
  /\ watcher \in [pc : {"idle", "lookup", "write", "save", "dead"}, event : {"created", "deleted"},
                  todo : SUBSET (1 .. Len(log)), last : 0 .. Len(log),
                  seen : Statuses \cup {"unregistered"}]
  /\ cleaner \in [pc : {"idle", "search", "check", "delete app", "delete rows"}, total : 0 .. MaxAuctions,
                  page : SUBSET Ids, todo : SUBSET Ids, gone : SUBSET Ids]
  /\ failures \in 0 .. MaxFailures /\ cleanups \in 0 .. MaxCleanups

-----------------------------------------------------------------------------
(***************************************************************************)
(* The chain and the indexer.                                              *)
(***************************************************************************)
Happened(kind, id, n) == \E i \in 1 .. n : log[i] = <<kind, id>>

\* The status of an auction after the first n things that happened.
StatusAt(id, n) ==
  IF ~Happened("created", id, n) \/ Happened("deleted", id, n) THEN "none"
  ELSE IF Happened("finalized", id, n) THEN "finalized" ELSE "open"

\* What algod answers.  Definitions that no action uses are slips the code could
\* have made, each before the definition it would replace.
OnChain(id) == StatusAt(id, Len(log))
IsOpen(id) == OnChain(id) = "open"

Exists(id) == OnChain(id) # "none"

Least(S) == CHOOSE i \in S : \A j \in S : i <= j
LastOf(S, n) == {i \in S : Cardinality({j \in S : j >= i}) <= n}
FirstOf(S, n) == {i \in S : Cardinality({j \in S : j <= i}) <= n}

IdleImporter == [pc |-> "idle", above |-> 0, found |-> NoRows]
IdleWatcher == [pc |-> "idle", event |-> "created", todo |-> {}, last |-> 0, seen |-> "none"]
IdleCleaner == [pc |-> "idle", total |-> 0, page |-> {}, todo |-> {}, gone |-> {}]

Init ==
  /\ log = <<>> /\ indexed = 0
  /\ registered = FALSE /\ registrations = 0
  /\ db = NoRows
  /\ cursor = [event \in {"created", "deleted"} |-> 0]
  /\ importer = IdleImporter /\ watcher = IdleWatcher /\ cleaner = IdleCleaner
  /\ failures = 0 /\ cleanups = 0

CreateAuction ==
  /\ \E id \in Ids :
       /\ {i \in Ids : Happened("created", i, Len(log))} = 1 .. id - 1
       /\ log' = Append(log, <<"created", id>>)
  /\ UNCHANGED <<indexed, dbVars, importer, watcher, cleaner, bounds>>

FinalizeAuction(id) ==
  /\ OnChain(id) = "open"
  /\ log' = Append(log, <<"finalized", id>>)
  /\ UNCHANGED <<indexed, dbVars, importer, watcher, cleaner, bounds>>

\* Anybody may call delete_finalized_auction.
DeleteAuction(id) ==
  /\ OnChain(id) = "finalized"
  /\ log' = Append(log, <<"deleted", id>>)
  /\ UNCHANGED <<indexed, dbVars, importer, watcher, cleaner, bounds>>

Index ==
  /\ indexed < Len(log)
  /\ indexed' = indexed + 1
  /\ UNCHANGED <<log, dbVars, importer, watcher, cleaner, bounds>>

-----------------------------------------------------------------------------
(***************************************************************************)
(* RegisterAuctionManager and UnregisterAuctionManager; deleting a manager *)
(* cascades to the service state of the watcher.                           *)
(***************************************************************************)
Register ==
  /\ ~registered
  /\ registrations < MaxRegistrations
  /\ registered' = TRUE
  /\ registrations' = registrations + 1
  /\ UNCHANGED <<chainVars, db, cursor, importer, watcher, cleaner, bounds>>

Unregister ==
  /\ registered
  /\ registered' = FALSE
  /\ db' = NoRows
  /\ cursor' = [event \in {"created", "deleted"} |-> 0]
  /\ UNCHANGED <<chainVars, registrations, importer, watcher, cleaner, bounds>>

-----------------------------------------------------------------------------
(***************************************************************************)
(* ImportAuctions, called by AuctionImportService for a manager it found   *)
(* registered.                                                             *)
(***************************************************************************)
Rows == {id \in Ids : db[id] # "none"}
MaxAuctionAppId == IF Rows = {} THEN 0 ELSE CHOOSE id \in Rows : \A j \in Rows : j <= id

ImporterReadsMax ==
  /\ importer.pc = "idle"
  /\ registered
  /\ importer' = [importer EXCEPT !.pc = "search", !.above = MaxAuctionAppId]
  /\ UNCHANGED <<chainVars, dbVars, watcher, cleaner, bounds>>

\* A page of the auctions above, in the order of their ids, as the indexer knows them.
SearchPage(above) ==
  FirstOf({id \in Ids : id > above /\ StatusAt(id, indexed) # "none"}, ImportBatch)

ImporterSearches ==
  /\ importer.pc = "search"
  /\ LET page == SearchPage(importer.above) IN
       importer' =
         IF page = {} THEN IdleImporter
         ELSE [pc |-> "store", above |-> 0,
               found |-> [id \in Ids |-> IF id \in page THEN StatusAt(id, indexed) ELSE "none"]]
  /\ UNCHANGED <<chainVars, dbVars, watcher, cleaner, bounds>>

\* The foreign key to the manager refuses the rows of one that is not registered.
ImporterStores ==
  /\ importer.pc = "store"
  /\ \/ /\ registered
        /\ db' = [id \in Ids |-> IF importer.found[id] # "none" THEN importer.found[id] ELSE db[id]]
        /\ importer' = IdleImporter
     \/ /\ ~registered
        /\ importer' = [IdleImporter EXCEPT !.pc = "dead"]
        /\ UNCHANGED db
  /\ UNCHANGED <<chainVars, registered, registrations, cursor, watcher, cleaner, bounds>>

-----------------------------------------------------------------------------
(***************************************************************************)
(* The watcher: a batch of events after the saved position, RefreshAuctions*)
(* on their auctions one by one, publish, save the position.               *)
(***************************************************************************)
WatcherSearches ==
  /\ watcher.pc = "idle"
  /\ registered
  /\ \E event \in EventsWatched :
       LET batch == FirstOf({i \in cursor[event] + 1 .. indexed : log[i][1] = event}, WatchBatch) IN
         /\ batch # {}
         /\ watcher' = [pc |-> "lookup", event |-> event, todo |-> batch,
                        last |-> CHOOSE i \in batch : \A j \in batch : j <= i, seen |-> "none"]
  /\ UNCHANGED <<chainVars, dbVars, importer, cleaner, bounds>>

WatchedId == log[Least(watcher.todo)][2]

\* LookupAuction: what algod says now, if the manager is still registered.
WatcherLooksUp ==
  /\ watcher.pc = "lookup"
  /\ watcher' = [watcher EXCEPT !.pc = "write",
       !.seen = IF Exists(WatchedId) /\ ~registered THEN "unregistered" ELSE OnChain(WatchedId)]
  /\ UNCHANGED <<chainVars, dbVars, importer, cleaner, bounds>>

IgnoresMissing(id, seen) == IF seen \in {"unregistered", "none"} THEN db ELSE [db EXCEPT ![id] = seen]

\* ImportAuction: the row is stored or, if there is no such auction, deleted.
Refreshed(id, seen) == IF seen = "unregistered" THEN db ELSE [db EXCEPT ![id] = seen]

WatcherWrites ==
  /\ watcher.pc = "write"
  /\ \/ /\ registered \/ watcher.seen \notin {"open", "finalized"}
        /\ db' = Refreshed(WatchedId, watcher.seen)
        /\ LET rest == watcher.todo \ {Least(watcher.todo)} IN
             watcher' = [watcher EXCEPT !.pc = IF rest = {} THEN "save" ELSE "lookup",
                                        !.todo = rest, !.seen = "none"]
     \/ /\ ~registered /\ watcher.seen \in {"open", "finalized"}
        /\ watcher' = [IdleWatcher EXCEPT !.pc = "dead"]
        /\ UNCHANGED db
  /\ UNCHANGED <<chainVars, registered, registrations, cursor, importer, cleaner, bounds>>

\* The events are published and the position is saved.
WatcherSaves ==
  /\ watcher.pc = "save"
  /\ \/ /\ registered
        /\ cursor' = [cursor EXCEPT ![watcher.event] = watcher.last]
        /\ watcher' = IdleWatcher
     \/ /\ ~registered
        /\ watcher' = [IdleWatcher EXCEPT !.pc = "dead"]
        /\ UNCHANGED cursor
  /\ UNCHANGED <<chainVars, registered, registrations, db, importer, cleaner, bounds>>

-----------------------------------------------------------------------------
(***************************************************************************)
(* DeleteFinalizedAuctions.  Every search starts at offset 0: next_page is *)
(* only asked whether there is a next page, the request stays as it is.    *)
(***************************************************************************)
CleanerStarts ==
  /\ cleaner.pc = "idle"
  /\ registered
  /\ cleanups < MaxCleanups
  /\ cleanups' = cleanups + 1
  /\ cleaner' = [cleaner EXCEPT !.pc = "search"]
  /\ UNCHANGED <<chainVars, dbVars, importer, watcher, failures>>

SearchFinalized == {id \in Ids : db[id] = "finalized"}

CleanerSearches ==
  /\ cleaner.pc = "search"
  /\ LET page == FirstOf(SearchFinalized, PageSize) IN
       cleaner' = IF page = {} THEN IdleCleaner
                  ELSE [pc |-> "check", total |-> Cardinality(SearchFinalized),
                        page |-> page, todo |-> page, gone |-> {}]
  /\ UNCHANGED <<chainVars, dbVars, importer, watcher, bounds>>

\* The rest of the page once the auction looked at is known to be gone or not.
Checked(gone) ==
  LET id == Least(cleaner.todo)
      rest == cleaner.todo \ {id} IN
    [cleaner EXCEPT !.pc = IF rest = {} THEN "delete rows" ELSE "check",
                    !.todo = rest, !.gone = IF gone THEN @ \cup {id} ELSE @]

CleanerChecks ==
  /\ cleaner.pc = "check"
  /\ cleaner' = IF ~Exists(Least(cleaner.todo)) THEN Checked(TRUE)
                ELSE IF WithClient THEN [cleaner EXCEPT !.pc = "delete app"]
                ELSE Checked(FALSE)
  /\ UNCHANGED <<chainVars, dbVars, importer, watcher, bounds>>

\* AuctionManagerClient.delete_finalized_auction: raises if the auction is gone by now.
CleanerDeletesApp ==
  /\ cleaner.pc = "delete app"
  /\ LET id == Least(cleaner.todo) IN
       \/ /\ OnChain(id) = "finalized"
          /\ log' = Append(log, <<"deleted", id>>)
          /\ cleaner' = Checked(TRUE)
       \/ /\ OnChain(id) # "finalized"
          /\ cleaner' = IdleCleaner
          /\ UNCHANGED log
  /\ UNCHANGED <<indexed, dbVars, importer, watcher, bounds>>

RowsToDelete == IF WithClient THEN cleaner.page ELSE cleaner.gone

NextPage(total) == PageSize < total

CleanerDeletesRows ==
  /\ cleaner.pc = "delete rows"
  /\ db' = [id \in Ids |-> IF id \in RowsToDelete THEN "none" ELSE db[id]]
  /\ cleaner' = IF NextPage(cleaner.total) THEN [IdleCleaner EXCEPT !.pc = "search"] ELSE IdleCleaner
  /\ UNCHANGED <<chainVars, registered, registrations, cursor, importer, watcher, bounds>>

-----------------------------------------------------------------------------
(***************************************************************************)
(* Errors, and services started again after one.                           *)
(***************************************************************************)
WorkerFails ==
  /\ failures < MaxFailures
  /\ failures' = failures + 1
  /\ \/ /\ importer.pc # "dead"
        /\ importer' = [IdleImporter EXCEPT !.pc = "dead"] /\ UNCHANGED watcher
     \/ /\ watcher.pc # "dead"
        /\ watcher' = [IdleWatcher EXCEPT !.pc = "dead"] /\ UNCHANGED importer
  /\ UNCHANGED <<chainVars, dbVars, cleaner, cleanups>>

RestartService ==
  /\ \/ importer.pc = "dead" /\ importer' = IdleImporter /\ UNCHANGED watcher
     \/ watcher.pc = "dead" /\ watcher' = IdleWatcher /\ UNCHANGED importer
  /\ UNCHANGED <<chainVars, dbVars, cleaner, bounds>>

\* No manager is registered: the workers poll and find nothing to do.
NothingToPoll ==
  /\ ~registered
  /\ UNCHANGED vars

ImporterStep == ImporterReadsMax \/ ImporterSearches \/ ImporterStores
WatcherStep == WatcherSearches \/ WatcherLooksUp \/ WatcherWrites \/ WatcherSaves
CleanerStep == CleanerSearches \/ CleanerChecks \/ CleanerDeletesApp \/ CleanerDeletesRows

Next ==
  \/ CreateAuction
  \/ \E id \in Ids : FinalizeAuction(id) \/ DeleteAuction(id)
  \/ Index
  \/ Register \/ Unregister
  \/ ImporterStep \/ WatcherStep
  \/ CleanerStarts \/ CleanerStep
  \/ WorkerFails \/ RestartService
  \/ NothingToPoll

Spec == Init /\ [][Next]_vars

-----------------------------------------------------------------------------
(***************************************************************************)
(* Properties.                                                             *)
(***************************************************************************)
\* The highest stored id is the importer's cursor, and the watcher writes rows
\* too: it never gets past an auction that is not stored yet, which the importer
\* would then never search for.
NothingIsSkipped ==
  registered => \A id \in Ids : Exists(id) /\ db[id] = "none" => id > MaxAuctionAppId

\* A row is only deleted once its auction is gone from the chain, whichever
\* program deletes it and however old what it has read is.
OnlyGoneAuctionsLeave ==
  [][registered' => \A id \in Ids : db[id] # "none" /\ db'[id] = "none" => OnChain(id) = "none"]_vars

\* Rows that stay although the watcher has dealt with the deletion of their auction.
Consumed(i) ==
  \/ i <= cursor["deleted"]
  \/ watcher.event = "deleted" /\ i <= watcher.last /\ i \notin watcher.todo
Phantoms ==
  {id \in Rows : \E i \in 1 .. Len(log) : log[i] = <<"deleted", id>> /\ Consumed(i)}

\* Such a row only appears when the importer stores what it has found before the
\* auction was deleted.  What the watcher stores late is always followed by the
\* deletion event that removes it.
OnlyImportsResurrect ==
  [][\A id \in Phantoms' \ Phantoms : importer.pc = "store" /\ importer.found[id] # "none"]_vars

=============================================================================
