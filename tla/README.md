# MESFlow in TLA+

Specifications, model-checking configurations and machine-checked proofs for the
core of MESFlow, a manufacturing execution system: a PostgreSQL database behind a
Flask application, kiosks on the shop floor that open and close work sessions, a
web interface for supervisors and planners. Paths below are relative to the
repository.

| file | what it is |
|---|---|
| `MaterialAccount.tla` | what the ledger promises of material |
| `ProductionLedger.tla` | sessions, material, repairs, aggregates and statuses |
| `ProductionLedger_proofs.tla`, `ProductionStatus_proofs.tla` | theorems about quantities and material, the refinement included; about statuses |
| `EventDelivery.tla` | what offline synchronisation promises |
| `OfflineSync.tla`, `OfflineSync_proofs.tla` | how it is done: devices, request threads, transactions; theorems, the refinement included |
| `KioskTerminal.tla`, `KioskTerminal_proofs.tla` | a shared kiosk terminal (protocol v2) and the server's threads behind it; theorems |
| `IncidentLog.tla` | what the exception center promises of its records |
| `ExceptionCenter.tla`, `ExceptionCenter_proofs.tla` | how anomalies are detected, recorded and decided; theorems, the refinement included |
| `SessionTimes.tla`, `SessionTimes_proofs.tla` | hours of sessions, shifts, automatic closing; theorems |
| `OperationConfig.tla`, `OperationConfig_proofs.tla` | changes of an operation's dependencies; theorems |
| `WriteLocks.tla`, `WriteLocks_proofs.tla` | row locks of the write paths and their order; theorems |
| `MC*.tla`, `*.cfg` | small instances for TLC |
| `PROJECT.json` | components, runs, mutants, source map, findings, hazards, theorems |

An operator whose comment says *Mutant* is not used by the specification: it is a
plausible bug in the definition after it, and the property listed with it under
`mutants` is violated when it takes that definition's place.

## 1. The system

### 1.1 Components

**Session and material ledger** (`app/mesflow/db/repositories/execution.py`,
`production_state.py`, `scheduling.py`). *State:* `work_sessions` (status OPEN or
CLOSED, employee, operation, good / defect / repairable / repaired / scrap
quantities, an exclusion mark), `operation_input_consumptions` (at most one row per
session: what it drew from an upstream operation), and the aggregates and
statuses stored on `operations` and `production_orders`. *Operations:* `start`,
`finish`, `finish_many`, `auto_close_for_shift_end`; the supervisor's `adjust`,
`edit_session`, `transfer_operation`, `exclude_session`, `restore_session`,
`create_manual_session`. Each ends with `reconcile_operation_and_po`, which
rebuilds the stored aggregates and both statuses from the sessions. *Hard:*
eleven write paths must each keep four tables in agreement; pieces repaired at
the bench are good pieces too, so two kinds of consumer compete for them; a
correction may undo what another session already built on. *Correct when:*
aggregates equal the sessions' sums; a material row says what its session draws
now; no input is handed out that does not exist; statuses are true of the
sessions they are derived from.

**Repair queue** (`repositories/rework.py`). *State:* `rework_ledger`, entries of
pieces repaired or scrapped for a source session. *Operations:* list (read only)
and `resolve`, which credits the source session, writes the ledger and records
the labour as a session on a bench operation. *Hard:* the pending quantity is
the difference of numbers a supervisor can correct between two resolutions.
*Correct when:* no piece is resolved twice, and session and ledger agree.

**Production orders and operation status commands** (`web/master_data.py`,
`repositories/master_data.py`). *State:* order and operation status, planned
quantity. *Operations:* start an order, edit it, cancel an operation, create and
delete master data, edit an operation, instantiate a template. *Hard:* they race
with the shop floor; the order form writes statuses without looking at sessions,
and the operation form sends back the status and quantities it loaded, judged by
reads made before any lock. *Correct when:* no command hides work that goes on, and
what a form writes over the derived values is known and mended by the next rebuild.

**Offline event synchronisation** (`repositories/offline_sync.py`,
`web/execution.py`). *State:* `kiosk_client_events` (one row per event a device
recorded while cut off: retryable, accepted or rejected, a count of tries, the
session a START opened) and, on the device, the queue of events it keeps.
*Operation:* `process_event`, a chain of separate transactions: look the row up,
resolve codes, run `start()` or `finish()` under an idempotency key, record the
outcome, answer. *Hard:* every request can be repeated, overlap its own
retransmission, break off between two transactions or lose its answer.
*Correct when:* an event takes effect at most once and in order, the device drops
nothing that neither took effect nor is on record, it gets rid of every event,
and real work is not lost.

**Kiosk terminal, protocol v2** (`web/kiosk_v2.py`). *State:* `kiosk_v2_projection`
(what the terminal shows, with a `state_version`), `kiosk_v2_events` (the stored
answers), and on the terminal its screen and the event it repeats. *Operations:*
`POST /events` (employee card, operation, quantity, finish, cancel), `GET /state`.
*Hard:* one request is up to six transactions, `start()` and `finish()` commit
before the optimistic update of the projection, requests are repeated and overlap,
and sessions are opened and closed elsewhere meanwhile. *Correct when:* an event
does at most once what the screen it was pressed on promised.

**Exception center** (`repositories/exceptions.py`, `services/exception_service.py`,
`web/exceptions.py`). *State:* `exception_records`, numbered incidents of each
anomaly of a session. *Operations:* `reconcile` (detect, raise, confirm, put aside),
reports of kiosks, acknowledge, ignore, resolve with a check, correct the session.
*Hard:* a scan acts on what it read before its transaction, and any load of the
list is a scan. *Correct when:* one incident at a time, decisions stand, severe
ones are put aside by people only, and the records say in the end what is so.

**Session times, shifts and automatic closing** (`services/shift_session_service.py`,
`core/working_calendar.py`, `core/time_policy.py`, the hours in `execution.py`).
*State:* start and end of each session, how it was closed; a scan's list of
candidates. *Hard:* device clocks are trusted within limits, shifts cross midnight
and leave gaps, the scan closes by boundaries it computed earlier, and supervisors
rewrite hours. *Correct when:* no one works twice at once on one operation, and a
session left open is closed at the end of its own shift or day.

**Operation configuration and dependency graph** (`repositories/master_data.py`,
`dependency_graph.py`). *State:* input source, predecessor and order of each
operation. *Hard:* requests check a copy read without a lock and write it back
merged. *Correct when:* the graph is acyclic and is not changed under sessions
that drew on it.

**Lock order of the write paths** (`execution.py`, `production_state.py`,
`rework.py`, `setup_ops.py`, `master_data.py`, `web/excel_io.py`). Row locks in the
order production order, operation, session. *Hard:* the order to lock is found by
an unlocked look-up, batches lock several orders, and some paths do not follow the
rule. *Correct when:* no two transactions wait for each other, and an order has one
writer at a time.

**Machine setup** (`setup_ops.py`), **kiosk identity, generations and reconciliation**
(`services/kiosk_reconciliation.py`, `server_generation.py`), **scanned identities**
(`domain/qr_identity.py`), **accounts, roles and login sessions**, **device
updates**, **templates, routers and spreadsheets**, **reports and analytics**,
**notifications, prediction and health**, **web interface, deployment, migrations**.
`PROJECT.json` lists each with its status and the reason; section 7 says what is
not modelled and why.

### 1.2 Interactions

Kiosk screens and supervisors' pages call the repositories over HTTP, each command
one database transaction or a chain of them. Production state is shared through the
tables; there is no in-memory state between requests. Offline synchronisation and
the terminals of protocol v2 call the same `start` and `finish`, with a key derived
from the event. The shift service calls `auto_close_for_shift_end` from a background
thread. The exception center reads sessions and writes records of its own; only its
`correct_session` changes a session, through `edit_session`. Reports and predictions
only read.

The modules share the tables by the same interface. ProductionLedger takes each
command as one step; `OneWriterPerOrder` of WriteLocks is what justifies that, and
names the paths for which it does not hold. KioskTerminal and OfflineSync take
`start` and `finish` as steps that commit or refuse and leave the reasons to the
ledger. ExceptionCenter takes what is wrong with sessions as facts that come and
go. The configuration that is constant in ProductionLedger is the variable of
OperationConfig, whose `DrawnFromSource` states what the ledger assumes of it:
material drawn came from the configured source.

## 2. What the modules model

### 2.1 MaterialAccount and ProductionLedger

`MaterialAccount` is the abstract specification: each operation has a stock of pieces,
in all and repaired, and an account of what was drawn on it; one action, `Book`,
writes the stock of the two operations work leaves and joins, and draws on one other
operation within what that has. It knows no sessions, rows or statuses. The mapping
is at the end of ProductionLedger: stock is `done_qty` and `repaired_qty` of
`operations`, what is drawn the sums over `operation_input_consumptions`. That
corrections may lower a stock below what was drawn is part of it (section 3).


| variable | table |
|---|---|
| `sess` | `work_sessions` |
| `hold` | `operation_input_consumptions`; good and defect input are one number, as in every query |
| `bucket` | `rework_ledger` summed per source session |
| `ops` | `operations`: status and the five stored sums |
| `orders` | `production_orders`: status, planned quantity |
| `form` | a request that saves the operation form: what it read, and what it learnt of sessions |

| action | code |
|---|---|
| `Start`, `Finish`, `AutoClose` | `WorkSessionRepository.start`, `_finish_within`, `auto_close_for_shift_end` |
| `Resolve` | `ReworkQueueRepository.resolve` |
| `Adjust`, `Edit`, `Transfer`, `Exclude`, `Restore`, `CreateManual` | the methods of `SupervisorRepository` |
| `CancelOperation`, `StartOrder`, `UpdateOrder` | `web/master_data.py`, `ProductionOrderRepository.update` |
| `AskUpdate`, `CountSessions`, `SaveOperation`, `DropForm` | `OperationRepository.update`: the read of the row, the count of sessions, the transaction, a refusal |
| `ReconcileOperation`, `ReconcileOrder`, `Reconciled`, `ReconciledBoth` | `production_state.py` |
| `Consumes`, `Available`, `Need` | `_validate_and_upsert_input_consumption` and the queries it makes |

**One action is one committed transaction.** The write paths of this module take the row
lock of the parent production order first, and sessions, aggregates and
consumption rows of an order are reached only through it (WriteLocks states this as
`OneWriterPerOrder`; a session moved to another order between the look-up and the
lock is its known exception). A path that raises rolls back and changes
nothing, so its checks are guards. Reconciliation is always part of the action, and
reads the sessions the transaction leaves (`sess'`). The order of reads and writes
within a transaction is kept where it shows: `Transfer` checks the input against the
aggregates stored *before* the move; `Start` judges the operation after a first
reconciliation; `Resolve` reconciles the source's operation and not the bench.

**The operation form** alone is three steps:
`OperationRepository.update` reads the row, then counts its sessions, both without a
lock (`master_data.py:310-312`), and only then opens its transaction. What is sent is
compared with the row of the *first* read; the transaction writes it after it has
waited for the order's lock, compares nothing again, and rebuilds the operation only if
the *count* saw sessions (`:368-372`). `form[c]` is what request c carries between the
steps. `sent` says whether it sends status, done, defect and repairable quantity, as
the form does on every save (`app.js:1381`), or none of them, as a client that patches
other fields does; repaired and scrapped pieces are not among the fields written.

Configuration (`Kind`, `Source`, `SourceKind`, `DefectsConsume`, `Predecessor`,
`Bench`) is CONSTANT under three assumptions the code enforces: `ConfigAssumption`
(shape), `FlowAssumption` (an operation draws on another one of its order,
`_validate_flow`), `QuantityAssumption` (repairable pieces are defective; a planned
quantity is positive). `NullAssumption` keeps NULL apart from values.

Left out of this module: clock times, which are SessionTimes' subject (an overlap
makes a transaction refuse, which is one more step that may not happen; two OPEN
sessions of one employee on one operation always overlap and *are* refused, by the
unique index); locks and the unlocked look-up that precedes them (WriteLocks);
request ids (OfflineSync, KioskTerminal);
audit rows and movements; the lazy creation of the bench; confirmations and role
checks of a transfer; the optional `expected_updated_at` of an edit. `finish_many`
is several `Finish` steps that commit together, and `SetupOps.complete` a `Finish`
without quantities.

### 2.2 EventDelivery and OfflineSync

`EventDelivery` is the abstract specification: how often each event took effect,
which events are on record, which the device keeps; three actions.

`OfflineSync` is the protocol. `queue` is what the device keeps; `row` is
`kiosk_client_events`; `effect[e]` counts commits of `start()`/`finish()` for event
e; `hand[h]` is request thread h, which moves through `locate`, `apply`, `judge`,
`record`, `answer`, each a transaction or a decision of `process_event`;
`outlook[e]` is what the state of production would make of e now, and changes at
will (`Shift`) for the events in `Obstructed`. `Receive` is enabled for every event
at any time, dropped ones included: it stands for first sendings, retransmissions
and late arrivals alike. `Falter` is a database failure before the commit, or after
it but before the thread hears of it; `SkipRecord` a failure record that could not
be written; `Vanish`, external, a thread that dies or an answer that is lost.

The attempt count stops at `MaxRetry` since the code only compares it with that
bound. The events of a batch are handled in turn, each in transactions of its own, so a
thread of the model handles one event; several threads may handle the same one. What
this leaves out is that an event whose record fails aborts the rest of its batch
(`web/execution.py:447-452`): the device hears nothing of the events before it either
and sends the batch again. Each of them goes through what `Vanish` and `Receive` allow,
a lost answer and a repetition; that they do so together is not modelled.

### 2.3 KioskTerminal

| variable | what it is |
|---|---|
| `proj`, `answer` | `kiosk_v2_projection`, the stored answers of `kiosk_v2_events` |
| `session` | `work_sessions`: status and employee |
| `started`, `finished` | what `kiosk_idempotency` remembers under the key `device:event` |
| `flagged` | sessions with an INTERRUPTED_QUANTITY_ENTRY record |
| `screen`, `waiting`, `press` | the terminal: what it shows, which event it repeats, what was pressed on which screen |
| `hand` | the request in each server thread, and how far it is |

A thread goes `look`, `apply`, `find`, `project`, `store`, `reply`, each a
transaction or a read of its own: `Receive` looks for a stored answer, `Look` reads
the row and compares the number sent with the event, `Report` and `FindSession`
handle a card, `ScanOperation` and `SubmitQuantity` call `start()` and `finish()`,
`Project` is the optimistic update (`_set_projection`), `Store` is `_store_event`,
whose `ON CONFLICT` keeps the first answer. `Break` ends a request anywhere: an
exception answered RETRY, the death of the process, a lost answer. `Receive` is
enabled for an event as long as it has no stored answer, so retransmissions overlap
with the request they repeat. `Reject` stands for every refusal of `start` and
`finish`, whose reasons are the ledger's. `OpenElsewhere` and `CloseElsewhere` are
the web kiosk, supervisors and the end of a shift.

Left out: disabled devices and maintenance, bootstrap, heartbeat and bundles, events
without a state number, a session that is opened again or handed to another
employee by a supervisor.

### 2.4 IncidentLog and ExceptionCenter

`IncidentLog` is the abstract specification: for each fault the statuses of its
incidents, oldest first; a new one only when the last is decided, a decision is
never taken back, and a severe one is put aside by a person only.

In `ExceptionCenter`, `holds` are the anomalies that are true of sessions now (a
fault is one kind of anomaly of one session, the `fingerprint` of the code),
`records[f]` the rows of `exception_records` by `occurrence_no` (status,
`condition_active`, `row_version`), `watcher[w]` a thread that reconciles. `Detect`
is the query of `detected_conditions()`, `Apply` the transaction of `reconcile()`;
between them anything may happen. `ReportInterrupted` is the kiosk's report,
`AskResolve`, `Verify`, `Resolve` a resolution with its scan before the decision,
`Acknowledge` and `Ignore` single transactions, `Correct` is `correct_session`.
`Abort` is a failure or a deadlock after which a thread reads again or gives up. `Apply` takes the
transaction of `reconcile()` as one step. In the code it reads and writes row after row
under READ COMMITTED, and the only unique index is on the active incident of a
fingerprint (migration 0031:34): two scans that raise the same fault at once are kept
apart by it, while a row decided between the reads of one scan is seen by some of its
statements and not by others. That window is not modelled. The condition a query looks for is a Boolean; which sessions have it is not modelled.

### 2.5 SessionTimes

`now` is the server's clock, `rows` the hours of `work_sessions`, `scan` the list a
running scan still has to close. `Start`, `Finish`, `Edit`, `Transfer` and
`CreateManual` are the hours' part of the ledger's actions; `FindCandidates` is
`find_candidates`, `AutoClose` one call of `auto_close_for_shift_end`, `ScanDies` a
scan killed halfway. `Owner`, `Boundary` and `Reason` translate the calendar:
which shift owns a start (under way, or about to open within the tolerance), when it
ends, and the end of the calendar day for a start in no shift. `moved`, `edited` and
`ahead` are history variables, needed to say which sessions the properties except.

Times are whole ticks and a transaction takes effect in the tick that is its
`CURRENT_TIMESTAMP`; the scan is taken to be switched on (by default it is off or in
dry-run, `core/config.py:82-83`). Left out: sums of working time, changes of the
shift configuration, restrictions on who may close.

### 2.6 OperationConfig

`operation` are the rows (order, predecessor, source), `drawn` the sources an
operation has drawn from, `worked` the operations with sessions, `thread[t]` what a
request holds from its reading. An update is `AskUpdate` (read the row and whether
anything is drawn), `CheckUpdate` (validate the merged row without a lock) and
`WriteUpdate` (under the lock of the order: validate the graph again, write);
creation is `AskCreate` and `Insert`, which no lock protects; deletion `AskDelete`
and `Delete`. `Draw` and `PutBack` are sessions on the floor. `overtaken` is a history
variable: operations with material drawn whose row was written from a stale copy.

The switch of the input flow is abstracted into the source (off is no source). Names,
codes, printed codes and whole orders are left out. The UPDATE of `WriteUpdate` also
writes the status and quantities the form sent, and rebuilds the operation if its
request saw sessions: that half of it is `SaveOperation` in ProductionLedger.

### 2.7 WriteLocks

| variable | what it is |
|---|---|
| `opOf`, `live` | `work_sessions.operation_id`, the operations that exist, both committed |
| `job[t]` | the transaction of a thread: the path it is on, the orders it has looked up, the rows it has still to lock |
| `held[t]` | its row locks, with their mode |

A transaction is the list of locks it asks for. `WriteOperation`, `WriteOrder`,
`WriteSession`, `FinishMany`, `MoveSession` and `Create` are the paths that lock the
order first, found by an unlocked look-up; `Configure`, `Delete`, `Import` and
`Inspect` are those that do not. `LockOrder` takes the lowest of the orders looked up;
`LockRow` the next row, after which a locked session is read again and what follows
depends on its operation *now* (`SessionPaths`); `NextItem` goes on to the next
session of a batch with a look-up of its own. A transaction may be refused at any
point (`Refuse`), and the database breaks a circle of waits (`BreakCircle`).
Modes are numbered so that two conflict when they add up to five, which is
PostgreSQL's table of row locks.

`Import` locks operations, and an order in either mode: the key of one it adds rows to,
or the row itself when it gives an order without a plan quantity one
(`web/excel_io.py:347`).

Left out: advisory locks of request ids, the shared lock of an employee, rows of other
tables, operations that change their order, the replace mode of an import, the forced
deletion of an order, and the queue of waiters of a row.

## 3. What TLC checks

Reports of quantities are (good, defect, repairable) triples.

| run | instance | properties |
|---|---|---|
| `ledger_material` | one employee, three sessions; cut feeds weld with good and grind with repaired pieces; the bench; report (1,1,1), target 9; 19,511 states | `TypeOK`, `RollupExact`, `HoldFollowsSession`, `HoldMatchesReport`, `ReworkCreditedOnce`, `KeepsAccount`, `ShortfallIsACorrection`, `DrawnElsewhereIsSupplied`, `MoveKeepsPieces` |
| `ledger_orders` | two employees, two sessions, two orders, a setup and the bench, a request that saves the operation form; the order form may write COMPLETED at any time; 28,040 states | `SetupMakesNothing`, `RollupExact`, `OpenSessionRunsOperation`, `CompletedOrderIsDone` |
| `ledger_excluded` | cut, weld, bench | `ExcludedHoldsNothing`, violated |
| `ledger_moved` | cut, weld, bench | `MovedSessionIsSupplied`, violated |
| `offline_sync` | one piece of work (two events), two threads, two tries, both events obstructed; 585,120 states | `TypeOK`, `DeliversOnce`, `AcceptedStands`, `FinishRestsOnStart` |
| `offline_answered` | one thread, two tries, starts obstructed, with fairness; 3,036 states | `EveryEventAnswered`, `OutageRejectsNothing` |
| `offline_lost` | the same | `RetriedWorkIsKept`, violated |
| `kiosk_terminal` | one terminal, two employees, two sessions, two presses, two threads; 1.1 million states | `TypeOK`, `CopiesAreCurrentOrOlder`, `EffectAsShown`, `OpensOnce`, `AcceptedIsDone`, `InterruptedIsFlagged` |
| `exception_center` | a severe fault that recurs and one the kiosk reports, a nightly scan and a page load; 588,000 states | `TypeOK`, `EarlierAreOver`, `KeepsIncidentLog`, `RecordsCatchUp` |
| `session_times` | one worker, two operations, two sessions, two days of five ticks, a day shift and one across midnight; 260,000 states | `TypeOK`, `OverlapOnlyByTransfer`, `EndsBeforeStartOnlyAhead`, `ClosedAtOwnBoundary`, `LeftOpenIsClosed` |
| `operation_config` | two operations and one to be created, two orders, two threads; 607,000 states | `TypeOK`, `NoCycle`, `DrawnFromSource` |
| `write_locks` | two threads, two sessions, two orders with four operations; 611,000 states | `TypeOK`, `CirclesAreKnown`, `OneWriterPerOrder` |

Properties in words:

* `RollupExact`: a step that writes the stored aggregates of an operation, or changes
  what its sessions add up to, leaves the aggregates equal to the sums of its sessions.
  The exception is `SavedUnseen`: the operation form, saved by a request that counted no
  session, which writes and does not rebuild. Since the initial aggregates are exact,
  they are so in every state until such a save, and again from the next rebuild on.
* `HoldFollowsSession`: a material row belongs to a CLOSED session, its current
  operation and that operation's configured source.
* `HoldMatchesReport`: a counted session of a fed operation holds input for what it
  reported, save pieces repaired since. Equality would be too strong: `resolve` adds
  repaired pieces to the good ones without drawing input, and later corrections do
  draw it.
* `ReworkCreditedOnce`: session and repair ledger agree and no more is resolved than
  was declared repairable.
* `KeepsAccount`: ProductionLedger implements MaterialAccount. A step that raises what
  is drawn on an operation, in all or as repaired pieces, stays within the aggregates
  it found, and draws on one operation only, which is not the one it books work on.
  The bound is on the step because corrections may lower what was produced after it
  was handed out (see the hazard list).
* `ShortfallIsACorrection`: that is the only way. An operation comes to have more held
  from it than it produced by a step that lowers what it produced, never by one that
  draws on it.
* `DrawnElsewhereIsSupplied`: a step that raises what is held from a source stays
  within what the source has *after* the step, unless the drawing session was moved
  away from that very source. This delimits the divergence `MovedSessionIsSupplied`
  shows (section 5).
* `MoveKeepsPieces`: what the operation a session leaves loses, in every aggregate, is
  what the operation it joins gains, if both were exact before.
* `OpenSessionRunsOperation`: no step leaves an OPEN session on a CANCELLED operation, or
  a counted one on an operation that is not IN_PROGRESS, unless it was there before, in
  that status. The exceptions are the operation form saved unseen (`SavedUnseen`), which
  puts back whatever status it read, and one that puts back CANCELLED (`SavedCancelled`),
  which the rebuild after it keeps.
* `CompletedOrderIsDone`: a step that changes the status of an order, or of one of its
  production operations, leaves the order COMPLETED only with all of these COMPLETED.
  The exceptions are the order form when it writes COMPLETED itself, typed or loaded
  before the order was reopened, and the operation form saved unseen.
* `SetupMakesNothing`: a SETUP operation has no quantities, whatever is typed at its
  terminal, moved there, corrected or repaired. The bench is not included: a session
  moved there while it is OPEN is finished with quantities (section 5).
* `DeliversOnce`: OfflineSync implements EventDelivery under the mapping at the end
  of the module.
* `AcceptedStands`: an accepted row is true and is never overwritten.
* `FinishRestsOnStart`: a FINISH that took effect has its START on record, accepted and
  with the session it opened, however requests of the two interleaved.
* `OutageRejectsNothing`: an event production never stands in the way of is rejected
  only if it is a FINISH that waited for its START until its tries were spent. The
  run obstructs every START, so of a START this is what the proof adds.
* `EveryEventAnswered`: the device gets rid of every event.
* `CopiesAreCurrentOrOlder`: every copy of a terminal's state, on a screen, in a press,
  in a thread, in a stored answer, is the server's state or has a lower number.
* `EffectAsShown`: what an event starts or finishes is for the employee and of the
  session that were on the screen it was pressed on.
* `OpensOnce`: an event opens at most one session.
* `AcceptedIsDone`: an event answered as accepted did start or finish its session.
* `InterruptedIsFlagged`: another employee's card takes a terminal from an unfinished
  quantity only after that is on record, if the session is open.
* `KeepsIncidentLog`: ExceptionCenter implements IncidentLog.
* `EarlierAreOver`: an older incident is decided and no longer tracked, so no scan
  touches it again.
* `RecordsCatchUp`: a detected fault that stays true has, from some time on, a record
  that says so, and one that stays away has none.
* `OverlapOnlyByTransfer`: two sessions of an employee on one operation share an hour
  only if one of them was moved there by a transfer since it was last edited.
* `EndsBeforeStartOnlyAhead`: a session ends before its start only if a device ahead
  of the server started it, or a supervisor rewrote it.
* `ClosedAtOwnBoundary`: however late the scan runs, it closes a session at the
  boundary of the shift or day it was started in, unless its start was rewritten.
* `LeftOpenIsClosed`: an overdue session is closed or corrected unless another
  session has its hours.
* `NoCycle`: no operation waits for or draws from itself through others, in any state.
* `DrawnFromSource`: material drawn came from the present source, unless a request
  that had read the row earlier wrote it back.
* `CirclesAreKnown`: transactions wait in a circle only if one of them is on a path
  that does not lock the order first, has followed a look-up that became stale, or is
  a batch between two orders.
* `OneWriterPerOrder`: two transactions that have followed the rule never have rows
  below the same order at once, two creations apart.

**Bounds of the ledger.** Three sessions are a consumer, its supplier and either a
rival or the bench session of a repair, which is the most one transaction relates;
each moves among operations through every supervisor command, without a bound on
the length of the run. `ledger_material` uses a target no factory of three sessions
reaches, so that material and not statuses decides what can be done;
`ledger_orders` uses 1, so that operations and orders complete, reopen and complete
again. Two constraints of `MCProductionLedger` bound `ledger_material`: `FewSetAside`
(one session, or the operation that feeds the others, is excluded or cancelled at a
time) and `FewResolved` (two
pieces resolved, one of them scrapped: enough to resolve, correct and resolve
again). `SupportStands` and `OneExcluded` bound `ledger_orders`: setups and the bench are not
cancelled (the code of a cancellation does not look at the type), and one session at a
time is excluded. `FormOnCut` bounds the
operation form there: it is saved for one operation, and is under way while at most one
session exists (the form that saw none and the form that saw one) and the other order
rests. `ledger_material`
runs without forms, whose effect on material is in the proofs only. The order form
writes COMPLETED, the status that can be wrong of its operations; the others are in the
proofs, for any set of statuses it may write. One piece per kind
is enough: budgets only compare and subtract. `ledger_orders` has two orders so that
moves between them rebuild both.

**Bounds of the others.** In OfflineSync different pieces of work share nothing but
the threads, so one suffices; two threads are one request and its retransmission;
two tries are the least that separate "another try" from "the last one".
`kiosk_terminal` starts where a first card has led the terminal, at either screen
that asks for something; two presses and two threads are two events, or an event and
its repetition, in flight together, and a press no screen calls for is explored
alone (`FewOpen`). `exception_center` gives the severe fault two incidents, the least
that can be confused, and has two threads, one of which may be arbitrarily stale.
`session_times` has one shift, a second across midnight and a gap of each sort, on
both sides of which a session can start; tolerances and skews are one tick, the least
that can be on the wrong side; one transfer, edit or killed scan per run is a device
of the bound (`MaxInterventions`). `operation_config` has the least that can form a
cycle in two requests and a third operation that may be inserted between check and
write. `write_locks` has two threads, enough for every circle of two; a longer
circle is a matter for the proof, which has no bound. There order 1 has an operation
with its setup and its bench, order 2 one operation, and both sessions start in order
1; `Few` keeps deletions to the setup, which a configuration brings back, and stops
a session that has been moved to the bench.

Symmetry is used over session rows, employees, threads, presses or alike operations,
only in runs that check no liveness. Deadlock is checked unless ids are used up by
design (sessions and operations are never reused: the ledger's runs,
`operation_config`) or the clock stops at its bound (`session_times`).

**Fairness of OfflineSync** (`FairSpec`). Weak per thread on "makes progress or breaks
off": no request runs for ever (statement and worker timeouts). Strong per event on
the arrival of a kept event (the device resends until told otherwise) and on each step
of its processing: neither the network nor the database may fail the same event at
the same point every time, or nothing could be promised. `FinalRecord` and
`FinalAnswer` say this of settled outcomes separately, since a transient answer that
gets through is no help. Nothing is assumed of `Shift`: production may stand in the
way of an event for ever. **Of ExceptionCenter:** weak on the two steps of the nightly
scan alone; page loads and decisions may never happen. **Of SessionTimes:** weak on
starting a scan and on working through its list (a timer in the server; a killed scan
is followed by another); nobody is assumed to finish or correct anything. The other
modules state safety only.

## 4. What is proved

TLAPS proves, for every value of the constants that satisfies the named assumptions
of the modules (`ConfigAssumption`, `FlowAssumption`, `QuantityAssumption`,
`NullAssumption`, `SessionAssumption`, `PressAssumption`, `FaultAssumption`,
`WatcherAssumption`, `CalendarAssumption`, `PatchAssumption`, `RowAssumption`,
`ShapeAssumption`; TLC evaluates them in the runs):

| module | theorem | states |
|---|---|---|
| `ProductionLedger_proofs` | `TypeCorrect`, `CreditOnce`, `HoldFollows`, `HoldMatches` | `[]` of `TypeOK`, `ReworkCreditedOnce`, `HoldFollowsSession`, `HoldMatchesReport` |
| | `AggregatesExact` | `Spec => RollupExact` |
| | `ImplementsAccount` | `Spec => KeepsAccount` (refinement of MaterialAccount) |
| | `Shortfall`, `DrawnElsewhere` | `Spec =>` `ShortfallIsACorrection`, `DrawnElsewhereIsSupplied` |
| | `SetupsMakeNothing` | `Spec => []SetupMakesNothing` |
| | `MovesWhole` | `Spec => MoveKeepsPieces` |
| `ProductionStatus_proofs` | `WorkShows` | `Spec => OpenSessionRunsOperation` |
| | `CompletedMeansDone` | `Spec => CompletedOrderIsDone`, whatever `AdminStatus` |
| `OfflineSync_proofs` | `TypeCorrect`, `AcceptedForever` | `[]TypeOK`, `AcceptedStands` |
| | `SyncDelivers` | `Spec => DeliversOnce` (refinement of EventDelivery) |
| | `FinishAnchored`, `OutageHarmless` | `Spec => []FinishRestsOnStart`, `Spec => OutageRejectsNothing` |
| `KioskTerminal_proofs` | `TypeCorrect`, `OneScreenPerNumber`, `EffectsArePromised`, `OneSessionPerScan`, `AcceptedMeansDone` | `[]` of `TypeOK`, `CopiesAreCurrentOrOlder`, `EffectAsShown`, `OpensOnce`, `AcceptedIsDone` |
| | `TakeoverIsRecorded` | `Spec => InterruptedIsFlagged` |
| `ExceptionCenter_proofs` | `TypeCorrect`, `OlderIncidentsAreOver` | `[]TypeOK`, `[]EarlierAreOver` |
| | `ImplementsIncidentLog` | `Spec => KeepsIncidentLog` (refinement of IncidentLog) |
| `SessionTimes_proofs` | `TypeCorrect`, `NobodyWorksTwice`, `EndsAfterStart`, `ClosedWhereItBelongs` | `[]` of `TypeOK`, `OverlapOnlyByTransfer`, `EndsBeforeStartOnlyAhead`, `ClosedAtOwnBoundary` |
| `OperationConfig_proofs` | `TypeCorrect`, `DependenciesHaveNoCycle`, `MaterialFromSource` | `[]` of `TypeOK`, `NoCycle`, `DrawnFromSource` |
| `WriteLocks_proofs` | `TypeCorrect`, `WritersApart`, `CirclesKnown` | `[]` of `TypeOK`, `OneWriterPerOrder`, `CirclesAreKnown` |

**Ledger.** Lemmas first say what a transaction does to each table
(`FinishEffect`, `EditEffect`, ...): which session rows it writes, which material
rows, which operations it rebuilds. Each invariant is then proved from those
effects, one step per action.

* Type correctness has two halves. The shapes of rows and forms (`ShapesOK`) are
  inductive by themselves: `RowCheck` is in every path that writes quantities. That
  aggregates are numbers (`QuantitiesOK`) needs that sums have finitely many terms
  (`FiniteInv`), since a form may put back what it read (`LedgerTypes`).
* `RollupExact` is proved of every step from `ShapesOK`: each step is `Settled`, that
  is, it leaves each operation exact or leaves both its aggregates and the sum alone,
  the unseen save apart. The heart is `RollupElsewhere`: an
  operation none of whose sessions changed has the sums it had, so rebuilding the
  operations a session leaves and enters is enough. No fact about folds is needed,
  since both sides fold the same function: a session that contributes nothing is
  outside its domain.
* `ReworkCreditedOnce` is proved with `CreditInv`, its four conjuncts per session
  and that a row that does not exist has been credited nothing. `LedgerGuard` keeps
  them under corrections, `RowCheck` under resolutions.
* `HoldFollowsSession` and `HoldMatchesReport` need each other: `HoldInv` holds
  both per session. A transaction touches the row of one session, except `Resolve`,
  which raises good and repaired alike and so widens the gap the second
  invariant allows.
* The refinement and the three action properties are about sums over all sessions.
  The inductive invariant is `LedgerInv`: `ShapesOK`, `FiniteInv`, `HoldInv` and
  `QuantitiesOK`. It says nothing of exact aggregates, which a form can spoil.
  `FiniteInv` says that only finitely many sessions exist, since a step brings
  at most one into being; the set of ids need not be finite. A fold over a finite
  set gives up any one element (`FoldTakesOut`), so a sum is the sum without one
  session plus that session's part (`DrawnSplit`, `RollupSplit`), and a step that
  writes one session's material row changes what is drawn from one source by what the
  session drew before and draws now (`DrawEffect`). `WithinFree` is the code's check
  of what is free, and `StepMaterial` that no other path writes a material row except
  to release it. `StepBooks` puts these together with what each path rebuilds
  (`StepRebuilds`): every step is `Booked`, which is `Book` in the ledger's terms, or
  leaves quantities and material alone; `ImplementsAccount` follows. `HandsOutStep`
  takes the bound on the drawing out of it, and `Shortfall` and `DrawnElsewhere` follow,
  as both compare with the aggregates the check itself read.
  `MovesWhole` splits the session off both sums, which the aggregates equal by its
  hypothesis before the move and by the rebuild after it.
* `SetupMakesNothing` needs `SetupInv`, the same of each session, which is inductive
  with `TypeOK`; with nothing repairable `CreditInv` leaves nothing repaired or
  scrapped, so no session of the operation contributes to its sums (`SetupRollup`); a form
  that puts back old aggregates of a setup puts back none (`SetupForms`, `SetupTotals`).
* The library's induction theorems take a predicate as parameter, which no installed
  prover can instantiate. `SubsetInduct` states induction over finite sets for a
  *set* of sets instead, which a first-order prover can, and `Folding` states what
  a fold does for a function. What the folds of this model add up to is so proved
  for sets of any size.
* The two status properties are proved of every step from `ShapesOK`. For the first,
  an operation that is rebuilt is IN_PROGRESS when it has a counted open session
  (`StatusRebuilt`, `StatusOf`), and one that is not rebuilt has the status and the open
  sessions it had (`AsBefore`). For the second, `ReconcileOrder` writes COMPLETED only of
  an order whose operations are (`Tidy`), and every step that takes an operation out of
  COMPLETED rebuilds its order afterwards, twice when a session moves between orders
  (`TidyTwice`). Nothing is assumed of what the order form writes.

**OfflineSync.** `SyncInv` adds to `TypeOK` what the threads know (`HandKnows`): one about
to record or answer "accepted" has applied its event, one about to give any answer
that lets the device drop the event has a row behind it, and a FINISH being applied
has its START in effect; and what the rows say (`RowKnows`): an accepted row's event
took effect. Without the first, a thread could record "accepted" of an event that
was never applied. The refinement follows:
`Apply` and `Falter` map to `TakeEffect` or a stutter, `Record` to `File`, `Answer`
to `Forget`, everything else to a stutter. `FinishRestsOnStart` is inductive with what a
thread knows between the look-up of the START and the commit of the FINISH
(`AnchorInv`): rows change only in `_record` (`RowStep`), an accepted and linked row
stays so. For `OutageRejectsNothing` the invariant (`OutageInv`) says that of an event
nothing stands in the way of only a FINISH comes to be judged, since only the look-up
of its START can refuse it, and that one about to be recorded as rejected has its
tries spent (`Spent`), which stays so until it is recorded (`SpentStays`).

**KioskTerminal.** `Inv` adds to the properties that every copy shows a session with
its employee (`Fit`), and what a thread knows at each of its steps (`Working`): a
thread that applies an event has seen the very screen the event was pressed on
(versions equal, so states equal), one about to write the row has an effect to show
for it, and one about to let another employee in has the interruption on record or
the session closed. A step of one thread keeps what the others know because rows,
versions and effects only grow (`SessionGrows`, `NextGrows`).

**ExceptionCenter.** `EarlierAreOver` is inductive with `TypeOK` and that only a
resolution reaches its check (`Deciding`): `Stands` makes a scan append only when the
last incident is decided *and* no longer tracked. The refinement uses it: since
older incidents cannot change, a step of a fault's records is one of the latest,
whatever stale reading it acts on.

**SessionTimes.** `OverlapOnlyByTransfer` is inductive with `TypeOK`, through one lemma for
"one row is replaced by a row whose hours are free". The other two need a
strengthening: a session that starts after now is in `ahead` or `edited`
(`StartsKnown`), and the scan's list names each unedited session's own boundary
(`ScanKnows`), as long as the list may be stale.

**OperationConfig.** `GraphInv` is `NoCycle` with what the foreign keys give
(`NeedsLive`: what an operation needs exists). A write validates the order's graph
under its lock, but an operation may have dependents in the order it leaves; that
its new row is acyclic in the new order, and that nothing there needs anything
outside, makes the whole graph acyclic, since a set without a free operation would
have one inside the order (`Free`). `DrawnFromSource` needs that a request about to
write has seen nothing drawn or leaves the source (`CheckedOK`), and that an operation
with material has sessions (`DrawnWorked`, `WorkedLive`), so that its source cannot be
deleted.

**WriteLocks.** `Inv` says of each transaction that keeps the rule how its locks relate to
its orders (`TidyOf`): orders are held in the mode of the path (`ModesOK`), a row is
held only below a held order or beside the session that was looked up (`HeldOK`), what
is still to be locked is below what has been reached (`TodoOK`), a transaction whose
session has strayed has its new order, or the session, still ahead of it (`EndOK`),
and orders are taken in ascending order (`AscendOK`). `OneWriterPerOrder` follows, as
two transactions cannot hold one order in conflicting modes (`OrdersExclude`). For
`CirclesAreKnown`: a transaction that keeps the rule and waits for another such one
waits for an *order* (`OnlyOrdersAreWaitedFor`: what is below an order is its holder's
alone), and the order the other waits for in turn is greater (`WaitsAscend`); in a
circle the greatest would be exceeded. `LastOrder` bounds the ids, so that this is
the least element of a set of naturals.

**Only model-checked.** `EveryEventAnswered`, `RecordsCatchUp` and `LeftOpenIsClosed`:
liveness under fairness is out of the prover's reach. Every other property of a run
that passes is the statement of a theorem.

## 5. Where code and documents disagree

* `ExcludedHoldsNothing` (`INVARIANTS.md` section 5): a session excluded from
  the reports holds no material. The code frees it on exclusion, and takes it again
  when the excluded session is finished, corrected or moved.
* `MovedSessionIsSupplied` (same section): a transfer is refused when the new source
  does not have the pieces. The check reads aggregates that still contain the pieces
  the transfer takes away. `DrawnElsewhereIsSupplied` is proved of every other step.
* `RetriedWorkIsKept` (section 7 and the retry lifecycle tests): work is not lost
  because an event failed once. A START accepted on a second try never gets its
  session id recorded, and its FINISH is refused until its tries are used up.
  `FinishRestsOnStart` is the direction that does hold.

The lines and the quoted sentences are under `findings` in `PROJECT.json`.

The properties of the passing runs name their exceptions, and each exception is
something the code does that a reader should know of:

* **Lock order.** `INVARIANTS.md` section 6 (lines 162-173) wants the parent order to
  be the first row any write transaction locks. Configuring a setup
  (`setup_ops.py:163`), importing operations from a spreadsheet
  (`web/excel_io.py:455`), starting an inspection (`execution.py:843`) and deleting
  an operation (`base.py:167`) do not (`Unordered`). `finish_many` locks orders in the
  order of the request (`execution.py:743`, `SecondOrder`), and a look-up can be
  stale after a transfer (`execution.py:658`, `Strayed`). The database breaks such a
  circle after its timeout and one of the commands fails.
* **Quantities on support operations.** `INVARIANTS.md:43` and the comment at
  `execution.py:444` want none on the bench either, but finishing looks for setups only
  (`execution.py:673`), so a session moved to the bench while OPEN is closed there with
  what was typed. `SetupMakesNothing` is the part that holds.
* **Hours.** A transfer checks no hours (`execution.py:1107`), so it can put two
  sessions of an employee on the same hours of an operation, after which finishing or
  closing the open one is refused until somebody edits them. A start from a device
  ahead of the server followed by a finish without a trusted time has its end before
  its start. A scan may apply a boundary computed before a supervisor rewrote the
  start (`edited`).
* **Lost updates of status and quantities.** `docs/MESFLOW_MASTER_REQUIREMENTS.md:462`
  says of the quantities that they are computed and not directly writable, `:666-667`
  that only CANCELLED is set directly, `:673` that CANCELLED is "sticky forever". The page disables these fields (`app.js:105-113`), but the form sends
  what they hold, and `OperationRepository.update` compares it with a row read before
  its lock (`master_data.py:310-323`) and writes it after (`:355-370`). If the operation
  had no session when they were counted, nothing rebuilds it (`:372`). So a form read
  and counted before the first `start()` commits, and saved after, leaves PLANNED over
  an OPEN counted session; before the first manual record, done quantity 0 over a CLOSED
  session, in an order that record may just have completed; and one read before a
  cancellation, saved after it, revives the operation. The order form does the same with the order's status: it sends the one it
  loaded (`app.js:1507`, `:1514`), which is written without a version check
  (`master_data.py:123-126`, `:149`), so COMPLETED can come back over a reopened order
  that nobody declared complete. `RollupExact`, `OpenSessionRunsOperation` and
  `CompletedOrderIsDone` name these saves as their exceptions and are proved of every
  other step; without the exceptions `ledger_orders` shows the traces above. The next
  session, correction or form that saw sessions rebuilds what is wrong, except a
  cancellation, which a rebuild keeps.
* **Stale copies of an operation.** A request that only renames an operation writes the
  source it has read; if the source was changed and drawn from in between, it is
  silently reverted (`overtaken`). Moving an operation away from its dependents is
  allowed and makes every further change in the order it left be refused, since the
  order then needs something outside. The uniqueness of printed codes is checked
  without a lock.
* **Kiosk.** `start` and `finish` commit before the row's version is compared; a process that dies
  in between, or just before the answer is stored, leaves an event that took effect
  and is answered as STATE_CONFLICT or, if the order was paused meanwhile
  (`kiosk_v2.py:517`), as rejected. An event accepted is done; one not accepted may be
  done too. A report of an interruption whose card then loses the race for the row
  remains. A session closed elsewhere leaves the terminal asking for its quantity,
  and only an employee's card gets it out of there.
* **Exceptions.** A resolution can succeed while its condition holds, if another
  thread's stale scan cleared the mark after the resolution's own scan; the next scan
  raises it anew. A report of an unfinished quantity is put aside by any scan,
  because the query does not look for it. What `correct_session` tells the supervisor
  about the condition may be out of date.

Reading the template code (not modelled) showed three more: `instantiate`
(`repositories/master_data.py:767-880`) reads parts and operations in two statements under READ
COMMITTED, so a replacement committed in between yields an order without operations,
a state `web/excel_io.py:1527` says cannot be; two replacements of an empty template
merge their contents; and a re-import of a linked file rewrites the template,
though `web/router_import.py:49` says it writes nothing.

## 6. Hazards

`PROJECT.json` lists forty at their lines, those with properties and those without
and why. The ones no property covers fall into three groups: answers to repeated
requests that do not tell the whole truth (an event that took effect and is answered
as rejected or as a conflict, replays checked after the state they changed), all
reached by the models, whose properties state what does hold; second thoughts of supervisors that the code permits (stale forms, sessions moved
before they are finished); and races between a scan and a decision in the exception
center that a later scan puts right.

## 7. What is left, and what is not modelled

Every component with concurrent or interdependent state has a module. What is left
of those is listed in section 2 under each and in `PROJECT.json`; the larger parts:

* The composition of OperationConfig with ProductionLedger. The ledger's proofs
  assume a constant configuration; `DrawnFromSource` shows what that leaves out (stale
  writes), and a module with both would have the product of their states.
* Locks other than row locks on orders, operations and sessions. Two batches that
  carry the same request ids in opposite order take advisory locks in that order; an
  employee's row is locked in share mode by starts.
* Instructions and history of machine setups, whose sessions and locks are modelled.

Not modelled:

* **Scanned identities** (`domain/qr_identity.py`): parsing of printed codes, without
  state. The models take a code as resolved, ambiguous or unreadable.
* **Kiosk identity, generations and reconciliation**
  (`services/kiosk_reconciliation.py`, `server_generation.py`, `offline_sync.py:396-469`):
  a comparison, after a restore of the database, of what a device says it has sent
  with what the server has; it writes nothing, and the device's side is firmware
  outside this repository.
* **Templates, routers and spreadsheets** (`web/excel_io.py`, `web/router_*.py`,
  `template_imports.py`): mostly parsing, validation and layout of files. The import of
  operations also inserts operations, renames and reorders those there are and may give
  an order its plan quantity; of that only the row locks are modelled, in WriteLocks.
* **Reports and analytics** (`analytics.py`, the `*_audit` modules): read-only queries,
  a tenth of the implementation by lines.
* **Accounts, roles and login sessions; device updates; notifications, prediction and
  health; web pages, deployment, migrations, tutorial data**: no influence on
  production state, or no state of their own. The constraints of migrations 0047, 0049,
  0051 and 0054 are in the models.
