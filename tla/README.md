# Customer Data Foundation in TLA+

TLA+ models of `customer-data-foundation`, their TLC runs and their TLAPS
proofs. Every model is translated from the Python source, its SQL included;
`PROJECT.json` maps each definition to the lines it stands for.

    tlc -workers 2 -config MCImportApi.cfg MCImportApi.tla     # a run
    tlapm ImportApi_proofs.tla                                 # the proofs

## 1. The system

One PostgreSQL database; an HTTP API whose handlers await calls that run in a
thread pool; a worker process; a simulated partner; command-line tools.

| component | state it keeps | operations | hard because |
|---|---|---|---|
| import API, importer, operation store (`api.py`, `importer.py`, `api_store.py`) | `api_operations`, `import_batches`, `customers`, one `integration_outbox` row per accepted operation | reserve a key, recover it after a lease, replay, validate, import, complete; the CLI imports too | three transactions per request; retries while the first attempt runs; concurrent imports of overlapping files at READ COMMITTED; lost acknowledgements; deadlocks |
| outbox and worker (`integration_store.py`, `integration_worker.py`) | `integration_outbox` | claim, deliver, mark delivered, mark failed | workers compete; leases expire under slow workers; crashes between answer and mark; the attempt budget |
| partner (`partner_api.py`) | `partner_delivery_attempts`, `partner_receipts` | receive an event | repeated, overlapping and late requests |
| controlled actions (`actions.py`) | `action_requests`, `action_audit_events` | propose, approve, execute | separation of duties under races; a limit read two awaits before the write |
| knowledge base (`knowledge.py`) | documents, permissions, chunks | ingest, retrieve | concurrent edits of one source; two queries with a snapshot each |
| assistant (`rag.py`) | `rag_traces`, `rag_cache` | answer | cached answers against revocations and edits; budget read before it is charged |
| metrics and alerts (`operations.py`) | none; reads the import and outbox tables | collect a snapshot, evaluate alerts | two statements with a snapshot each over tables that move; what a dead handler leaves has to be seen |
| release controller (`release.py`) | the state file, the schema revision | deploy, rollback | failure at any command; what the file says against what the database is |
| backup (`backup.py`) | archive, manifest, the restore database | create, verify | writers and releases between the dump and the counts; two calls on one file; clean-up |
| validation (`validation.py`) | none | judge a CSV file | one pass that must agree with the contract, duplicates and limits included |
| authentication, settings, providers, logs, diagnostics, evaluation | none that another part reads back | | |

They interact through the database. The import API validates a file, and puts
the outbox row in the transaction that stores an accepted result; the worker
claims it and sends a signed request; the partner answers after its own
transaction; `GET /metrics` counts operations and events. The assistant reads
the knowledge base that ingestions write. A release migrates the schema that a
backup is dumping, and every transaction of the other parts first checks that
the schema is its own (`require_current_schema`), otherwise it fails like any
other error.

What makes each part correct is stated in section 4. `PROJECT.json` lists the
hazards, each at its line, with the properties that watch it.

## 2. Modules

| module | models | instantiated by |
|---|---|---|
| `ImportLedger` | what the import API promises (abstract) | `ImportApi` (refinement) |
| `ImportApi`, `ImportApi_proofs` | import API, importer, operation store | `MCImportApi`, `Pipeline` |
| `AtLeastOnce` | what delivery promises (abstract) | `Delivery` (refinement), `Pipeline` |
| `Delivery`, `Delivery_proofs` | outbox, workers, partner | `MCDelivery` |
| `Pipeline`, `Pipeline_proofs` | imports, the fate of their events, metrics and alerts, composed | `MCPipeline` |
| `ActionTrail` | what the audit of the actions promises (abstract) | `ControlledActions` (refinement) |
| `ControlledActions`, `ControlledActions_proofs` | proposals, approvals, executions | `MCControlledActions` |
| `DocumentHistory` | what the knowledge base promises (abstract) | `KnowledgeBase` (refinement) |
| `KnowledgeBase` | ingestion, permissions | `MCKnowledgeBase`, `Assistant` |
| `Assistant`, `Assistant_proofs` | retrieval and answers, over `KnowledgeBase` | `MCAssistant` |
| `Validation`, `Validation_proofs` | `validate_csv` and its contract | `MCValidation` |
| `Schema` | images, their revisions, the database's revision | `Release`, `Backup` |
| `Release`, `Release_proofs` | deploy and rollback | `Operations` |
| `Backup` | create and verify | `MCBackup`, `Operations` |
| `Operations`, `Operations_proofs` | releases and backups of one environment, composed | `MCOperations` |

How the state corresponds to the code:

- A table is a function from its key (`ops`, `outbox`, `actions`, `cache`) or
  the set of keys it holds (`batches`, `receipts`). A row that does not exist
  is `Absent`, or version 0.
- A handler, request, thread, worker, call or ingestion has a `pc` (or
  `stage`, `step`, `call`) and the locals that outlive a statement: the attempt
  it reserved, the rows it read, the result it holds.
- A transaction of one statement, or of statements that lock what they read
  first, is one step. Where a later statement sees what others committed in
  between, each statement is a step: the import, the ingestion, the receipt,
  the two queries of a retrieval, the two counts of a metrics snapshot. Unique
  indexes appear as guards that wait for the transaction that holds the entry,
  or as the error that follows.
- In `ImportApi` an open transaction's own writes (`fresh`, `written`) become
  visible at `CommitImport`; a crash or an error drops them.
- `SELECT .. FOR UPDATE` in `ControlledActions` is `target`: a request decides
  under the lock and writes in a later step. A proposal is three awaits
  (`api.py:688`, `695`, `698`) that hold no thread of the pool from one to the
  next, so how many requests are between the check and the write is limited by
  nothing; an answer of the assistant is one call in one thread (`api.py:634`),
  and there the pool is the limit.
- A release records in the state file the schema revision of the checkout that
  `fde-release` is run from (`release.py:128`), any of `Revisions`, whatever
  image it deployed. What an image needs is `Head`, which the file does not say.
- A command-line tool is the sequence of its commands, each a step, any of
  which may fail or be the last one the process lives to see. The `finally`
  and `except` blocks of `backup.py` are steps too, since they fail as well.
- Files of `Backup` are `archive` and `manifest`; another call changes them,
  and the storage damages the archive (`Damage`), between any two steps of a
  call. A damaged archive may hold anything, or be refused. A digest is the
  content it was taken of, and content is what the manifest's counts can see
  of it.
- Time is the events that matter: a lease or an entry expires, a backoff
  elapses, a minute or a day passes, a worker stops waiting, an event becomes
  older than the warning limit.
- In `Pipeline` an event has a state of `AtLeastOnce`; the outbox row of a key
  is written by `ImportApi`'s completion and moves by `AtLeastOnce`'s steps,
  which `Delivery_proofs` shows to be all that workers and partner can do.
- A document in `KnowledgeBase` is a source with one content. Its chunks are
  written with it and never change, so they are not modelled apart.
- In `Validation` a text, its normalised form and whether that passes the
  field's pattern are constants; the order of the checks, what each issue
  stops, and what is remembered from record to record are the code's.

Not in the code are the variables that record history for the properties:
`peak` (`ControlledActions`, the most proposals of a subject that were ever
past the check and not yet written at once), `smoked` and `clean` (`Release`),
`quiet` and `tampered` (`Backup`: nothing was written between the dump and the
counts, and the archive was as `pg_dump` left it; the archive was damaged
between the comparison of its digest and its reopening) and `readable`
(`Assistant`). Nor is what bounds TLC: `faults` (`Delivery`), `MaxWrites`
(`Backup`), the limit on `attempts` in `LeaseExpires` (`ImportApi`).

Definitions called `Fault...` are plausible bugs in the definition that
follows them. They are used by nothing; each shows, put in the place of that
definition, that some property would notice.

Constraints the modules assume: body and content hashes do not collide; one
release controller at a time, which `docs/release-contract.md` leaves to the
operator; one partner process serves one request at a time,
since its handler awaits nothing after reading the body (`partner_api.py:195`),
so overlapping receipts need two processes (`PartnerProcesses`).

## 3. Runs

| run | question | bounds |
|---|---|---|
| `imports_safety` | are operations owned, imports whole, counts and answers true? | 3 requests, 2 keys, 4 bodies (2 overlap, 1 contradicts them, 1 invalid), 3 attempts |
| `imports_live` | is the API the abstract ledger, and does every request end? | 2 requests and a CLI run, 4 bodies (2 files with the same 2 customers, 1 that contradicts them, 1 invalid), 2 attempts |
| `forgotten_event` | `NoForgottenEvent` does not hold | 1 request |
| `pipeline` | is what the partner hears true, do the metrics agree, is every loss seen? | 2 requests with 1 key, 1 valid and 1 invalid body, 3 attempts |
| `delivery` | does an event have one effect, is every attempt too many paid for, does it settle, is that the abstract promise? | 2 workers, 1 event, 2 partner processes, budget 2, 1 simulated failure, 2 faults |
| `delivery_budget` | `NoAttemptBeyondBudget` does not hold | 1 worker, 1 event, 1 fault |
| `actions` | do four eyes, decisions and the limit hold under races, and is the audit the abstract trail? | 3 requests in flight, 3 actions, 3 subjects (one with both roles), limit 1 |
| `answers` | does an answer cite only what its asker could read, within a bounded budget, over the abstract history of documents? | 2 ingestions and 2 calls, any two at once; 1 source, 2 contents, 2 readers |
| `knowledge_edit` | `EditIsShown` does not hold | 1 ingestion, 2 contents |
| `operations` | are releases and backups safe beside each other? | 3 images over 2 revisions, any checkout, 2 backup calls, 1 written row, any damage; `Bound` below |
| `backup_counts` | `FreshBackupVerifies` does not hold | 2 calls on one file, 1 written row |
| `validation` | is the one-pass verdict the contract's? | files of up to 3 records out of 7, limit 2, 2 good headers and 5 bad ones, every flaw |

Why the bounds are enough. The properties relate two handlers of one key, two
imports of one customer, two holders of one event, two deciders on one action,
two edits of one source or an edit and an answer, so two of each make every
pair; a third request is there for one that comes back after another recovered
its operation. Three attempts let a handler be overtaken twice. A budget of two
has a first and a last attempt. Two overlapping files in opposite orders are
the smallest deadlock: rows are inserted in any order, which includes both.
Three images over two revisions give a rollback within a revision, one across,
and a failed migration ahead of both. A limit of two records has one at the
limit and one after it, and three records hold a duplicate of a duplicate; the
seven records have each flaw of a field, a short row, a long row and two
spellings of one email.

`operations` has a constraint (`Bound`), since releases in full beside two
backup calls in full are more states than the properties tell apart. A state is
explored further when no backup has been made or is under way (every release,
rollback, failure and checkout), or when the first release is in place and no
other was begun (two calls on one archive, every interleaving, crash, clean-up
and damage), or when one call is about beside the deployment of v1 and the
upgrade to v3 (migrations and their failures between any two commands of a
backup or of a verification). Not explored are two calls during a migration;
the theorems have no bound.

Limit 1 with three requests makes an excess of two, which is as far as three
overlapping proposals can take it, and shows a subject whose requests follow
one another kept within the limit.

`answers` has a constraint (`TwoAtOnce`): of the two ingestions and two calls
any two are under way together, not three. `CitationsWereReadable` speaks of
one call against what others change, `VersionsInOrder` of two ingestions and
`SpendingIsBounded` of two calls; what more at once could do is left to the
proofs, which have no bound. `delivery` has one event because events share
nothing but the order of claims. In `pipeline` the second body is invalid, so
that a key can be refused and, by another request, be asked for with the body
it is not bound to.

Symmetry is used in `imports_safety`, `actions`, `answers` and `operations`,
which check safety only. `TypeOK` is checked with the other properties in
`imports_safety`, `delivery`, `actions` and `answers`; those of `Release`,
`Backup`, `Validation` and `Pipeline` are left to the proofs, which have no
bound. Deadlock is checked in every run: where a system stops for good (every
request answered, every event settled, every action executed), the
specification has a step that says so and changes nothing.

## 4. Properties

**Imports.** One running request at most owns an operation (`OneOwner`). An
accepted result and its event exist together, over a committed batch of the
body the key is bound to (`AcceptedIsDurable`). A batch is stored whole or not
at all, and no customer comes from anything else (`AllOrNothing`). Counts are
those of the table, and a file is reported imported once (`CountsAreTrue`).
Two final answers to one key agree (`RepliesAgree`). `ImportLedger` is the
whole promise without leases, attempts and transactions: a key is opened for
one body, a body is stored once, and an outcome, accepted, rejected or failed,
is reached once and stays. A body that was rejected (`validation_failed`,
`conflict`) is not stored and never will be, under any key; a failure
(`database_error`) says nothing of the body. `ImplementsLedger` says the API
implements it. Every request ends (`EveryRequestEnds`).

**Delivery.** The partner takes an event for new once (`OneEffect`), one
worker's mark is accepted (`OneHolder`), an event is abandoned for a reason
only (`DeadLetterJustified`), each attempt beyond the budget was paid for by a
death, a hang or a dropped connection (`OverrunIsPaid`: what is left of the
budget that `delivery_budget` refutes), what is called delivered was received
and stays so (`ImplementsAtLeastOnce`), and every event settles
(`EventSettles`).

**Pipeline.** What the partner recorded is an accepted import over a file
stored whole (`PartnerIsToldTheTruth`): no crash, recovery or second request
with the key makes it hear of anything else. A snapshot counts imports before
events, so every accepted import it shows has its event in it
(`SnapshotAddsUp`); in the other order it would report losses that are none.
Gauges of final states never go down (`SnapshotsAscend`). A reserved operation
comes to a refusal, to an event the partner has, or to an alert, whatever dies
on the way (`NothingIsAbandonedUnseen`).

**Actions.** Somebody else approved (`FourEyes`), decisions are not replaced
(`DecisionsStand`), the audit has every step once and in order
(`AuditTellsAll`). The rate limit is exceeded by proposals that overlapped, and
by no more of them than ever did (`ExcessIsBounded`): there is no bound by the
pool, and a subject whose requests never overlap stays within the limit. For
whoever reads the audit alone, `ActionTrail` is the promise: entries are only
added, and each is by somebody entitled to it by the entries before.
`ImplementsTrail` says the rows, locks and requests keep it.

**Knowledge and answers.** Versions are 1 to n and the active one is the newest
(`VersionsInOrder`). `DocumentHistory` is the promise without calls and locks:
a content gets its edition and its readers in one step, once; ingesting it
again lets those named read it and gives access to nobody else. Whether it also
takes access away is left open, since the code and its contract differ (section
5); besides, a revocation does (`ImplementsHistory`). An answer cites what its
asker could read at some moment of the call (`CitationsWereReadable`): this is
the strongest statement that holds, since a revocation during the generation is
seen by the next call. Spending exceeds the budget by one generation per thread
(`SpendingIsBounded`).

**Validation.** A file is accepted exactly when it conforms to the contract,
stated as a predicate on the whole file (`VerdictIsRight`); its records are the
file's, normalised and in order, or none (`RecordsAreTheFile`); and the report
of a file read to its end has every issue of every record, duplicates counted
from the first well-formed appearance of an email (`ReportIsComplete`).

**Releases and backups.** The file names releases that passed the smoke test
(`ApprovedOnly`). What the images need never goes back from the previous
release to the current one to the database, whatever the file says of it
(`ForwardOnly`). After a success an allowed rollback can succeed, if the
revisions in the file are those of its images (`RollbackCanSucceed`); when they
were recorded from another checkout, nothing can be said (section 5). A call
that says verified restored the counts of its manifest. The archive was whole,
unless it was damaged before the digest for the manifest was taken
(`backup.py:109`), which is then that of the damaged file, or between the
comparison of the digest (134) and the reopening of the file (147), and its
counts do not show it (`VerifiedIsTrue`). A backup made while nobody wrote
verifies (`QuietBackupVerifies`). A restore database outlives its call only
when the call died, or `createdb` or `dropdb` failed, and then no command
removes it (`NoStrayDatabase`). A verified archive has the revision of its
manifest, and the environment has reached it, so that the runbook's `alembic
upgrade head` takes it on (`VerifiedCanUpgrade`).

### Fairness

`ImportApi!FairSpec`: a live thread runs its next statement, and PostgreSQL's
`lock_timeout` (3 s, `database.py:16`) cancels a statement whose lock is not
released. Without the second, two imports in opposite orders wait for ever;
the mutant of `EveryRequestEnds` removes it. A crash ends a request, and no
fairness brings it back. Nothing is assumed of clients, of lease recoveries or
of the CLI's user.

`Delivery!FairSpec`: a running worker goes on, its HTTP timeout ends every
wait (`integration_worker.py:125`), compose restarts a dead one
(`compose.yaml:150`), and the clock passes a backoff and the lease of a worker
that is gone. Nothing is asked of the partner or the network. Faults are
finite (`MaxFaults`): with a crash in every attempt an event need never settle.

`Pipeline!PipelineFairSpec`: handlers run as above, time passes the lease of
an operation, and an open event settles, which is what `EventSettles` shows of
`Delivery`. Scrapes go on, and do not fail for ever between the two counts
(strong fairness of the second); an operator nobody scrapes for hears nothing.

The other specifications state no fairness, and their properties are about
safety.

## 5. Where the code and its documents differ

- *A confirmed import can lose its event* (`forgotten_event`). The import and
  the operation commit apart. When the acknowledgement of the import's COMMIT
  is lost, `importer.py:218` reports `database_error`, and that final refusal
  is stored, without an event, over customers that are stored.
  `docs/integration-architecture.md:66` says there is no such window.
- *The budget of attempts can be exceeded* (`delivery_budget`).
  `integration_store.py:186` looks at it when a failure is marked; an attempt
  that ends in a crash or in an exception `deliver_event` does not catch is
  never marked, and `claim_next_event` does not look.
- *An edit back to an earlier content is not shown* (`knowledge_edit`).
  `knowledge.py:158` finds the old version and leaves the other one active.
- *A good backup can be refused* (`backup_counts`). `backup.py:110` counts
  after `pg_dump`'s snapshot is closed, and the services go on writing; one
  row in between is in the manifest and not in the archive.

Three more have no run of their own. The properties are stated so that they
hold of the code, and say less than the documents.

- *Permissions are added, not replaced.* `docs/knowledge-retrieval-contract.md:12-13`
  says that `POST /v1/knowledge/documents` "reemplaza los permisos explicitos
  del documento". `knowledge.py:232-241` inserts the named readers with `ON
  CONFLICT DO NOTHING` and deletes none. Ingest a content with readers ann and
  bob, and again with ann alone: bob goes on reading it. With a changed content
  the new version does have the new readers only. `Reuse` is the code;
  `DocumentHistory!Share` allows both.
- *A rollback between revisions can be accepted.* `docs/release-contract.md:49-50`
  says of a rollback "Se rechaza automaticamente cuando las revisiones de
  esquema difieren". `release.py:159-162` compares the recorded revisions, and
  `release.py:128` records the constant of the checkout. Deploy v0.3.0, whose
  revision is 0004, from this checkout, and it is recorded as 0007; deploy an
  image of revision 0007, and the rollback to v0.3.0 is accepted. It fails at
  the migration, whose revision the old image does not know, and the file stays
  as it was (`ForwardOnly`).
- *A rollback over a schema that a failed deployment took ahead is accepted*,
  against the same sentence: two records of the file are compared, not the
  database. It fails in the same way.

## 6. Proofs

All are for any number of requests, threads, files, events, images and so on.
Every invariant, action property and refinement of a passing run is a theorem;
only the three liveness properties are not. The properties are seldom inductive
as they stand; each module states what it adds.

`ImportApi_proofs`: `TypeOK`, `AllOrNothing`, `OneOwner`, `AcceptedIsDurable`,
`RepliesAgree`, `CountsAreTrue` and the refinement of `ImportLedger`. The
invariant adds what a handler's position means: in a transaction, the batch of
its file is not committed and no other handler has it open; what it wrote is
disjoint from what others wrote and from the table; every row of its file is
either in `fresh` or stored with the file's own values, because conflicts end
the transaction and customers never change; a held result is true of the
tables; the attempt of a handler is at most that of its operation, and two
handlers with the same key and attempt are one. The refinement (`Refinement`)
needs one part more, `RefusalInv`: a result of `validation_failed` or
`conflict`, in a handler's hands or in its operation, is about a body that is
`Hopeless`, invalid or in contradiction with a stored customer. Customers are
never changed and a batch in the table contradicts none, so such a body stays
out of the batches, however late the rejection is recorded
(`RejectedStaysOut`). Then reservation is
`Open`, the commit is `Store`, an owned completion is `Accept`, `Reject` or
`Fail`, and everything else stutters.

`Delivery_proofs`: `TypeOK`, `OneHolder`, `OneEffect`, `DeadLetterJustified`,
`OverrunIsPaid` and the refinement of `AtLeastOnce`. The invariant says that a
worker holds an event from its claim to its mark, with a token no newer than
the event's attempt (`WorkersHold`), that two workers on one event have
different tokens (`TokensDiffer`), that what a worker is about to mark
delivered was received (`DeliveredIsReceived`), and that requests under way
carry published events (`RequestsArePublished`). Only the newest token is
accepted, hence one holder; the primary key of the receipts leaves one request
that can be told "new". For the budget, an event whose next step may be a claim
must have an attempt to spare, paid from the budget or by a fault (`Funded`). A
worker that can still mark its attempt needs none, since its mark ends the
event or finds the budget not used up, unless the answer it waits for was
dropped (`Dropped`); to tell which answer that is, no request is of an attempt
yet to come (`RequestsAreOld`).

`Pipeline_proofs`: the composition. Each step of `Pipeline` is a step of
`ImportApi` or leaves it alone (`RunsImports`), and each is a step of
`AtLeastOnce` or leaves it alone (`RunsDelivery`), so the theorems of both
carry over, and through the pipeline a client still sees `ImportLedger` and the
partner `AtLeastOnce` (`PipelineKeepsPromises`); `PartnerIsToldTheTruth`
follows from `AcceptedIsDurable`, `AllOrNothing` and a coupling: an event is
published exactly when its outbox row exists. `SnapshotAddsUp` and
`SnapshotsAscend` need that counts taken earlier are no larger than the tables
now (`CountsAreOld`), since final states are final.

`ControlledActions_proofs`: `TypeOK`, `FourEyes`, `DecisionsStand`,
`AuditTellsAll`, `ExcessIsBounded`. A row lock has one holder, so what a
request read under it (status, requester) is still so when it writes; the audit
of an action has the length its status says. For the limit: the recent actions
of a subject and its proposals past the check are together at most `Limit - 1`
and the most that overlapped (`Bounded`). A check raises the sum by one, and
then the actions alone were below the limit and the proposals are counted in
`peak`; a write moves one from the proposals to the actions; everything else
lowers the sum.
`AuditIsATrail` maps every step to a step of `ActionTrail` or a stutter, with
the invariant that a row and its audit tell the same story (`AllTold`): the
approver a row names is the actor of its second entry, and so on.

`Assistant_proofs`: `TypeOK`, `VersionsInOrder`, `CitationsWereReadable`,
`SpendingIsBounded` and the refinement of `DocumentHistory`. The source lock
makes one ingestion the writer, and the version it read under the lock is the
last (`OneWriter`, `LatestIsKnown`); with the owner among the principals an
ingestion grants (`OwnerIsGranted`), its write is `Publish`, a look-up that
finds the content is `Share`, a revocation is `Withdraw`, and the rest stutters
(`KnowledgeIsAHistory`). No call of the assistant touches the documents, so the
same holds beside it (`KnowledgeServesHistory`).
Whatever a call has retrieved, or taken from the cache and authorised again,
its asker could read during the call, and the answer it is about to record
cites no more (`CallHolds`); an answer has citations exactly when its status
says so, in the cache as well (`CacheHolds`). What is spent, with the calls
past the budget check, bounds the overspend, and is inductive with `AInv`.

`Validation_proofs`: `TypeOK`, `VerdictIsRight`, `RecordsAreTheFile`,
`ReportIsComplete`. The invariant of the reading loop relates the issues,
the emails seen and the records to the prefix read so far.

`Release_proofs`: `TypeOK`, `ApprovedOnly`, `ForwardOnly`,
`RollbackCanSucceed`. Past the smoke test the target is in `smoked`, past the
migration the database is at the target's revision, and `prior` is the file's
current release while nothing has been written. The recorded revision is any,
so `ForwardOnly` rests on the images alone, and `RollbackIsSafe` uses the
record only where it is true of its image.

`Operations_proofs`: `BothTools` (each step is one of `Release`'s or of
`Backup`'s, or leaves it alone), the backup's types, `VerifiedIsTrue`,
`QuietBackupVerifies`, `NoStrayDatabase`, `VerifiedCanUpgrade`. The invariant
says what evidence a call holds at each command (`CreateInv`, `VerifyInv`),
with damage at any step: a damaged file under a verification is the one its
digest was taken of, or `tampered` is set (`Accounted`). For
`VerifiedCanUpgrade`, counts were taken at a revision of an image that the
database had reached, and it only ascends (`Counted`). `EnvironmentIsSafe`
puts the two tools together: what each keeps alone it keeps when the other runs
between its commands.

The proofs assume what the modules' ASSUMEs state (disjoint sets of names,
finite sets where something is counted, positive limits); TLC evaluates them
in the runs. Liveness under fairness (`EveryRequestEnds`, `EventSettles`,
`NothingIsAbandonedUnseen`) is out of the prover's reach and model-checked
only; so is the connection between `EventSettles` and the fairness of
`PipelineFairSpec`. The four properties that do not hold are refuted by TLC.

## 7. Not modelled

- Chunking, embedding, ranking and limits of a retrieval: which chunks are
  found is arbitrary within what the query may return. Warnings about prompt
  injection decide nothing and are left out.
- The text of answers, signatures, formats, rendering of metrics, logs.
- Which characters a pattern accepts: whether a normalised text passes is a
  constant of `Validation`. A digit outside ASCII or a NUL that passes here
  and is refused by PostgreSQL is one of the failures `ImportApi` allows at
  any statement.
- Backoff lengths and clock values; only their order. The `for:` of an alert
  rule.
- `pending` and `delivering` as separate gauges: `Pipeline` has one count of
  open events, since `AtLeastOnce` has one such state.
- Reads that change nothing (`read_import`, `read_integration`, the list
  endpoints), authentication and settings: stateless; a subject's roles and
  the limits are constants.
- Providers: external; `Assistant` and `ControlledActions` take every outcome
  a call to them can have. What one charges for a call that fails afterwards
  is not seen: `spent` is what the traces say.
- Observability and diagnostics (`observability.py`, `diagnostic.py`), which
  write logs and a report that nothing reads back; the evaluation and release
  fixtures, offline drivers of the services modelled here.
- Two release controllers at once: the contract leaves it to the operator that
  one acts per environment, and nothing holds of two.
- A reservation that fails or whose COMMIT is not acknowledged (`api.py:871-882`,
  answered 503): `ImportApi` has it as no step at all, or as `Reserve` and a
  crash, which leave the same rows.
- An `OSError` when the file is opened or read after `stat`
  (`validation.py:252`): it escapes `validate_csv`, and the properties are
  about a validation that returned.
- `INTEGRATION_*` limits as numbers: the budget is a constant.
- An import's `configuration_error`: the CLI without `DATABASE_URL` opens
  nothing, and the API cannot start without it.
- Schema downgrades, which the repository keeps for disposable databases.
