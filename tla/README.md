# A verification of the RFQ workflow agent

The agent watches a ship-supply company's inbox. It classifies every email,
forwards requests for quotation (RFQs) to a regional desk, reads their lines,
matches the lines to a product sheet, and keeps a record of each email. People
then work on that record in the quoting screens: they settle lines, write to
suppliers, take their prices down and approve what the RFQ sells for.

The modules here are written from the code under `src/src/`. TLC checks them on
small instances, and TLAPS proves the theorems of the `*Proofs` modules for
every value of the constants.

## The system

| Component | Code (`src/src/`) | State | Operations | What makes it hard |
|---|---|---|---|---|
| Webhook, NotificationService | `api/webhooks.py`, `services/notification_service.py` | ids seen (bounded, in memory), background tasks | accept, process | repeated notifications, restarts, one bad email in a batch |
| Email handler | `services/handlers.py` | none of its own; writes mailbox, journal, record | handle | every await is an interleaving point, every request may fail or lose its answer, crash between any two effects |
| Triage | `services/triage.py` | none | run | journal and record opened between verdict and delivery |
| Preprocessing, classification | `domain/preprocessing/`, `services/classification/`, `domain/policy.py`, `domain/rules/` | none | cut the thread and the signature off, rules, one model call, the gate, the region | order of rules, conflicting signals, text cut away too early |
| Decision journal | `infrastructure/storage/decisions.py` | an append-only file | record, record_delivery, record_extraction | a line that cannot be written |
| Folder store | `infrastructure/storage/records.py` | a folder per email, a counter file | open, update, confirm, price, inquire, approve | partial writes, the counter, file names |
| Postgres store | `infrastructure/storage/database.py`, `infrastructure/db/models.py` | rows, a sequence, unique constraints | the same | READ COMMITTED, several SELECTs per read, two sessions per endpoint |
| Quotes API | `api/quotes.py` | none | the screens' endpoints, the stream, the documents | check in one call, write in another |
| Change stream | `infrastructure/storage/changes.py`, `stream_rfqs` | one event per open page | subscribe, announce | lost wake-ups |
| Subscription manager | `infrastructure/outlook/subscription.py` | the id of a Graph subscription | start, stop, renew, create, clean up | leases, lost answers, orphans |
| Mailbox, Graph client | `infrastructure/outlook/` | drafts in the mailbox | fetch, forward, label; draft, attach, upload, send, discard | change keys, half-built drafts, lost answers |
| Catalogue service | `services/catalog.py`, `infrastructure/catalog/` | the sheet in memory, a snapshot on disk | load, refresh | two files and a memory copy that may disagree |
| Documents | `infrastructure/documents/` | a budget per email | load, unpack, read, fit the pictures | nested files, one budget for all, what is cut must be said |
| Extraction | `services/extraction/` | none kept | find tables, map columns, read rows and parts, merge, normalise the header | several readings of one list, model answers, dates without a year |
| Catalogue search, matching | `domain/rules/catalog.py`, `services/matching/` | none kept | look up, judge, shortlist, assess, score | numbered batches, incomplete and repeated answers |
| Form, quotations | `services/workbook.py`, `services/quotation.py`, `services/quote_workbook.py`, `infrastructure/excel/` | none kept | fill the form; price and total a document | blank cells, warnings, two roundings of one sum |
| File names and blobs | `_unique` and its like in the stores, `infrastructure/blobs/` | the files of a record | keep, read back | names that collide, in two letter cases, with the store's own |
| LLM client, configuration, prompts, tools | the rest | files, wiring | formatting and I/O | - |

**How they interact.** Graph calls the webhook, which answers 202 and hands the
new ids to a background task. The task fetches each message and runs the
handler: files, classification, journal line, record, reading of the lines,
forward, label, delivery line, record update, matching. Every write of the
record announces itself to the open pages. The screens read and write the same
record through the quotes API, concurrently with the handler. The catalogue
service replaces the product sheet under all of them.

## Modules and the code they model

**`QuoteContract`** - the abstract life of one RFQ record: matching lands once;
letters are only added, to firms that have none; a price stands on a line that
was asked about; the sign-off and the prices it freezes arrive in one step,
once. It knows nothing of stores, locks or sessions.

**`FolderDesk`** - the screens' endpoints over the folder store, one action per
endpoint: `confirm_line`, `unconfirm_line`, `send_inquiries`, `price_line`,
`unprice_line`, `approve_pricing`, the pipeline's `update(matching=...)` and the
catalogue's swap of the sheet. One action per endpoint is what the code does:
the store reads and writes between two awaits, so an endpoint is never
interrupted by another one. A refused call leaves the record alone.

**`DatabaseDesk`** - the same endpoints over Postgres. A request is a session:
`SelectLines`, `SelectLetters`, `SelectApproval` are the SELECTs of `_WHOLE` in
their order, each seeing what is committed at that moment; `PassCheck` ends the
session that only reads and opens the one that writes; `Commit...` writes the
columns that differ from what the session loaded (`Updated`, the way SQLAlchemy
emits an UPDATE) under the unique constraints of `models.py` (`OneEach`,
`NoRowYet`). `End` is every way a request ends without writing.

**`Intake`** - from the notification to the forwarded, labelled, journalled and
recorded email. `at[t]` is where a background task stands in `handle`; each
action is the code between two awaits. `local[t]` holds the handler's local
variables, `category` the labels on the mailbox copy, `received` the emails the
desks got, `journal` and `record` what survives. `Faults` are the environment's:
Graph refuses a request, Graph carries it out and its answer is lost, a model
call raises, the journal or a record cannot be written. `Crash` loses the memory
of ids and the queues and nothing else. The verdict, the reading and the region
are free choices.

**`Subscription`** - `_run` of the manager, split where an answer is awaited,
with start, stop and death around it and Graph's subscriptions as leases that
count down. Time passes only while the task sleeps or the service is down.
`faults` says what may go wrong in a behaviour and never changes.

**`ListStream`** - commit, announce, subscribe, and the generator `events`: the
wait, the clearing of the event, the yield and the return from it are separate
steps. The page is the environment: it reads the list after its stream opens
and after every line.

**`RfqNumbers`** - the number an RFQ gets as its record is opened: `nextval` of
a sequence, or read, empty and fill of the counter file. The count of the folder store
can be lost three ways: the file is there and cannot be read (`EmptyUnreadFile`, which
the code logs as "numbering starts again"), the write fails after emptying it with the
process alive (`Fail`, caught in `open`), or the process dies there (`Crash`). `losses`
counts them, and a record remembers the count it was numbered in.

**`CatalogRefresh`** - `CatalogService.load`, `refresh` and `_run`, and the same
`refresh` in the process of `sync_catalog`. `Snapshot.write` is five steps over
two files - open and fill the temporary file, rename it, open and fill the note -
because another process may run, and this one may die, between any two of them.
`handle` says where a file that was opened has gone when another process renames
it, so a late write lands where it would on disk. What is in a file is a
revision of the sheet, nothing, or `Torn`. A process dies; the machine does not,
so what was written is on disk.

The stages of an email inside the process have a module each. They keep nothing
between emails and share no variable; in `MCStages` they stand side by side, and
`moving` says which of them a behaviour is about.

**`Message`** and **`Classification`** - `Message` is the preprocessing: a body
is a sequence of marked lines (a reference, a price, a divider, a header of a
quoted mail, a sign-off), and `SplitThread`, `DropSignature` and their kin cut
it as `thread.py` and `boilerplate.py` do; `SignalsOf` is what is left to see. A
reference comes in two kinds: one the stripper takes for a value (`rfq` as a word of its
own, `IsValue`) and an `unspaced` one, as in `RFQNo: AB1234`, which it does not, though the
signal rule reads both.
`Classification` takes it from there: the fast rules, else the model's draft and the
policy, then the desk, and the desk once more with what the files say.

**`Documents`** - `DocumentLoader.load`. `todo` is the recursion of `_read`
unrolled: what comes out of an archive stands in front of what came after it.
There is one action per reader; what a file holds is chosen when it is opened.
`lost` is not in the code: it says what a file held and its document does not. What each
kind of reader leaves out with no code to say so is listed in `Silent`: columns
past the ceiling, formulas Excel kept no value of, pictures in files that are read for
their words, text in boxes and headers, pages and tables of a PDF that its library cannot read
(`pdf.py`, `_page_text` and `_add_tables`) or that come after the pages searched for tables, the
frames of a picture after the first, what `_ignored` passes over in an archive, parts of an email
without a name or bytes, and its other bodies; and the rows of office files and web pages. `Unsaid` is all of it, and
`NothingDropsInSilence` is about everything else.

**`Tables`**, **`Reading`** - `Tables` is `find_blocks` over a grid of cells that
look like a heading, like text, or blank. `Reading` is `read_file` and the pipeline:
which grids are offered, the mapping a model answers with, rows, parts of
text and pictures with their model calls, `_merge` with its repeated rows and
revisions. `FileOf` is the name of a row's file up to its first `#`, as in the code, where `#`
also stands before the sheet and the row. **`Cutting`** is one grid and `find_blocks`, so that `TablesAreWhole` is about a
specification and not only about a run; **`Orders`** is `sorted`.

**`Matching`**, **`Confidence`** - the three passes over an RFQ's lines. A pass is
cut into numbered batches; a batch's call fails or is answered with any of
`Verdicts` or `Checks`, out of order, twice, or about lines that are not in it.
`Confidence` is the arithmetic of a score, in sixtieths. The search scores a row by the
query's words, each as often as it is said, found in the row's text or as its code (`Worth`); how
often a row says a word and how long it is are left out.

**`Headers`**, **`Form`** - `Headers` is `normalize.py`: the IMO's check digit, the
dates in their several spellings against a given day, currencies and types;
`Form` fills the template: which cells hold what, which are marked, and what is said of
missing files, lines and dates in the two places there are - the block under the form, absent
when `RFQ_REMARKS` is off and with at most `MaxRemarks` entries in a section, and the
forwarded email, with at most `MaxBlanks` blank cells, every unread file, and nothing of what is worth checking.

**`Quotation`** - the documents of an approved record, drawn whenever they are asked for: the
PDF and its preview, the customer's file and the desk's workbook, with the sheet
exchanged in between. Prices and quantities are thousandths, what is printed is cents,
rounded half up where the code does. A request reads the lines and then the approval
(`ReadLines`, `Draw`), and the record may change in between, as over Postgres. Of the
workbook there are two sums: `sum`, the value written into it, and `opened`, what its formulas
give once Excel has recalculated them without rounding.

**`Keeping`** - the names a record's files get and the files themselves: `_unique`,
the suffixes, the temporary name, and what a page reads at every moment. A name
is its text and the marks behind it - the numbers `_unique` adds, and `Tmp` - so that
`email.json` with `.tmp` behind it is another name, and may be a customer's.

**`Forward`** - `Mailbox.forward_to`: create a draft, attach in one piece or open a session and
upload in chunks, send, discard on failure, and the handler's second try without
the form. Every request may be refused, carried out with its answer lost, or
be the last thing the process does. `Label` comes after the forward and may fail, or the process may
end before it; a message without its label is handled again, one already forwarded
included, and `repeats` counts those.

`FolderDeskProofs`, `DatabaseDeskProofs`, `IntakeProofs`, `RfqNumbersProofs`,
`SubscriptionProofs`, `ListStreamProofs`, `CatalogRefreshProofs` and `StagesProofs`
hold the theorems; the `MC*` modules hold the constants of the runs.

## The runs

| Run | Bounds | What it shows |
|---|---|---|
| `folder_desk` | 2 lines, 1 supplier, 2 prices, 2 codes | a price answers a letter, price and date come and go together, an approved record has all its numbers or none, and the endpoints implement `QuoteContract`, so that letters and sign-off never move |
| `database_desk` | 1 line, 2 firms, 2 approvals, 2 requests at once | every interleaving of SELECTs and commits still implements `QuoteContract` |
| `database_partial` (violation) | 2 lines, 2 requests | an approval checked before matching lands and written after it leaves a line without a number |
| `intake_crash` | 1 message, 2 notices, 2 tasks, all faults, 1 restart | one task per message, no silent loss, no forward once labelled, duplicates only after a restart or a lost answer, the page behind the journal |
| `intake_queue` | 2 messages in a batch, announced twice, no restart | every id of a batch is taken up |
| `intake_journal` (violation) | 1 message, journal may fail | a line that cannot be written keeps the RFQ from its desk |
| `subscription` | quota 3, 5 minutes to live, margin 2, retry after 1, three environments | exactly one subscription where requests succeed; a subscription shown is alive; one is always regained |
| `list_stream` | 2 writers, 2 pages, 3 writes, 4 visits | no lost wake-up; every write is seen |
| `rfq_numbers` | 3 messages, 2 opens at once, 5 numbers, 2 deaths, 2 losses of the count, either store | in the database no number is on two records; in the folder store none is on two records of one count, the count being lost where the file cannot be read or its rewriting breaks off |
| `catalog_refresh` | 3 revisions, the middle one empty; 2 runs of `sync_catalog`, 2 failures or deaths | the snapshot is whole until two writers meet, what is served never gets worse, the service catches up |
| `rfq_counter` (violation) | the folder store, one loss | a counter file that is unread or left empty restarts the numbering, and a number is given twice |
| `stages` | one email at a time, see below | seventeen properties of the nine stages, one initial state per input |

**What `stages` shows.** *Email*: whatever is cut away, an RFQ the sender named in the subject, by an
attached form or above the disclaimers is not put away as noise
(`AnRfqIsNotPutAway`); a reference under a signature counts where it reads as a value. *Files*: the budget holds over nested files
(`WithinBudget`), what is dropped is listed and says why
(`NothingDropsInSilence`), pictures are shared fairly (`PicturesAreShared`).
*Tables*: the blocks of a grid do not overlap and lose no row
(`TablesAreWhole`). *Items*: a line that was read is in the merged list or in a
warning (`NothingLostInSilence`), and a changed quantity is reported
(`RevisionsAreReported`). *Lines*: a code a model was to check and did not is not
passed on (`UncheckedCodesAreDropped`), a score belongs to the product it stands
beside (`ScoresAreTheirOwn`), and a choice between variants stays open
(`ChoicesStayOpen`). *Form*: each cell is the value, a code, or empty with a
reason (`EveryCellIsExplained`), no date is guessed that could be another
(`DatesAreNotGuessed`), and what was not read is in the email, and on the form while it
has remarks and they have room (`NothingLeftUnsaid`). *Quote*: every document that names
amounts is written with the same totals, and its sum is the sum of those
(`OneRuleForTotals`) - what Excel then makes of the workbook is another matter, see
`CachedAsExcelComputes` below - and a line names one product (`OneProductPerLine`). *Record*:
every attachment comes back as its own bytes, under its own name
(`FilesAsTheyCame`). *Forward*: what the delivery reports is what the desk got
(`DeliveryIsAsReported`).

**Why these bounds.** Every hazard here is a race of two: two requests, two
tasks, two notices of one message, two writers. The line set of `folder_desk`
needs two elements for "some and not others"; `database_desk` drops to one line
because its races are about one row, and `database_partial` has the two lines.
The numbers of `subscription` keep the order of the defaults (a retry is
shorter than the margin, the margin shorter than the life) and let three
forgotten subscriptions fill the quota. `MaxNotices`, `MaxHandlings`,
`MaxCrashes`, `MaxUpsets`, `MaxWrites`, `MaxVisits`, `MaxNumber`,
`MaxRecords`, `MaxLosses`, `MaxSyncs` and `MaxFaults` are bounds of the model, not of
the code.

**What a run cannot see.** `FolderDesk` has no session, so `PricedAndDated`,
`EveryLineOrNone` and `ImplementsContract` of `folder_desk` say nothing of the Postgres
races between a check and a write; those are `database_desk`'s and `database_partial`'s,
and the table below says which of them the code loses. `ListStream` drops a page's event as its
stream closes, so an event left behind by a closed stream would not be noticed. The
deliveries of `FilesAsTheyCame` leave out attachments named like a file being written
(`.tmp`), of which the property is false.

The stages are functions of their input, so their bounds are inputs: each
hazard needs a pair - two files under one budget, two readings of one list, two
lines in one batch and a third in the next, two names. The ceilings of the code are
scaled down to one or two so that every one of them is crossed: an email has up to two
files, an archive or an email inside it one entry (two are cut), one level of nesting, two
images allowed and up to four wanted. Bodies have up to six lines, tables up to
three rows of three cells or four of two, an RFQ three lines in batches of two, a form's
attachment three chunks, and a message is handled twice. `MAX_REMARKS` and
`MAX_BLANKS_LISTED` are 7 and 6, so that lists of blank cells fit both, one and
neither. `MaxFiles`, `MaxDrawn` and `MaxHandled` are bounds of the model. The
whole run is about two million states.

**Deadlock** is checked where the system can always move on. `Intake`,
`ListStream` and `RfqNumbers` stop when their bounds are reached and nothing
more arrives, and a stage stops when it has its result, so their runs do not check it.

**Fairness.** `Intake`: weak fairness of every task - each of its awaits is a
request with a timeout or a model call with one. `ListStream`: weak fairness of
the announcement, of the generator and of the page's read - the event loop runs
whatever is ready. `Subscription`: weak fairness of the task and of time, and
strong fairness of a creation that is answered - a Graph that is asked without
end does not fail without end, and nothing less would ever give a subscription
back. `CatalogRefresh`: weak fairness of the service's loop - the request has a
timeout and nothing else in it waits; `CatchesUp` is about a service that stays
up. No fairness is assumed of the outside world's initiatives: notices,
restarts, people, writes. The stages state no liveness: each is a loop over a
finite input.

## What is proved

Every theorem is about every value of the constants: any number of lines, firms,
requests, messages, tasks and restarts, any ceilings and any inputs. What is
assumed of a constant is an `ASSUME` of the module that declares it, and TLC evaluates
it in the runs.

**`FolderDeskProofs`**, from the assumption that `None` is no price, margin or code:
`TypeCorrect`; `PricedOnlyIfAsked`, `PriceAndDateAreOne`, `AllLinesOrNone`;
the action properties `LettersGoOutOnce` and `ApprovalStands`; and
`FolderImplementsContract`. The inductive invariant is `IInv`, types and
`NothingFrozenYet`: before the sign-off no line holds an approved number.
Without the second conjunct `EveryLineOrNone` is not inductive. And, of the e-mail's
own files in either store, `FilesAreAsTheyCame` (`FilesAsTheyCame`), from `NamesAreNames`
and the hypothesis `NoTemporaries`, that neither an attachment nor the form is called
like a file being written; without it the statement is false, as the table
below says. `KeepingInv` carries it: the entries of the update under way are
already true of the disk, the places they name are each other's strangers in either
letter case (`_unique` finds a new one among one more than are taken, a pigeonhole),
and what a step writes, or writes aside and renames, is at a place no entry names.
Of the quotation's documents, `TotalsAreOne` (`OneRuleForTotals`) and `RowsAreNotSwapped`
(`OneProductPerLine`), by `Quoted`: what a document drawn earlier says of a line is
still what the record says, and the lines a request has in hand are the record's or not yet
priced. From `SheetsAreLists` and `LinesAreOfOneProduct`, that a recorded line's code and
its row are those of one product, which is how `_recorded_match` writes it. They speak of
what is written into a document and not of what a formula in it becomes.

**`DatabaseDeskProofs`**, from the same assumption and `CallsAreCalls`: the same
contract, `DatabaseImplementsContract`, although no lock is held and a request acts on
what it selected earlier. `IInv` says that what each session acts on is of a
kind that stays true: the lines it saw are the record's or none
(`LinesStillThere`), the letters it saw are still there (`LettersStillThere`),
and a price past its check is for a line some committed letter asked about
(`PriceCleared`). From it, `PricedOnlyIfAsked`, `LettersStay` and `ApprovalStands`.
`PricedAndDated` and `SentOnce`, which hold of the folder store, are false here and
stay in the table below.

**`IntakeProofs`**, for both settings of `FORWARD_ENABLED` and any set of faults.
`HandlingInv` is the invariant of one handling at each await of `handle`: how many
copies its desk may have by now (`CopiesInv`), which labels may be there
(`LabelInv`), and what journal and record say of each other (`JournalInv`). It is kept
whatever the memory of ids forgets, so `NobodyTrustsAnEmptyLabel`
(`NoSilentLoss`), `PagesFollowTheJournal` (`RecordBehindJournal`) and
`CopiesAreBounded` need no hypothesis. Three properties do: `NobodyWorksTwice`
(`OneTaskPerMessage`), `EveryDuplicateHasACause` and `LabelsAreTheMemory`
(`NoForwardOnceLabelled`) are proved of behaviours in which `ProcessedMessages` has not
forgotten an id, `[]Roomy`: it is not full, or it has room for every message there
is. It has 1000 places, and forgets the oldest id to make room; once
it has, an announcement repeated late is handled again while the first may still be
in hand, and the three are false. Their invariant is `LifeInv`: an id in a queue
is remembered and in one queue only, a message in hand carries no label, and what
each message went through since the last restart is counted.

**`RfqNumbersProofs`**: `NumbersAreUnique` (`OneNumberPerCount`), from no hypothesis:
over the database no two records share a number, and over the folder store two that do
are of different counts, the one having been lost between them. That the count is never lost is not
provable, as the run `rfq_counter` shows. Uniqueness says nothing of the numbers in hand,
so `IInv` adds where they stand to the count: covered by it, or the one the file about to
be written will say; and that no record is of a count still to come.

**`SubscriptionProofs`**, from the assumptions that the four constants are positive
and the margin is: `TypeCorrect`; `RenewedInTime`, that an id the manager
shows stands for a live subscription unless Graph drops subscriptions on its
own; and `OneAndNoOther`, that where requests succeed there is exactly one.
`ShownIsLive` says nothing of how long a subscription has left, so the
induction goes through `InTime`: the subscription shown outlives the sleep.
This is where the renewal interval being shorter than the life is used; the
configuration does not enforce it, and with a margin of zero the theorem is
false. `ExactlyOne` needs `Alone`, which says at each step of the task what is
live at Graph: the ones listed, then none, then the one just made.

**`ListStreamProofs`**: `TypeCorrect` and `NoLostWakeup`, for any number of writers
and pages. `QuietMeansCurrent` is inductive with the types.

**`CatalogRefreshProofs`**, for every set of revisions and every bound:
`TypeCorrect`, `SnapshotStaysWhole`, `NothingLostByRestart` and the action
property `WorkingCopyKept`. None of the properties is inductive alone. That a
rename puts a whole text in place needs `OwnTemporary`: until two processes have
met over the temporary file, it holds what its writer wrote. That memory never
goes back needs `NotGoingBack`: what the service holds while it writes is not
older than what it answers from, although a restart may have loaded a revision
`sync_catalog` fetched later than the service's own last.

**`StagesProofs`**, about the stages of one email:

- `ForwardsAreReported`, by `ForwardInv`: a draft about to be sent is whole, the
  last email the desk got is the one reported, a delivery that is over has no
  request under way, and an email that no request left unheard and no repeated
  handling accounts for is the one reported.
- `NeverOverBudget`, by `InHand`: every file in hand has a size and a level.
- `RfqsAreNotPutAway` (`AnRfqIsNotPutAway`), by `VerdictInv`: a verdict is what the
  policy makes of an answer and of the signals in the message it was read from. That
  the signal is among them follows the body through its cuts: the first boundary
  `Boundaries` finds is the first there is, a reference above every boundary and
  disclaimer stays above them when banners go (an induction on the lines), and a
  signature goes only with no value below it; of a line that is no value the property
  asks only while it stands above the signature too. From `BodiesAreLines`.
- `LossesAreOwnedUp` (`NothingDropsInSilence`), by `Accounted`: at every step
  what is listed and what is awaited add up to what came, archives add to neither, and
  each document listed so far owns up to what it lost, the losses of `Unsaid` apart.
- `PicturesFairlyShared` (`PicturesAreShared`), from `Accounted`, and that no
  picture is missed before the last step. The rest is arithmetic of `_allocate`:
  the equal shares fit, and counting along the files, the spare slots go round until
  they are used up or nobody wants one.
- `CodesAreChecked` (`UncheckedCodesAreDropped`), by `MatchingInv`: every entry
  of every answer of the judge, under a number of its batch, was said of the pair the call was
  shown under that number, so no order, repetition or gap in the answers
  makes a verdict another pair's. From `RequestsAreLists` and `VerdictsAreEntries`.
- `CellsAreExplained`, `EverythingIsSaid` (`NothingLeftUnsaid`) and
  `FormIsOfWhatWasRead`, by `Extracted`: header and form are still of the
  answer that was read. What is kept of the first k fields of an answer is an
  induction on k. A list that fits its place is said whole, for any `MaxRemarks` and
  `MaxBlanks` and either setting of the switch. From `RepliesAreLists`.
- `DatesAreRead` (`DatesAreNotGuessed`), from `TodaysAreDays` and
  `ToleranceIsANumber`, over a calendar counted in days.
- `ScoresAreOwn` (`ScoresAreTheirOwn`) and `ChoicesAreOpen` (`ChoicesStayOpen`), by
  `ScoringInv`: what the assessor is asked about is each line's shortlist, every answer
  entry was said of a product on the list it was numbered in, and an answer with gaps
  counts for none of its line. From `ChecksAreEntries`, `SheetIsAList` and
  `NoScoreIsNoNumber`. `ChoicesAreOpen` also needs
  `FewProperties`, that the weights of one assessment add up to less than fifty - sixteen decisive
  properties; the code has no such bound, and above it the share of the one property
  left open is rounded away and the product stands at 100 all the same.
- `CutWhole` (`TablesAreWhole`): nothing moves, so this is a theorem about `find_blocks`: the
  headings in order, each table ending before the next heading, and the last row
  kept by induction on the tail that is cut. From `GridsAreGrids`.
- `RevisionsReported` (`RevisionsAreReported`), by `ReadingInv`: every source of
  the merge is a list of rows of one file, and while they are merged, a
  quantity once noted of an article stays noted, and a row that differs from one of another file is a
  conflict. From `MailingsAreDocuments` and `CallsTakePictures`.
- `LinesAreNotLost` (`NothingLostInSilence`), by `ToldInv` beside `ReadingInv`: what a
  file was read into tells all of it unless a warning owns up, a transcript under way
  has all the items of the parts gone through, and of every row that was read the merged
  list has that row or one from an earlier file that reads the same. The hypothesis
  `DocumentsLaidOut` says what the files look like, not what the code does with them:
  two sheets with the same cells are one sheet; every line of a table that is offered
  fills two columns of the heading it stands under, with no other recognised heading
  between; and it names something and, where things are counted, has a quantity, a
  code or a unit. That the line is then inside the table and copied is proved. A line
  of another kind ("a description and nothing else") the code takes for a heading and
  leaves out, so without the hypothesis the statement is false; every mailing of the
  run satisfies it.
- `SwappedDigitsAreCaught`: no two neighbouring digits of a valid IMO number can
  be swapped into another valid one, the check digit included.

Most of these rest on inductions over data. The library's induction rules take an
operator, which no installed backend instantiates; that a set of numbers has a
least member (`LeastNumber`, `CountingUp`) does the same work, and `FoldsExist` and
`TotalAdds` say of a fold what its definition leaves open: that a function satisfying
it exists, and that its values are the sums of the prefixes.

`ApprovalStands`, `LettersGoOutOnce` and the `TypeCorrect` theorems state
properties no run lists: the runs check the stronger `ImplementsContract`, and
the types are conjuncts of the invariants proved.

Only model-checked: every liveness property, since liveness under fairness is
outside the prover's reach. Every invariant and action property of the passing runs
is stated by a theorem.

## Where the code and its own words part

Three disagreements have a run of their own, listed above. While modelling, more
were met; each of these is stated in its module under the comment it contradicts and is
reproduced by making it the only property of the configuration named here:

| Property | Configuration | What happens |
|---|---|---|
| `NoHoles` | `folder_desk` | an approval sent before matching lands passes the check on no lines (`api/quotes.py:779`) |
| `ShownAsSettled` | `folder_desk` | a settled line falls back to the proposal once the sheet drops its code (`api/quotes.py:914`) |
| `SentOnce` | `database_desk` | two sends to different firms both commit (`api/quotes.py:744`) |
| `PricedAndDated` | `database_desk` | the same price named again while it is withdrawn leaves a date and no price (`database.py:322`) |
| `SignedOffNumbersRead` | `database_partial` | a document reads the lines before an approval and the approval after it (`records.py:520`) |
| `OnlyTheFileFailed` | `intake_crash` | a forward whose answer was lost is sent again (`handlers.py:497`) |
| `NotSentMeansNotReceived` | `intake_crash` | an RFQ its desk received is labelled "not sent" (`registries.py:70`) |
| `WholeOrNotAtAll` | `catalog_refresh` | `sync_catalog` and the service share the temporary file: one renames what the other has just emptied (`snapshot.py:66`) |
| `NoteDescribes` | `catalog_refresh` | a death between the rename and the note leaves a note about another snapshot (`snapshot.py:41`) |
| `SyncIsSeen` | `catalog_refresh` | the tool for whoever "does not want to wait" leaves the running service on its old copy (`sync_catalog.py:8`) |
| `NoGap` | `rfq_numbers` | a rollback does not give a number of the sequence back (`database.py:146`) |
| `NeverTwo` | `subscription` | a refused renewal leaves a live subscription behind and creates a second one (`subscription.py:82`) |
| `NeverSilent` | `stages` | what `Silent` lists and the rows of office files and web pages are cut without a code (`budget.py:7`) |
| `FormulasAreFlagged` | `stages` | a sheet of formulas without cached values is read as an empty one and nothing says so: `FORMULA_VALUES_MISSING` (`documents/models.py:40`) is raised nowhere (`spreadsheet.py:37`, "the loader flags a sheet that is all formulas and no values") |
| `OnlyImagesAreSkipped` | `stages` | a small inline file is skipped whatever it is (`loader.py`, `_is_signature_image`) |
| `OneBadFileCostsItself` | `stages` | a reader that raises after opening its file loses the files read before it |
| `EveryTableIsRead` | `stages` | once one grid has familiar headings, the others are neither offered nor warned about (`file_reader.py:242`) |
| `ConflictsAreBetweenFiles` | `stages` | each row of a CSV counts as a file of its own, so one file contradicts itself (`extraction/pipeline.py`, `_file_of`) |
| `NoSignalIsCut` | `stages` | the value pattern (`boilerplate.py:34`) wants a word boundary after `rfq`, the reference pattern (`signals.py:25`) does not: `RFQNo: AB1234` under a sign-off is cut, and with it the only signal, so that such an email may be put away as spam (`classification/pipeline.py:143`, "no regex signal lost") |
| `RulesNeedASender` | `stages` | the second fast rule fires on an email without a sender (`fast_path.py`) |
| `ConflictsStayOpen` | `stages` | two desks named by the strongest rule are settled by a weaker one (`handlers.py:370`) |
| `EveryRevisionIsReported` | `stages` | `RFQ #1.xlsx` and `RFQ #2.xlsx` count as one file, names being cut at `#` (`extraction/pipeline.py:304`), and their differing quantity is no conflict ("Both rows go in and the disagreement is reported", 243) |
| `SaidEitherWay` | `stages` | with `RFQ_REMARKS` off a doubtful IMO number is named nowhere, and the email lists six blank cells and refers to the block that is not there for the rest (`handlers.py:803`; `config.py:121`, "the forwarded email and the journal say it either way") |
| `EveryLossIsTold` | `stages` | a failed transcription, a list that did not fit and an item file that gave no line are not on the form (`workbook.py`) |
| `BlankMeansBlank` | `stages` | a generated reference fills a cell that is still listed as missing |
| `QuotationsAgree` | `stages` | two documents of one approval name different products once the sheet has changed (`api/quotes.py`) |
| `TotalsAgreeWithTheirColumn` | `stages` | the shown unit price is rounded and the total is not made of it (`quotation.py:141`) |
| `CachedAsExcelComputes` | `stages` | the written total is a sum of rounded totals, the formulas multiply and add up unrounded and are recalculated on opening (`quote_workbook.py:242`, 281, 314): the opened workbook can show another total than the page (200, "cached as Excel would compute them") |
| `NoLineWithoutTotal` | `stages` | an approved line whose quantity is not a number has none |
| `NoDraftIsLeft` | `stages` | a draft whose id was lost, whose removal failed or whose process died stays in Drafts (`mailbox.py:190`) |
| `OneEmailPerDelivery` | `stages` | a send whose answer is lost is followed by one without the form (`handlers.py:497`) |
| `FilesAsTheyCame` | `stages`, with `Deliveries <- DeliveriesWithTmp` | an attachment called `email.json.tmp` is kept under the name the record is written under before it takes its place: it is overwritten and renamed away (`records.py:736`, against `records.py:655`, "Write the attachments as they arrived"); `blobs/folder.py:77` does it to `a.tmp` when `a` is kept after it |

Met while reading, and not stated as properties: the identity of a row leaves out
its unit (`extraction/pipeline.py:357`); 05/05 without a year counts as ambiguous, 29/02
as no real day in a year that has none, and years of three digits are taken
as they are (`normalize.py`); a currency that is no code is written out in
capitals, unmarked; a wrong heading row may copy a block twice
(`file_reader.py:153`); a customer's code made of punctuation normalises to
nothing (`catalog.py`); `12.10` becomes 12.1 and `007.5` becomes 7.5 on the form
(`workbook.py`); "1,000" is read as 1 (`quotation.py`).

## Not modelled

Text: the patterns that mark a line or a cell, HTML to text, tokenising and the
weights of words, prompts and few-shots, what a library makes of a file's bytes, and the layout of workbooks and pages.
The models: their answers are free choices out of small sets, failed calls
among them. Access tokens and the mapping of JSON. The listing and
serialisation of records, their deletion, the Azure container and the Excel
template. Configuration, logging, the LLM client and the command line tools but `sync_catalog`.

The stages are not composed with `Intake`: there each of them is a free choice
of outcome or a failed call, which is more than the stages can do, so what holds
of `Intake` holds with them in its place.

## The plan

Done: the record and its two stores, the intake, the subscription, the stream,
the numbers, the catalogue, and the stages from the email to the quotation; and the
proofs of each but for liveness. Next: `Intake` composed with `RfqNumbers`, so that a
redelivered message meets the record of its first handling.
