# GoPrint in TLA+

A verification project for GoPrint, a Go service that prints office documents,
PDFs, images and Feishu documents on CUPS printers. It is used over HTTP and by
a Feishu bot, duplexes by hand on printers that cannot do it themselves, and
keeps the record of every job in a Feishu Bitable (a remote table).

All of the state that the server cannot rebuild is in memory (hooks, bot
sessions, the poller's map) or in the temp directory; the table is remote, may
fail, and has no transactions. That is where the difficulties are, and what the
models are about.

## Inventory

| Component | State | Operations | Talks to |
|---|---|---|---|
| Manual duplex hooks (`api/manual_duplex.go`) | map token -> hook (expiry, in-progress mark, staged file) | save, get, claim, extend, release, delete | print handlers, bot actions, temp directory |
| Print handlers (`api/handlers.go`) | none of their own | submit, preview, continue, extend, cancel, delete a record, list | hooks, CUPS, table, poller, submit queue, office cache |
| Bot (`api/bot_*.go`) | map session -> uploaded file, in-progress mark | message, printer choice, print, confirm, cancel, continue or cancel the second pass, cleaner | hooks, CUPS, table, poller, Feishu messages |
| Job records (`api/bitable_job_store.go`) | the table | save, update status, rename on continue, set expiry, delete, list, active job warning | Feishu API |
| Status poller (`api/job_status_poller.go`) | map job number -> printer, record status | track, poll (30 s), sweep (47 min), restore at start, untrack | CUPS, table |
| Submit queue (`api/submitqueue/`) | one slot | acquire with timeout, release | print handlers |
| Office cache (`api/office_cache.go`, `api/handlers.go`) | files named by content hash | look up, convert and rename into place, clean by age | conversion client and `office_converter/server.py` |
| Feishu export (`api/feishu_export.go`) | none | resolve wiki node, start export, poll, download | print handlers, Feishu API |
| Page arithmetic (`api/manual_duplex.go`, `api/pdfutil/`) | none | page ranges, two passes, padding, copies, reversal, N-up | pdfcpu |
| Web client (`public/assets/`, a minified bundle) | chosen file, preview, dialog with its countdown | pick, change, switch tabs, compose a PDF of a picture, preview, submit; continue, extend, cancel | print handlers |
| Rate limiter, token cache, sessions (`api/*_middleware.go`) | window per address, token -> user | admit, validate | HTTP |
| Configuration (`config/config.go`) | the loaded file | load, defaults, file type references, validate | everyone |
| CUPS client (`cups/client.go`) | none | submit, job state, printers | CUPS |

`PROJECT.json` lists the same parts with what is modelled of each. What makes
them correct:

* hooks: used once, by one request at a time; the staged file is there as long
  as the hook is offered and gone afterwards; no failure blocks a hook; an
  extension takes no more than the configuration lets it;
* records: say "completed" only of what was completed; none stays open for ever;
  an update hits the record it is meant for; a tracked job is not forgotten;
* bot session: printed once for each card; its file is not removed while it is
  read;
* submit queue: one at a time, the slot is never lost; office cache: a hit can
  be read, equal content is converted once;
* export: lets go of the slot, if not when Feishu answers, then when the client
  leaves; pages: each page of each copy once, in the right place;
* web client: sends the file picked last, checks a page range with the count of
  that file, tells the user only what is so.

## Modules

| Module | Models | Claims |
|---|---|---|
| `ManualDuplexHooks` | the hook store and every request that uses it | proved in `ManualDuplexHooksProofs` |
| `SecondPass` | what a hook and a bot session promise: the abstract specification | implemented by both: `SecondPassRefinement`, `BotSessionProofs` |
| `BotSession` | a document sent to the bot, its session, the clicks, the cleaner | proved in `BotSessionProofs` |
| `SubmitPipeline` | the submit slot, the cache and its cleaner, conversion, export | proved in `SubmitPipelineProofs` |
| `JobRecords` | the table, the poller, and every goroutine that writes a record | proved in `JobRecordsProofs`, safety as long as no job number is shared |
| `RecordLife` | what the table shows of a record: the abstract specification | implemented by `JobRecords` on one CUPS server: `JobRecordsProofs` |
| `DuplexDialog` | the web client's dialog, composed with `ManualDuplexHooks` | proved in `DuplexDialogProofs` |
| `PrintPage` | the web client's print page: file, picture, preview, submission | proved in `PrintPageProofs`, for a user who acts at any time |
| `DuplexSheets` | from pages to sheets of paper | proved in `DuplexSheetsProofs` |

`MC*` modules instantiate them for TLC; `records_two`, which checks no liveness, uses
the symmetry of documents. Definitions marked *Variant* in a comment are single
mistakes that the code does not make (a guard dropped, a reset forgotten). No
next-state relation uses them: each is there to be put in the place of the definition
after it, and a property then fails.

Every safety invariant and action property that a run checks is also a theorem.
What stays with TLC, and why:

* liveness under fairness (`ClaimsEnd`, `SessionsEnd`, `RequestsEnd`,
  `RecordsClose`, `PressesEnd`), which needs `ENABLED`, out of the prover's reach;
* the nine statements that the code does not keep.

What would be worth doing next: the active job warning, a read of the table that
decides whether the bot asks again.

## ManualDuplexHooks

One side of the sheets is printed at once. The pages of the other side wait in a
file in the temp directory, named by a *hook* in `manualDuplexStore`. The user
turns the stack over and continues, extends or cancels.

| Model | Code |
|---|---|
| `live`, `busy`, `expiresAt` | keys of `manualDuplexStore.items`, `ActionInProgress`, `ExpiresAt` |
| `staged`, `original` | `RemainingFilePath` on disk; `secondPassPath` on disk beside the copied file (HTTP, copies > 1) |
| `stage`, `origin` | how far the goroutine that creates the hook has come; HTTP, HTTP with copies, bot |
| `pc`, `token`, `kind` | where each request that continues or cancels stands |
| `jobs`, `unheard` | jobs for the second pass that CUPS accepted; those whose answer was lost |
| `cancelled`, `promised` | what the user was told: confirmed cancel, the card's text |
| `Prepare` ... `SaveFails` | the manual branch of `SubmitPrintJob` and of `handleBotPrint` |
| `LookupExpired`, `Extend`, `Claim`, `Release`, `Finish` | the functions of the store, one step each under its lock |
| `WebRequest`, `CardClick` | the HTTP endpoints; the card callback, which looks the hook up, answers, and starts a goroutine that claims it later |
| `Abandon`, `OpenFile`, `JobAccepted`, `AnswerLost`, `JobRefused`, `BeginCancel`, `RemoveFile` | the handlers between claim and delete, one step for each call |
| `Restart` | process death: empty store, `InitTempDir` wipes the directory |

The claim is the only thing between a double click and a second print. It is
held across calls to CUPS that take seconds, while the clock runs: a lookup that
meets an expired hook drops it *even while it is claimed*, and the holder then
prints, releases or deletes what is gone. The invariants say that this is
harmless: `OneHolder`, `PrintedAtMostOnce`, `SettledIsFinal` (after an answered
continue or a confirmed cancel CUPS gets no further job), `OfferedHookHasFile`
(except between unlink and delete), `NoFileWithoutHook`, and `ClaimsEnd` (no hook
stays claimed: a failure releases it). An extension counts from now, so that it
*shortens* the wait when the window in which it is allowed is longer than the minimum
timeout, which `validateConfig` does not rule out. `ExtensionBounded` says how much is
lost at most, for every configuration.

`SecondPass` states the whole promise in eight actions: a document is offered,
one request at a time acts on it, and it ends printed, cancelled or lapsed.
`KeepsPromise` is `ManualDuplexHooks => SecondPass` under
`outcome[t] = Outcome(t)` and `acting = {t : Held(t)}`. A job whose answer is
lost counts as not printed: the server cannot tell, and the user may try again.

### Runs

| Run | Instance | Shows |
|---|---|---|
| `hooks` | 1 token, 3 requests, clock to 4, timeouts 2 and 4, window 3, 1 lost answer; 149,072 states | all safety and action properties, `IndInv`, `KeepsPromise`, and `ClaimsEnd` under fairness |
| `cancel_card` | 2 requests | violated: the card says cancelled, the rest prints |

One token is enough for TLC: no action reads the state of another token, and the
request that would hold one token has nothing to do with any other. Three
requests give a holder, a competitor and a latecomer. The clock passes both
shorter expiry and reaches the longer (2, and 4 for four pages at one each), and the
window lets an extension move the longer one either way.
The theorems cover every number of tokens and requests.

Fairness is weak fairness of each request's handler: goroutines are scheduled,
and CUPS calls return, since the IPP client's transport gives up on an answer
that does not come. Nothing is asked of users, the clock or restarts.

### Proofs

`ManualDuplexHooksProofs` proves `Spec => []IndInv` (`Invariance`) from
`ConfigAssumption` (timeouts are positive, bounds are naturals): `InitInv`, one
lemma for each action, `StepKeeps`. The invariants are not inductive alone:

* `OneHolder` needs `HolderMarked`: a holder's hook, *while it exists*, is
  marked in progress. The condition matters because an expired hook may be
  dropped under its holder;
* `PrintedAtMostOnce` needs `SettledUnclaimed`: after a
  print the hook stays in progress until its printer deletes it, so that nobody
  else can claim it, and a cancelled document has no holder;
* `OfferedHookHasFile` and the implementation of `SecondPass` need
  `ReadyToDelete`: the holder unlinks before it deletes, and a continue does
  neither before it has printed;
* all of them need `UnsavedIsFresh`: nothing happens to a document before its
  hook is saved.

From it follow `TypeCorrect`, `MutualExclusion`, `AtMostOnce`,
`FilesFollowHooks`, `StagedFilesFreed`, `SettledForGood` and `ExtensionsBounded`, with no
further assumption on the timeouts. `SecondPassRefinement` proves `ImplementsSecondPass`
(`Spec => KeepsPromise`): one lemma for each action or group of actions that
says which step of `SecondPass` it is.

Only model-checked: `ClaimsEnd` (liveness is out of the prover's reach).

## BotSession

A document sent to the bot is converted, a card is sent, and a session with the
document's file is stored under the card's id. The card stays clickable: on it
the user chooses a printer, prints or cancels, and on a second card, sent when
the printer is busy, prints anyway.

| Model | Code |
|---|---|
| `stage`, `Prepare` ... `Save` | `processMessageEvent`: download and conversion, card, `persistSessionFile`, `saveBotSession`, in that order |
| `live`, `busy`, `age` | keys of `botSessions`, `ActionInProgress`, `time.Since(CreatedAt)` up to the first value past `bot.card_timeout` |
| `file` | `SourcePath` in `bot-sessions/` |
| `asked` | documents whose conflict card exists, without which there is nothing to confirm |
| `pc`, `card`, `kind` | where each click stands |
| `Click`, `Claim`, `ClaimRefused` | the lookup that answers the click; `claimBotSessionAction` in the goroutine, later |
| `LookupExpired`, `UnlinkExpired`, `DropExpired` | `getBotSession`: decides under the read lock, then unlinks, then deletes |
| `Abandon` ... `Release` | `handleBotPrint`, `handleBotCancel`: one step for each call; the deferred release |
| `jobs`, `unheard`, `unsaved`, `hooks` | jobs CUPS accepted; without an answer; first passes without a hook; hooks saved |
| `Clean`, `Restart` | the cleaner's tick; process death and `InitTempDir` |

The hazards are a lookup that decides under one lock and acts after it, a cleaner
that looks at nothing but the age, and clicks that were answered before they
claimed. `HolderKeepsFile` and `ClaimableHasFile` say that the first two harm
nobody before the timeout; `PrintedOnce` and `CancelHolds` say the same of the
third. `PrintedOnce` does not count jobs whose answer was lost and first passes
without a hook: there the user is told of a failure, the session is released,
and a second click prints again. `NoOrphanFile` and `SessionsEnd` say that files
do not pile up. `KeepsPromise` is `BotSession => SecondPass`.

Several cards of one session are one: what a session stores beside its file
(printer, ids of cards) changes only the text of later cards.

Run `bot`: 1 message, 3 clicks, timeout 2, 1 lost answer, 1 unsaved hook, 148,561
states; all properties. Three clicks are a holder, a competitor and a lookup that
is about to remove the session. Sessions share nothing but the cleaner, which
takes all expired ones in one step; two messages with two clicks (4,980,104
states) were checked once without liveness, with the same result.

Fairness: the goroutines of clicks run and their calls return, the cleaner's
ticker fires, time passes. Users need do nothing.

### Proofs

`BotSessionProofs` proves `Spec => []IndInv` from `SessionAssumption` (the timeout
is positive, the bounds are naturals). Beyond the properties themselves `IndInv`
has

* `HolderMarked`: the holder's session, while it exists, is marked in progress;
* `LookupsAreRight`: a lookup that is about to remove a session saw it expired,
  and expired it stays, which is why `HolderKeepsFile` survives the missing lock;
* `UnlinkedFirst`: a holder unlinks before it deletes;
* `SettledUnclaimed`, `WayOfAPrint`: after a print the session is never claimable
  again, and whoever is past the print is the one who printed;
* `UnsavedIsFresh`: nothing happens to a message before its session is saved.

From it follow `TypeCorrect`, `MutualExclusion`, `AtMostOnce`, `CancelIsFinal`,
`HolderHasFile`, `ClaimsAreServed` and `FilesFollowSessions`.
The same module proves `ImplementsSecondPass`: one lemma for each action
or group of actions that says which step of `SecondPass` it is. `SessionsEnd` is
only model-checked.

## JobRecords

The table has one record for each document. Its writers are the goroutine that
printed the document, the one that continues or cancels it, the user who deletes
the record, and the poller. An update is a lookup by `job_id` and then a write
by record id, with others in between; each call may fail, or succeed without the
server hearing of it. A continue *renames* the record to the number of the
second job.

| Model | Code |
|---|---|
| `byBot` | which documents the bot prints, the others come over HTTP |
| `cups`, `purged` | CUPS: the state of each job of each server; final jobs it has forgotten (external) |
| `job1`, `job2`, `printing`, `hook` | the two passes, the printing goroutine, the hook (used once, see above) |
| `status`, `recordId`, `old` | the record's status and `job_id`; submitted more than 12 hours ago |
| `tracked` | `pendingJobTracker.jobs` |
| `task` | an update under way: lookup, write, retries, and what follows it |
| `batch`, `item` | the poller's copy of the map, or the sweep's list, and the one it is at |
| `excused`, `swept`, `mishaps` | for the properties: records the poller was never told of, records last written by the sweep; bound on failures and restarts |

`NoFalseCompletion` relates the table to CUPS across all of this;
`NoOpenRecordForgotten` relates it to the poller's map; `RecordsClose` says that
the sweep repairs whatever was lost.

`RecordLife` is what a user who looks at the table may rely on, in four actions: a
record is saved, closed, deleted for good, and opened once more when its document
goes on to the second pass, even if the failure of the first pass or the sweep had
closed it. It knows nothing of lookups, retries or the poller. `KeepsLife` is
`JobRecords => RecordLife`; a manual duplex record is "waiting", a pending one
"printing", and its pass is read off its `job_id`.

Abstractions: the poller's three attempts around the store's three attempts are
one loop of `MaxAttempts`; pending, held and processing are one state, as are
cancelled and aborted in CUPS; the expiry of a hook writes nothing to the record
and is left out; a failed `resolvePrinter` or CUPS call is a round without
effect; the active job warning and the expiry field are not modelled.

### Runs

| Run | Instance | Shows |
|---|---|---|
| `records` | 1 manual document, over HTTP or by the bot, 2 mishaps, 2 attempts; 708,006 states | `TypeOK`, `NoFalseCompletion`, `NoOpenRecordForgotten`, `KeepsLife`, and `RecordsClose` under fairness |
| `records_two` | 2 plain documents, each over HTTP or by the bot, 1 mishap, 1 attempt | `NoFalseCompletion`, for numbers of one server |
| `two_servers` | 2 documents, 2 CUPS servers | violated: numbers collide |
| `sweep_overwrites` | 1 document | violated: the sweep overwrites a cancel |
| `stopped` | 1 document | violated: a stopped job that goes on |

One manual document has both passes, the poller, the sweep, a continue or a
cancel and a deletion at work on one record; two plain ones let the numbers and
the writers of one server mix, with the documents symmetric. Two mishaps are a
failure and a restart, or two failures of one update. Deadlock is not checked:
with bounded job numbers the system comes to rest when everything is printed and
recorded.

Fairness in `records`: goroutines run; twelve hours pass for a record that stays
(strong, because an update under way interrupts them); the poller's `select`
chooses at random between its tickers when both are due, so that the sweep is
not passed over for ever (strong). CUPS need not finish any job.

### Proofs

`JobRecordsProofs` proves `TypeCorrect` from `DocsAssumption` alone. Types need
`Filed` beside them: whoever looks a record up, or writes one, has a number and a
status to write, and a record that exists has a number.

The two safety properties hold as long as `OwnNumbers` does: no two documents were
given the same job number. `OnlySharedNumbersMislead` proves that for any servers,
documents, failures, restarts and attempts, so that a shared number is the only
thing that can mislead the table and the poller; `OneServerSharesNone` proves that
`OwnNumbers` always holds under `SingleServer` (all printers on one CUPS server), and
`NoneCompletedByMistake` and `NoneForgotten` put the two together. Nothing in the code
guarantees `SingleServer`, and run `two_servers` shows `NoFalseCompletion` violated
where each document has a server of its own.

Two more facts about the writers follow from the same invariant.
`UpdatesHitTheirRecord`: whoever is about to write has found the record it is meant
for, although it looked it up by the number alone. `ClosedForGood`: a record that names
the second pass and is closed is not opened again, by a continue whose answer was lost
and that tries once more, by a lookup made before the rename, by a poll or a sweep. (A
record of the *first* pass can be: a poll reports that it failed, and the user goes on.)

`ImplementsRecordLife` proves the whole life, `Spec => KeepsLife`, under `SingleServer`.
`RecordLife` sees only a record and the number of its first job, so that all but four
actions are stutters (`OthersStutter`); `WriteMaps` is the heart: what `WriterKnown` says
of an update that has found its record makes it a `GoOn`, a `Close` or a stutter.

The inductive invariant is `TypeInv /\ Numbered /\ (OwnNumbers => SafeInv)`. `Numbered`
says that a number is given once and that CUPS knows it, which makes numbers last
(`NumberedStep`): one that is shared stays shared, and so `OwnNumbers` after a step
gives `OwnNumbers`, hence `SafeInv`, before it. The parts of `SafeInv` are:

* `JobsDiffer`: a number belongs to one pass of one document;
* `RecordsNamed`: a record names a pass of its own document, the first one while
  it waits for the continue, and never the first one of a manual duplex document
  while it is pending: the continue changes status and number in one write;
* `PollerKnows`: an entry of the poller's map, of its copy, or of the sweep's list
  is about the pass of that number, and says "waits for the second pass" exactly
  of first passes. This is what survives although the map is copied at the start
  of a round and documents are continued, cancelled and restarted during it;
* `DocTask`: an update by a continue or a cancel is under way only when the hook is
  closed, and finds its own document's record;
* `PollTask`: a completion that the poller is about to write is one that CUPS
  showed, and does not take back, of a job that is not a first pass. An update of a
  first pass may find the record before a continue renames it and write it after,
  but then it is no completion; and what the poller is about to untrack has no
  record that still waits for it;
* `Followed`: `NoOpenRecordForgotten` without waiting for the goroutine that
  printed a manual document, which may still report its first pass while its second
  is tracked already.

Each action has a lemma that it keeps all of it (`SubmitKeeps` ... `RestartKeeps`),
and another for the types. TLC checked the parts of `TypeInv` and `SafeInv` first, for
one manual document with two jobs, two attempts and three mishaps (1,111,044 states),
and `Numbered` and `OwnNumbers => SafeInv` for two documents on servers of their own
(3,083,120 states); `UpdatesHit` and `ClosedStaysClosed` for one manual document with
two jobs and for two documents on one server (708,006 and 1,704,050 states).
`RecordsClose` is only model-checked.

## SubmitPipeline

An HTTP submission waits for the one submit slot and holds it to the end of the
handler: upload, hash, cache, conversion, page check, CUPS, record; or, for a
Feishu document, the resolution of its address, the export task, its polling and the
download. The cache cleaner and the conversion service know nothing of the slot.

| Model | Code |
|---|---|
| `slot`, `Acquire`, `GiveUp`, `Release` | the token of `submitqueue`; `select` between token, timeout and context |
| `uploads`, `KeepSource`, `MoveSource` | the upload in `output_dir`, renamed into the cache unless its content is there |
| `cache`, `LookupPdf`, `StorePdf` | source and PDF of each content; a hit leaves the modification time alone |
| `converting`, `outputs`, `ConverterEnds`, `ConversionLost` | the conversion service, which goes on when its caller has given up |
| `left`, `Leave`, `CutOff` | the context of the request, cancelled when the client leaves: the calls to Feishu, the wait between two polls and the writing of a preview end |
| `ParseUrl`, `Resolved`, `Created`, `Polled`, `Downloaded` | `exportFeishuDocToPDF`, one step for each answer: `resolveWikiNode` follows shortcuts without a bound, `pollExportTask` ends after `feishuExportMaxPolls` |
| `Send`, `Written`, `Record` | the job or the preview; the client that takes it; `SaveJob` |
| `doomed`, `FindOld`, `RemoveOld` | the cleaner: look at the age, then remove by name |
| `Restart` | a new channel; cache and service outlive the process |

`SlotNeverLost` is the hard one: the wait may time out just as the token comes
back, a client may leave, any step may fail, and the token is in the channel
exactly when no handler has it. `FreshFileStays` says that the cleaner's look is
not stale when it removes: between the two the file could be replaced by a fresh
one, were it not that only an absent file is replaced. `OwnConversionStays` says
that a request's own conversion is there when it opens it. A request that *hit*
the cache has no such promise: the age of a hit is not looked at or refreshed,
so the cleaner may remove the file before it is opened. The request then fails
and says so; the model has that step (`missed`).

The server cannot promise that every request is answered. No call to Feishu has a
timeout (the Lark client is made without one, and the request's context has no
deadline), a ring of wiki shortcuts is followed for ever, and a client may stop reading
a preview, all with the slot held. `RequestsEnd` says what remains true: a print of an
uploaded file ends whatever the others do (one that holds the slot for ever costs it its
wait), and *any* request lets go of the slot once its client has left, because every
call that may hang has the request's context.

| Run | Instance | Shows |
|---|---|---|
| `pipeline` | 2 requests of any kind for 1 content, 2 polls; 76,436 states | the safety properties, and `RequestsEnd` under fairness |

Two requests are a holder and one that waits or gives up; a third would only wait as
well, and the safety properties are proved for any number. Two contents would add only
independent files. The guard of
`Age` is an assumption on the configuration: `cache_max_age` is longer than a request
takes from storing a file to opening it.

Fairness: handlers run; the calls with a timeout end (the wait for the slot, the
conversion, CUPS, the table), and so does a call whose context is cancelled. Nothing is
asked of Feishu's answers, the conversion service, the cleaner, or clients, neither to
read nor to leave.

`SubmitPipelineProofs` proves `Invariance` for any number of requests, contents
and polls. `IndInv` adds to the properties `PollsCounted`; `DoomedIsOld` (what the
cleaner is about to remove is old, because nothing makes an old file fresh);
`AbsentUntilStored` (who is about to store a PDF still finds none, because the
slot keeps the others out); `StoredIsFresh` and `MissedIsOver`. From it follow
`TypeCorrect`, `MutualExclusion`, `SlotIsSafe`, `ConversionStays` and
`CleanerSparesFresh`. `RequestsEnd` is only model-checked.

## DuplexDialog

The web client shows a dialog for a hook, on the print page and in the job
history. `DuplexDialog` composes one dialog for each tab with `ManualDuplexHooks`:
a press is a `WebRequest` of the store or is lost on the way, the goroutine's end
is an answer that may be lost, and the page may have moved on when it arrives.

| Model | Code (bundle, names of the print page) |
|---|---|
| `shown`, `deadline`, `CountedDown` | the dialog's state, set by `Be`; the countdown that closes it at zero |
| `mode`, `net` | the flags `We` and `qe`, with what is in flight and where it is |
| `Press`, `AskExtend`, `ConfirmExtend`, `Hear` | `Ht`, `Ut`, `Wt` and what follows their `await` |
| `posted`, `Synced`, `Read` | the expiry in an answer or record, written to the minute, parsed as GMT |

`ToldIsTrue` is about several clients at once: a user is told "printed" or
"cancelled" only if it is so, and no two users are told different things.
`CountdownKept` says how far a countdown is from the truth: the hook does not lapse
under it by more than `Slack`, which is the two errors that the code does not rule
out. The server writes its local time and the browser reads GMT (`Zone`), and an
extension by another client may shorten the wait by what the window exceeds the
minimum timeout. Everything else (the cut to the minute, late and lost answers, records
that were not updated) only makes the dialog close early. Where the server is on GMT,
as the image built `FROM scratch` is, and the timeouts are the defaults, the slack is
nothing. `PressesEnd` says that buttons come back.

| Run | Instance | Shows |
|---|---|---|
| `dialog` | 1 token, 2 requests, 1 tab, 4 ticks to the minute, zone 2, window 3 over minimum timeout 2; 628,883 states | the four properties, with a slack of 3 |

A second request is another client, of which nothing but its requests matters; four
ticks to the minute make the truncation visible. A zone behind GMT closes dialogs early
and is left out.
Fairness: goroutines run, a connection ends in an answer or an error, the browser
runs its callbacks and timers.

### Proofs

`DuplexDialogProofs` first shows that each step of the composition is a step of
`ManualDuplexHooks` or leaves the store alone (`DialogIsHookStep`), so that
`DialogsUseTheStore`, `DialogSpec => Spec`, holds and every theorem about the hooks
holds of them behind any number of dialogs. `DialogInv` adds to `IndInv`

* `RequestKnown`: the request that a tab waits for has the tab's document and
  button, and has not ended: no other client or tab is given that goroutine;
* `AnswerTrue`: a good answer that is still on its way is true, and stays so, since
  prints and cancels are never taken back (`OutcomesStay`).

`DialogTypeCorrect` and `ToldTheTruth` follow, the latter with `NotBothReported` of
the hooks. `CountdownsKept` holds for every zone, minute, timeout and window. It needs
`DeadlineNear`: what a tab was told of an expiry, and what a record or an answer under
way will tell it, is `Near` the expiry: later by no more than the zone; or, once an
extension has shortened the wait, by no more than the slack, and then the expiry is no
further than the minimum timeout, so that the next extension loses nothing more.
`PressesEnd` is only model-checked.

## PrintPage

The print page keeps a chosen file, a picture of which a PDF is being made, a
preview that counts the pages, and a submission. Each runs asynchronously and
writes the page's state when it ends.

| Model | Code (bundle, line 95) |
|---|---|
| `chosen`, `picture`, `composing`, `composers` | `p`, `Ce`, `Fe`; runs of the effect that makes a PDF, whose clean-up only tells it not to report |
| `previews`, `loading`, `pageCount` | runs of the preview effect, aborted or not; `C`; `D` |
| `Preview(f)` | the effect's clean-up and its next run, part of every action that changes the file or an option |
| `PickDocument`, `PickPicture`, `ChangeFile`, `SwitchTab`, `ChangeOption` | `Dt` and `bt`; the change-file button (line 96), which leaves the picture alone; `It`, to the Feishu tab and back; the effect's other dependencies |
| `Enabled`, `Submit` | `Kt`, `zt` |
| `slip`, `disturbed` | for the properties: why the chosen file may not be the pick; an aborted preview has ended under the next one |

The page disables none of its inputs while a PDF or a preview is under way, and
neither does the model: the user picks, changes and prints at any time, and PDFs and
previews end in any order.

`SendsThePick`: the file sent is the one picked last, except that the user has been
told that the PDF could not be made and prints what is still chosen, or that the PDF
of a picture that was replaced or discarded arrives late and becomes the chosen file.
`CountIsOfFile`: the page count it was checked with is its own, or there was none,
except that an aborted preview has ended while the next was under way. These
exceptions are what the code does (last section but one), and no others are needed,
whenever the user acts.

| Run | Instance | Shows |
|---|---|---|
| `page` | 4 picks, 2 of them pictures, 1 change of an option; 6,201,030 states | `TypeOK`, `SendsThePick`, `CountIsOfFile` |

Two files of each kind give every order of two picks, and the third and fourth what
was left behind by them. The page comes to rest when all files are picked, so deadlock
is not checked.

`PrintPageProofs` proves `TypeCorrect`, `SendsWhatIsPicked` and `CountsWhatIsSent` for
every user, any files and any number of changes, from `PageInv`. `ComposesThePick` says
that at most one PDF in the making is one that the page waits for, and that without it,
and without a slip, the chosen file is the pick; `CountsTheChosen` that a preview that
is not aborted is the chosen file's, and the count its own as soon as the page does not
wait, unless it was disturbed.

## DuplexSheets

From pages to paper: selection, layout, copies, the two passes, and a printer that
prints the passes on the two sides of a stack. A page is the sequence of source
pages it shows, a sheet a pair of pages, and the result is compared with what a
reader wants in hand: the stack `Holds` every copy of `CopyOfSheets`, each sheet at
its `Place`. Neither definition knows of passes.

| Model | Code |
|---|---|
| `InOrder`, `Selected`, `Laid`, `PageSelectors`, `BuildOrderedPDF`, `ApplyCopies` | `parsePagesString`, `applyNupLayout` and the functions of `manual_duplex.go` and `pdfutil` |
| `Select`, `ReverseFile`, `CopyFile`, `Split`, `CopyPasses` | their order in the HTTP handler, which copies each pass, and in the bot, which splits the copies |
| `PrintOneJob`, `PrintFirstPass`, `PrintSecondPass` | the printer and the user (external) |

`SheetsRight`: a configuration that suits how the printer takes the stack
(`Suited`) gives each copy its own sheets in order, except in three named cases,
and in no other. `NothingLost`: the passes print every page once for each copy,
whatever the configuration.

Run `sheets`: every selection of 5 pages, one or two on a page, up to 3 copies,
collated or not, all settings of duplex, both origins; 107,928 states. Five pages
give odd and even counts before and after layout, three copies tell collated from
uncollated and odd from even totals.

### Proofs

`DuplexSheetsProofs` proves `SheetsAreRight` and `NothingIsLost` for any number of
pages and copies, any selection and any layouts, from `SheetsAssumption` (the bounds
are naturals, a layout holds at least one page). Nothing in the model is recursive:
a set of page numbers is put `InOrder` by rank, and everything else says what each
index of a file holds, so no proof needs induction over data.

The invariant `SheetsInv` says that the file, the passes and the pile are at each
step a fixed expression of the document: a web job's passes are the copied passes of
the document, a bot's are the passes of the copied document. TLC checked it on the same
instance before it was proved. What remains is to show that those expressions are
right, in lemmas about the operations:

* `Selectors`: the i-th odd page is 2i - 1, the i-th even page 2i, and there are as
  many as there should be; `PassList`, `WholePass` say it of a pass, also reversed;
* `PlaceTells`, `PlacesCover`, `PlaceInjective`, `PlaceReversed`: the places of the
  copies number the stack, and turned round it holds the same copies in reverse;
* `SplitCopies`: copies that are whole numbers of sheets may be made before the split
  or after, which is why the bot is right but for `BotCopies`;
* `ByHandHeld`, `TwoSidedHeld`, `OneSidedHeld`: the stack `Holds` the sheets, where
  `Suited` makes the two reversals and the feed of the printer cancel;
* `TimesOrdered`, `TimesCopied`, `TimesPasses`, `ShowingSides`: how often a page
  occurs, counted through every operation by pairing its places (`Paired`).

## What the code does not do

Four statements of the repository's documentation and messages are refuted by a
run, listed under `findings`:

* the bot's card says "cancelled" too soon (`cancel_card`);
* the sweep overwrites a cancel (`sweep_overwrites`); a stopped job is final to the
  poller (`stopped`); job numbers of several CUPS servers are mixed up (`two_servers`).

Other things the models made plain, some at their lines in `hazards`. Properties that
they touch name them as exceptions or bounds, and say that nothing else goes wrong:

* an extension brings the expiry *forward* if the extend window is longer than the
  minimum timeout (`ExtensionBounded`); `openapi.yaml:1063` has the new expiry right,
  but its summary and `README.md:148` speak of prolonging;
* with copies > 1 the file the second pass was copied from stays until the next start,
  also after a cancel (`handlers.go:750`, against `README.md:149`), and so does the
  staged file of a failed first pass;
* on a server ahead of GMT the dialog counts down for a hook that has lapsed, and on one
  behind GMT it closes hours early (`CountdownKept`);
* the page may print with another file's page count (`CountIsOfFile`): picking a
  picture starts the preview of the file before it once more, and a preview that is
  aborted clears the sign of the next;
* a document picked while the PDF of a picture is made leaves the page "merging", its
  print button disabled, until another picture has been merged;
* the sweep completes records of jobs that CUPS still knows and has not finished
  (`README.md:405`);
* an export whose wiki shortcuts lead in a circle, or whose call Feishu never answers,
  keeps the submit slot until its client leaves (`feishu_export.go:152`);
* a cancel that failed closes the dialog without a word; an answer to a continue or
  a cancel that comes after the countdown closes whichever dialog is open then;
* copies put pages on wrong sheets: the bot's with an odd number of pages
  (`BotCopies`; `pad_to_even`, `README.md:419`, pads the copies, not each copy),
  automatic duplex with more than one copy that is uncollated or odd
  (`AutoCopies`), and manual duplex of an odd document that is not padded
  (`OddUnpadded`);
* the PDF of a picture that has been replaced or discarded still becomes the chosen
  file when it arrives, and is sent if the user does not look;
* a batch: a document that cannot be laid out leaves the submit button disabled
  until the page is loaded again (`Vt` has no `finally`); after a partial failure
  the whole list is sent again; the hooks of a printer that is duplexed by hand are
  not shown (the job history has them); every document is sent with the page
  selection that was made of the previewed one.

## Not modelled

* *Rate limiter*: one update of one map under one lock for each request, with
  fixed windows by design. *Token cache and login sessions*: what matters is held
  by Feishu or is cryptography. *Configuration*: a sequential function of a file,
  read once; its values are the constants of the models. *Active job warning*: a
  read that decides whether the bot asks, which `Warn` leaves open.
* *The WPS sessions of the conversion service, picture geometry, validation of form
  fields, listings*: sequential, without state that the properties tell apart.
* *Batches* of the web client: one loop over a copy of the list, with the button
  disabled; what is wrong with it is plain from reading (above). *Scan page*.
* *Bot messages and cards* as text, *SANE proxy*, *routing*, *SDK setup*, *generated
  gRPC code*, *developer commands*, and the libraries in the bundle.
* *Durations* beyond the order of events. That a record deleted under the poller
  slows every round down (`job_status_poller.go:222`) is therefore a hazard
  without a property.

The web client exists in the repository only as a bundle: a few very long lines,
most of them third-party libraries (React, axios, PDF.js, pdf-lib, dnd-kit). The
client's own code is on some twenty of those lines, and `map` names those whose
behaviour is modelled and no others. Most of the models are about the Go code.
