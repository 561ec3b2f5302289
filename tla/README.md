# Arcforma Mail in TLA+

Arcforma Mail is a desktop mail application (Electron, SQLite) over Gmail. Everything the user does is
written to a local database at once and carried to Gmail later; everything that happens in Gmail comes back
through polling. What is hard about it is not any one function. It is that the user, a timer, the network
and a crash all meet in the same few tables. This directory models those tables and what writes to them,
checks the models with TLC, and proves the central results with TLAPS for any number of accounts, rows,
messages and crashes.

Paths below are relative to the repository.

## 1. The system

| Component | State | Operations | Talks to |
|---|---|---|---|
| **Outbox** `packages/store/src/queries/outbox.ts`, `packages/gmail/src/outbox.ts` | table `outbox` (pending, inflight, done, failed; due time), `thread_labels_pending` (masks) | enqueue, replace a waiting draft mirror, take the oldest row of an account, ack, retry, give up, reset at start | filled by thread and draft handlers, emptied by the sync run |
| **Send queue** `packages/store/src/queries/scheduler.ts`, `apps/desktop/electron/scheduler.ts`, `electron/compose/queue.ts` | table `send_queue` (queued, sending, sent, failed, cancelled), receipts, the scheduler's `ticking` flag | queue, undo, release, retry, fail, recover at start | Gmail `messages.send`; hands drafts back to the mirror |
| **Draft mirror** `electron/drafts/mirror.ts`, `drafts/debounce.ts`, `queries/drafts.ts` | table `drafts` (pending, synced, failed, Gmail draft id), debounce timers in memory | save, discard, detach for a send, return after one, ack, import, reconcile, recover | outbox, send queue, Gmail `users.drafts` |
| **Label sync** `electron/sync.ts`, `queries/threads.ts`, `queries/labels.ts`, `packages/gmail/src/history.ts`, `sync.ts` | messages with labels, watermark `history_id`, backfill cursor, `retryFetch` in memory | backfill, poll, apply history, fetch threads, read again after an ack | outbox masks, Gmail `history.list`, `threads.get` |
| **Sync loop and accounts** `electron/sync.ts`, `electron/accounts.ts` | timers, pokes and one running promise per account; `auth_state`, cached clients | schedule, poke, cancel, run; sign in, sign out, expire | starts every run above |
| **Queues** `queries/queues.ts`, `packages/store/src/day-boundary.ts`, `electron/rollover.ts` | `queue_items`, `queue_clears`, `dayStartAt`, `weekStartAt`, `lastActiveAt` | toggle, clear, roll the day, roll the week | threads, scheduler |
| **Snoozes and reminders** `electron/scheduler.ts`, `electron/client-reminder.ts` | `snoozes`, `reminders` | snooze, wake, remind, fire, resolve | queues, outbox |
| **Calendar sync** `electron/calendar.ts`, `packages/gmail/src/calendar.ts` | sync token with its expiry, `calendar_events` | full window, increment, fall back on 410 | Calendar API |
| **Attachments** `electron/attachments/`, `queries/attachments.ts` | `attachment_files`, `orphan_attachments`, the files, fetches under way | open, fetch, write, cascade, sweep | Gmail, the disk |
| **Read receipts** `electron/receipts/`, `packages/pixel-service/src/` | `read_receipt_events`, the watermark; the service's key-value store | arm, drop, record a fetch, poll | send queue, between app and service over HTTP |
| **Classifier** `electron/classify/` | `classifications`, the pass under way, the pause | tick, ask the model, file by hand, create a category, sweep the rules | runs after threads change, tells the window |
| **Gmail client** `packages/gmail/src/client.ts` | a bucket of quota units per account | request, batch, retry, back off | every component that talks to Gmail |
| **AI daemon** `packages/ai-core/src/`, `packages/ai-daemon/src/` | one llama-server process, its idle timer, the gate of the background | start, wait, stop, answer, fall back to Claude | the classifier, text fixes |
| **Claude** `packages/ai-core/src/claude.mjs`, `service.mjs`, `packages/ai-daemon/src/server.mjs`, `electron/ai/client.ts` | the queue and the children of the CLI, the model of the chain, calls by their request | ask, route, wait for a place, step down, time out, cancel, shut down | the classifier, text fixes, the CLI |
| **Sign-in of Claude** `electron/ai/signin.ts` | the CLI that signs in, its timer | start, cancel, expire, exit | the window |
| **Helpers** `electron/helpers/plan.ts`, `electron/helpers/install.ts` | the launchd label, the installed copies and their versions | keep current at launch, install, replace, restart | launchd, the disk |
| **Setup** `electron/ipc/onboarding.ts`, `Onboarding.tsx` | the stored step, the screen, replies on their way | next, back, finish, reopen, quit | accounts, the store |
| **Sidebar** `src/lib/sidebarLayout.ts`, `useSidebarLayout.ts`, `AddRowPopover.tsx` | `settings.sidebarLayout`, categories, `saved_searches`, the window's copies | drag, hide, add, delete, reconcile | the classifier's categories over IPC |
| **Contact photos** `electron/contacts.ts`, `packages/gmail/src/people.ts` | `contacts.photo_url`, photos of the session, tasks under way | ask, look up, download, forget | accounts, the People API, Gravatar |
| **AI config** `electron/onboarding/environment.ts`, `packages/ai-daemon/src/config.mjs` | the config file both processes write | patch, choose, start the daemon, reload | the AI daemon, the Keychain |
| **Model download** `electron/onboarding/download.ts` | the part file, the run | start, resume, cancel, install | the web, the AI daemon |
| **Compose box** `apps/desktop/src/state/store.ts` | the box, its autosave timer, the save in flight, the drafts it knows | type, save, close, park, reopen, send, undo | draft mirror and send queue over IPC |
| **Letters** `packages/gmail/src/send.ts`, `drafts.ts`, `electron/ipc/compose.ts`, `src/lib/compose.ts` | a letter in the box, in `drafts`, in Gmail | build, split, repair, move, arm a receipt, bring back | draft mirror, send queue, Gmail's editor |
| **Replies** `src/lib/compose.ts`, `src/state/store.ts` | the messages of the open thread, pending ones behind them | answer, merge, refresh, undo | sync, send queue |
| **List and pane** `apps/desktop/src/state/store.ts` | the rows on screen, search hits, the open thread, sequence numbers | load, search, open, act, undo | the thread handlers over IPC |
| **Text tool** `packages/text-tools/Sources/ArcformaText/` | the selection of another application, the clipboard, the call Escape cancels, toolbar and panel | read, ask, verify, paste, put back, restore | other applications by keys and Accessibility, the AI daemon or Claude |

Headers and parts of mail (MIME, ICS), search queries, prompts and the shell
have no state that another part depends on. `PROJECT.json` lists each of them.

### What is hard

* **User against run.** JavaScript is single threaded, so steps interleave only at `await`. There are many:
  a drain awaits Gmail for each row, a fetch awaits a batch, the reconcile awaits each draft, and each of
  them uses afterwards what it read before.
* **The answer that does not come.** A request can be carried out and its answer lost. The next attempt then
  meets a Gmail in which the change is already made.
* **Half in memory.** The watermark, the outbox and the drafts are on disk. The debounce timers, the threads to
  fetch again and the threads acknowledged in a drain are not. A crash keeps one half.
* **Masks.** History for a thread with an open change is skipped, not delayed. Skipping is only sound if
  something reads that thread again later.
* **Retries that overtake.** A failed row waits while the rows behind it are ready.
* **A window ahead of its store.** A key changes the screen at once; answers to what was asked before it, announcements
  of the sync and the answer to the key itself come in later, in any number.
* **Results of slow work.** A model, a download, a fetch of an attachment or of a calendar ends long after it was begun, over
  state that others changed meanwhile.
* **What is not ours.** The text tool works with the user's clipboard and with keys sent to whoever is in front.

`PROJECT.json` lists each hazard at its line with the properties aimed at it.

### What makes each component correct

* Outbox: changes reach Gmail in order; Gmail never goes back to an older one; a mask is there exactly while
  its change is open; no row is stuck in flight; every row is settled in the end.
* Send queue: no duplicate but after a lost answer; an undo works or says it came too late; the text is in
  one place, unless the process dies in the turn that moves it; a message does not stay in the queue for ever.
* Draft mirror: no text is lost, nothing the app made in Gmail is forgotten there, "In Gmail" means it is there,
  "Saving" ends, an import brings only what Gmail wrote.
* Label sync: local changes win while they wait; once everything is settled both sides agree; nothing is
  missing and nothing is left over.
* Sync loop and accounts: an account that is signed in always has what will sync it next, and only one of it; a change never waits
  for the next poll; no request is begun as whoever was signed in before; an account ought to be expired by its own token only, which the code does not keep; a live
  account has its whole backfill.

* Queues: a thread leaves the queues by the user only; nothing is in Weekly 0 twice a week; NO REPLY BY is true; a snooze comes back.
* Compose box: what was written last is somewhere; a letter has one draft and goes out once; no draft is written over.
* List and pane: the list is the store's once all is answered; no row comes back over a key; what opens is what was asked for.
* Classifier: what was filed by hand stays; every thread gets a verdict; the list hears of it. Calendar: the window is mirrored.
* Attachments: a part opens as itself; no file is left behind but in five named ways. Read receipts: every recorded fetch is collected.
* Gmail client: no stretch of time gets more units than the bucket allows. AI daemon: no process without an owner; everybody gets an
  answer. Claude: never more children than the gate allows, nobody waits before a free place, who was killed as cancelled is told so.
* Helpers: what the launch keeps running is the version of the app; what is installed is whole. Setup: a quit comes back to its screen, and the
  choice of AI is the one made last. Sidebar: each row is drawn once, where the person put it. Photos: "nothing found" means there is nothing.
* Text tool: a paste goes over what was read; the clipboard is given back; a stopped call pastes nothing; Escape belongs to the newest call.

## 2. Modules

| Module | What it is |
|---|---|
| `OrderedDelivery` | The abstract promise of an outbox: changes of one owner are delivered in the order they were submitted |
| `Outbox` | The outbox table, the drain of each account, masks, crashes; refines `OrderedDelivery` |
| `Outbox_proofs` | The invariants, order and refinement of `Outbox`, and the invariants of `SendQueue`, proved |
| `SendQueue` | The `send_queue` state machine, the tick, undo, receipts, crashes |
| `DraftMirror` | The drafts table, the debounce, the draft rows of the outbox, `users.drafts`, the send queue as far as it holds a draft, the reconcile |
| `LabelSync`, `LabelSync_proofs` | Labels on both sides, history, backfill, fetches, masks, the drain of label changes; that local changes win and that the sides meet, proved |
| `SyncLoop` | The timer, the pokes, the run and the client of an account, with sign-in, sign-out, expiry and the Keychain |
| `SyncLoop_proofs` | Its safety properties, proved |
| `Queues` | Daily 0, Weekly 0, Later, snoozes and reminders; both boundaries; the tick |
| `Composer` | The box of the window against the drafts table and the send queue |
| `Composer_proofs` | That no text is lost, a letter is one thing, and a row one letter's, proved |
| `Screen` | The list and the reading pane against the store |
| `Screen_proofs` | Its properties, and the safety properties of `Queues`, proved |
| `Classifier` | Passes, the reclassification, filing by hand, restarts |
| `Attention` | The score and the band of a thread, the sweep over them, the banner of a message |
| `CalendarSync` | Sync tokens, the window, 410, sign-outs |
| `Attachments` | The file cache, its rows, the reaper |
| `ReceiptPoll` | The pixel service's store and the poll behind a watermark |
| `GmailClient` | The bucket of quota units with requests, batches and retries |
| `LocalModel` | The llama-server process, the requests that share it, the gate |
| `ModelDownload` | The part file and the runs that fill it |
| `ClaudeRunner` | A call from its client through the route and the gate to the CLI |
| `ClaudeLogin` | The one sign-in at a time of the Claude CLI |
| `Helpers` | The launch and the install button over the daemon, the agent and the text tool |
| `Setup` | The setup wizard against its stored step |
| `AiConfig` | The config file that the app and the daemon both write |
| `Sidebar` | The stored arrangement of the sidebar against the rows there are |
| `Contacts` | The photo of a contact, from its row, the session or two hops |
| `TextReplace`, `TextReplace_proofs` | The flows of the text tool over another application's selection and the clipboard; its properties, proved |
| `Letters` | What a letter says between the box, the drafts table, Gmail and the recipient |
| `Replies` | Whom an answer goes to, and the message shown before the sync brings it |
| `MCOutbox` | `Outbox` and `SendQueue`, the two queues that leave the machine, and their small instance. They share no state: a behaviour is one of one of them |
| `MCDraftMirror`, `MCLabelSync`, `MCSyncLoop`, `MCQueues`, `MCComposer` | Small instances for TLC |
| `MCScreen` | `Screen`, and beside it the safety of `Queues`, of which it needs no fairness. They share no state: a behaviour is one of one of them |
| `MCWorkers` | Small instances of `Classifier`, `Attention`, `CalendarSync`, `Attachments`, `ReceiptPoll`, `GmailClient` and, under fairness, `DraftMirror`, which share no state: a behaviour is one of one of them |
| `Workers_proofs` | What `drafts` checks of `DraftMirror`, and the safety of `Classifier`, `Attention`, `Attachments` and `GmailClient`, proved |
| `MCWriting` | The same for `TextReplace`, `Letters` and `Replies` |
| `MCHelpers` | The same for `ClaudeRunner`, `LocalModel`, `ModelDownload`, `ClaudeLogin`, `Helpers`, `Setup`, `AiConfig`, `Sidebar` and `Contacts` |
| `Helpers_proofs` | The safety properties of those but `Sidebar`'s, proved |

### How a module corresponds to the code

`PROJECT.json` maps each definition to its lines. The conventions are the same everywhere:

* A row of a table is a position of functions or a record. A state that a column names has the name the
  column has ("absent" is a row that was not inserted yet).
* The program and Gmail are separate actors. `TakeNext` sends a request, `GmailApplies` carries it out, `Ack` is
  the answer coming in. `FailRetry` may happen before or after Gmail acted, and that is how an answer is lost.
* A synchronous stretch of the code is one action; each `await` that lets others in ends one. In `Outbox` the
  user may also act between an answer and the next row, which the code does not allow; that only adds behaviours.
  Nothing but the death of the process comes between two writes of one stretch. Where what it leaves behind matters, the stretch is cut there: into the writes of a turn in `SendQueue`, between a file and
  its row and between the steps of a sweep in `Attachments`, and in the workers as each module's header says.
* `Crash` loses memory and keeps tables. Restart runs what the start of the program runs
  (`resetInflightOutbox`, `failInterruptedSends`, `DraftMirror.recover`).
* Time is a flag: a row is due or not, a text is younger than a minute or not, a message left less than the grace
  period ago or not. Some action may flip the flag at any moment.
* Definitions that start with `Faulty` are mutants: plausible errors of the definition next to them. Nothing
  uses them in the specification itself.
* The faults of `DraftMirror` and `LabelSync` have kinds. `Faults` says which may happen in a run, `MaxFaults` how many, and
  `faults` is the sequence of those that did. A property that some fault breaks says so in its own antecedent
  (`~Happened("auth") => ...`), so that one run can let every fault happen, and the unconditional form stands beside it under a
  name of its own (`InGmailIsInGmail` and `SyncedIsMirrored`, `SidesAgree` and `LabelsAgree`).

**Outbox.** `owner`, `draft`, `status`, `due` are the columns; `mask` is `thread_labels_pending` by row; `pc`, `job`,
`count` are the locals of `drainAccount`; `tip` is the last row Gmail applied. `ChangeThread` and `SaveDraft` insert,
`SaveDraft` replaces the text of a waiting row instead when there is one, `RemoveDraft` deletes waiting mirrors, and `TakeNext`
is `next` with its loop over rows whose draft is gone, followed by `markInflight`.

**SendQueue.** `status`, `due`, `tries`, `receipt` are the columns and the armed receipts; `ticking`, `batch`, `current` are
the tick; `accepted` counts what Gmail took and `lost` the answers that did not arrive. `Visit` covers `markSending` and
the row without a client, `AskAgain` the retry inside `GmailClient.request`. A message that will not go out leaves in several writes of one turn: `UndoSend`, `Rejected` and `Restart` write the status,
`DropReceipt` and `PutDraftBack` what is left (`dropping`, `returning`), and the process may die between any two of them. `Free` says that no turn is half done. `torn` and `doubtful` are history: the messages in whose
turn the process died, and those a start found in sending.

**DraftMirror.** A text is a number, so "newer" is "greater". `rev` is the Gmail message id behind a draft, which changes
with each write. `run` is what the account's serial run is doing: drain or reconcile, never both. `List`, `Visit*`,
`Fetched`, `Import` are the awaits of `reconcileGmailDrafts`.

**LabelSync.** `here`, `local` are the local messages and their labels, `there`, `gmail` Gmail's, `log` its history.
`Pull`, `Apply`, `Read`, `LandPoll` are the awaits of `poll`; `Profile`, `List`, `Read`, `LandPage` those of `backfill`;
`TakeNext`, `GmailModifies`, `Ack`, `EndDrain`, `LandReread` those of `drain`. `WriteThreads` is `upsertThreadFromGmail`
with `reapplyPendingMasks`.

**SyncLoop.** `auth`, `sync`, `history`, `cursor` are the columns of the account; `token` is what the Keychain file holds, `cached` the entry
of `clients`, `held` the client a run captured when it started, `other` one that a send or an opened thread captured. `timer` and `poked`
are the entries of `timers` and `pokes`, as one of three delays. `run` is the `await` the run is at. A sign-in is three actions: the
browser opens, the token arrives (everything up to `refreshOwners`), `refreshOwners` is answered and the handler pokes. `RunOver` is the
`finally`. A client of a dead token may work for a while, as long as its access token does. `fresh`, `failed` and `landed` are history
variables for the properties.

**Queues.** `dayStart`, `weekStart`, `lastActive` are the settings, `item` is `queue_items`, `snooze` and `reminder` the pending rows, `fired`
the latest fired one; the rest is the row of a thread. A unit of time is long compared to the hour by which an activity may be reported late.
`Activity` is `applyActivity` with both rollovers, `Tick` all of a tick, including a row that throws in it. The initial state is the
program after its first activity.

**Composer.** A letter is what the writer has in mind, a text one version of one letter. `compose`, `dock`, `collapsed`, `autoRow`, `saved` are the
fields of the store; `calls` are the answers on their way in order, `slow` those of `compose:send` and `send:undo`, `waiting` what stands behind the
autosave in flight. A *slip* is a race that the code leaves open or a failure (a key while a close has yet to end, a draft opened from a stale list, ...).
Each property says which slips break it. The slips are constants of a run.

**Screen.** `store` is the main process's, `rows` the list as a read or a key left it, `calls` answers and announcements in order, `gets` the openings.
`live` says that the sequence number a read took is still the newest; `owed` is the history that `Agrees` needs.

**Classifier.** A verdict says which message was read for it and which it is recorded for. `pass` and `redo` are the two loops that await the model.
**CalendarSync.** Google numbers its changes, a token is the number its read began at; an answer comes in two pages.
**Attachments.** All parts have one name, so a path is the number behind it. `file` is the disk, `orphans` the paths for the reaper, `left` the
history of files that the code itself forgets, in five ways: a fetch that lands after its message went, a part fetched twice, a death between a file and its row, a death in a sweep, an unlink that failed.
`writeCached` is `Lands`, or `LandsDies` when the app dies behind the rename; `Unlinks` is what a sweep makes of the paths it took, of which the disk may keep some. The `.part` file of a write that died is left out.
**ReceiptPoll.** Recording a fetch is three actions, since it is three awaits on the service's store (`Reads`, `Puts`, `Indexes`); so is the answer to a
poll (`Lists`, `ReadsEvents`, `Answers`). An event is a message and a time.
**GmailClient.** `window` and `grant` are history: any earlier time and the last reservation, with what had been reserved by then, so that the
promise about every stretch of time is an invariant.
**LocalModel.** A process is the number of its start. `start` is the step of `_start`, `req` what each request waits for. `Healthy` and `Ready` are apart,
because the answer of the health check is handled a turn after it was given.
**ModelDownload.** A file is the sequence of its blocks, a block the version of the file it came from.
**ClaudeRunner.** `client` is the end of the app or of the text tool, `call` the daemon's: a call waits in `queue`, `runs` as a child, or is with the local
model. `doom` is what its child was killed for and not yet exited of. `_pump` is one operator, as it is called from three places; a turn of it brings one
call or frees one place.
**Attention.** `who` is the sender with what the store held of him before, `shelf` the two columns that tell what is ignored; `Context` is `attentionContext`, read when a pass or a sweep begins and used to
its end. Days and tenths of points are integers; what a message asks is a set. `old` are messages dated before the process, `seen` the set of the notifier.
**ClaudeLogin.** `child` and `timer` are the two fields of `ClaudeSignIn`; `overtaken` says that a killed CLI's exit was still to come when the next began.
**Helpers.** A version is a number, a copy a version and whether it is whole. `step` is where the launch and the button are; `met` that one of them began while the
other was installing.
**Setup.** `screen` is the renderer's, `stored` the store's, `replies` the answers to `setStep` and `setDone` on their way; `late` says that the person moved on before a reply came.
**AiConfig.** `file` is config.json, `patch` and `reader` the two read-modify-writes over it, `chosen` the choice made last; `met` that they have overlapped.
**Sidebar.** `disk` is `settings.sidebarLayout`, `arranged` and `lists` the window's copies, `answers` the lists on their way to it, in the order of the calls. A category is its
name, of which the id is the slug, so that a name used again is an id used again; a search has the next number. `Reconcile` is `reconcileLayout` with its folds.
`meant` is history: what was drawn right after the person's last move, without what was deleted since.
**Contacts.** One address. `at` is where a picture of it can be found, `url` the column, `photo` the map of the session, `task` the promise that those who ask share.
**TextReplace.** A flow is what one key or click sets off, its `step` the `await` or delay it is at. The change count of the pasteboard is who wrote to it last.
`keys` are posted and not handled yet, and so are the Cmd+Z of `undos`. `slips` is history: what came between the last look and the paste, or met an older flow.
**Letters.** A document is a sequence of blocks: a word, a blockquote the writer made, the signature with what was typed into it, the history, the image of a
receipt. `box`, `row`, `gmail` and `sent` are the four places a letter may be in; once it is sent, `row` is the copy in `meta_json`. `meant`, `history`,
`files` and `receipt` are history: what the writer wants. One thing happens at a time here; what overlaps is `Composer`'s and `DraftMirror`'s.
**Replies.** `thread` is the store's, `shown` the pane's messages. A list of addresses is a set. The clock starts at the end of an undo window, as
the date of a pending message does.

### Composition

`Outbox` establishes what the two modules above it take for granted: that the row in flight is the oldest open one
(`InflightIsFirst` in `Outbox_proofs`) and that a mask is the same thing as an open row (`MaskedWhileOpen`).
`DraftMirror` and `LabelSync` therefore keep only the open rows, as a sequence, and add the content that `Outbox`
leaves out. `SyncLoop` says when a run happens and with which client, and the others what it does; their `SignIn` and their timer are what
it allows, and its outbox is a flag. `DraftMirror` holds its own view of the send queue, of which `SendQueue` shows that a text comes back at most once; the death between the status and the draft is `SendQueue`'s alone. `Composer` stands above `DraftMirror`: what is a save or a send there is
a call with an answer here. The modules of `MCWorkers` share no state with each other, nor do those
of `MCHelpers` and `MCWriting`; the classifier asks `ClaudeRunner` and `LocalModel` and is answered or not. `ClaudeRunner` leaves out who makes whom wait at the local model, which is
`LocalModel`'s.

## 3. The runs

Ten runs pass.

| Run | Question | Bounds | Distinct states |
|---|---|---|---|
| `outbox` | two modules, see below | see below | 225 thousand |
| `queues` | do snoozes and reminders come back | 1 thread, a day of 2 units, a week of 4, 6 times, 2 keys or changes, 1 deletion, a clock set back by 1 | 219 thousand |
| `drafts` | is anything forgotten in Gmail, does Saving have something behind it, does In Gmail tell the truth, what may an import write | 2 drafts, 2 Gmail drafts, 3 texts, 3 rows, 1 send, 1 reconcile, 1 change in Gmail; one dead token, crash or unreadable attachment, and with one draft that is not sent an error or a refusal | 5.2 million |
| `labels` | do local changes win, do both sides agree once settled, and do they get there | 1 thread of 2 messages, 2 labels, 2 changes here, 2 in Gmail, 1 fault of any kind | 467 thousand |
| `sync_loop` | does a change get there | 2 pages, 3 sign-ins, 2 changes, 2 faults (failed run, expired watermark, restart, Keychain, full batch); sign-outs and dead tokens unlimited | 865 thousand |
| `composer` | is the text somewhere, one draft and one send per letter, no draft written over | 2 letters of 2 versions, a thread beside the panel, 2 sends, 2 rows, 1 change from Gmail, 2 answers on their way; a refused send | 4.9 million |
| `screen` | is the list the store's, does a row come back, is what opens what was asked for; by itself: does a thread fall out of the queues at a boundary | 2 threads, 1 found by a search, 1 change from Gmail, 2 keys, 2 looks, 3 answers on their way; the queues as in `queues` | 4.1 million |
| `writing` | three modules, see below | see below | 7.2 million |
| `workers` | seven modules, see below | see below | 1.0 million |
| `helpers` | nine modules, see below | see below | 148 thousand |

`outbox` checks, each by itself: `Outbox` (`ImplementsOrderedDelivery`, `SettledInTheEnd`; one account, one draft, 4 rows, batch 2, 1 crash, faults unlimited) and `SendQueue`
(`DuplicateOnlyAfterLostAnswer`, `TextInOnePlace`, `LeavesTheQueue`; 2 messages, one with a receipt, 2 attempts each, 2 deaths at any write).

`workers` checks, each by itself: `Classifier` (`Told`, `FiledStays`, `Sorted`; 2 threads of 2 messages, batch 1, a filing, a category, 2 faults), `Attention` (in `Told`; a thread, 2 messages,
a new sender or a client's newsletter, one span of days, one filing, change or deletion, one start),
`CalendarSync` (`CatchesUp`; 2 events, 3 changes, 2 troubles, a sign-out between runs), `Attachments` (`RightBytes`, `Reaped`; 2 parts, 2 fetches of
each at a time, batch 1, 4 names, a message that goes, a death in a sweep or a landing, a file the disk will not give up, a file removed by hand), `ReceiptPoll` (`Collected`; 2 messages, one of this machine,
3 fetches at 2 times, a failed poll), `GmailClient` (`Paced`; a request, a batch of 2, 2 attempts, 4 ticks) and `DraftMirror` under fairness (`SavedInTheEnd`;
1 draft, 4 Gmail drafts, 2 texts, 4 rows, 1 send, 1 reconcile, 1 change in Gmail, and one error, refusal or crash).

`helpers` checks, each by itself: `ClaudeRunner` (`Gate`, `Served`, `ChildrenHold`; a fix, an edit and a classification over a chain of two models with one place,
a death of the daemon), `LocalModel` (`Answered`; a fix, a classification, 3 processes, a death, an idle stop) and `ClaudeLogin` (3 sign-ins), both in `ChildrenHold`; in
`KeptHolds` `ModelDownload` (3 blocks, 3 stops, a new version), `Helpers` (2 versions, a failed call, a crash), `Setup` (8 moves), `AiConfig` (2 patches, 2 starts, a quit) and `Contacts` (a request without an answer, 3 sign-ins, sign-outs or starts); `Sidebar` (`Arranged`;
2 groups, 4 builtin rows of 2 editions, 2 categories, a search, 3 moves, a start).

`writing` checks, each by itself: `TextReplace` (`PastesOver`, `ClipboardIsTheUsers`, `EscapeWorks`; a readable application, a web view, a terminal, 1 text, 2 flows,
2 selections, copies or restarts), and in `MailIsRight` `Letters` (a new letter, a reply, a forward or a draft begun in Gmail, with and without a signature; 2 words,
2 changes in Gmail, reopened twice) and `Replies` (two of the owner's addresses and two others, 16 first messages, another that arrives, 2 answers, 4 times).

Two more, `queues_jam` and `sync_stale`, show disagreements between the code and what its comments say (section 6). `sync_stale` is `sync_loop`'s instance, in which a request holds the client of an earlier sign-in.

Type invariants and the other invariants that are proved for every instance (section 4) were checked on these instances too and are no longer part of the runs.

### What the conditions of the properties mean

* `TiesHold` is `NoStrayDraft` and `LinkedOnce`, `StateIsTrue` is `SavingIsBacked` and `SyncedIsMirrored`. `SavingIsBacked` excepts a dead token, and a second reconcile after a send (section 6), `ImportBringsNews` lost answers and restarts, `LinkedOnce` and the two before a message that is sent while
  a reconcile may be under way (`SentAndListed`), `SyncedIsMirrored` also changes made in Gmail, which the program cannot know before it asks.
* `SidesMatch` is `LabelsAgree`, `NothingMissing` and `NoGhosts`. `LabelsAgree` and `Converges` except the faults after which a run forgets which threads it owes a fetch (`Forgetful`); `NothingMissing` excepts a
  restart only, `NoGhosts` an expired watermark only.
* `LetterIsOne` is `OneRowEach`, `SentOnce` and `SentHasNoDraft`. These, `TextKept` and `RowsStayTheirs` of `Composer` name the slips they except; section 6 lists them. The run has one of them, a refused send (`Slips = {"refused"}` in `MCComposer.cfg`): what it checks is every order
  of saves, timers, closes, parks, sends, undos and imports in which no key, second Send or other box comes before a close or a send has ended.
* `Agrees` of `Screen` excepts a list of which a read was dropped by a key, and some others that `owed` names, until the next read.
* `Told` is that of `Classifier` and `Attended` of `Attention`: what needs an answer was asked and not answered when it was decided, a filing keeps its split, a message has at most one banner; of the first it excepts a
  thread that lost a message (`cut`). That an important message has its banner is `BannerInTime`, which the code does not keep.
* `FiledStays` excepts a pass that had read its work before and a new category; `CatchesUp` a sign-out during a read.
* `TextInOnePlace` excepts the turn that has yet to put a draft back, and a process that died in it (`torn`), as `DraftIsBack` does not.
* `RightBytes` excepts a file removed by hand, `Reaped` the files that `left` names (the five ways above), `Collected` the fetches that `missed` names.
* `ChildrenHold` is `Owned` of `LocalModel`, `KilledIsCancelled` of `ClaudeRunner` and `OneLogin` of `ClaudeLogin`, which excepts a sign-in begun before a killed one had exited (`overtaken`).
* `KeptHolds` is `KeptIsCurrent` and `InstallHolds` of `Helpers`, `Whole` of `ModelDownload`, `Resumes` of `Setup`, `ChoiceHolds` of `AiConfig` and `NothingIsNothing` of `Contacts`; `Arranged` of `Sidebar` stands by itself. `InstallHolds` excepts an install button
  pressed during the update of a launch (`met`), `Whole` a file that changed on the server, `Resumes` a reply that comes after the person moved on (`late`) and an account that is signed in, `ChoiceHolds` a daemon
  or an app that writes while the other is between its reading and its writing (`met`), `Arranged` an id that is used again, a start that could not read a list and two additions
  at a time (`slips`), `NothingIsNothing` a request without an answer and a lookup while nobody is signed in.
* `ComesBack` excepts a moment at which a due row refers to a thread that is gone.
* `PastesOver` excepts what happens between the last look and the paste (40 ms, or a read by Cmd+C), a host slower than the deadlines and a second flow
  (`slips`); `ClipboardIsTheUsers` the last two, a copy during a read and a quit; `EscapeWorks` is `StoppedStays` and `EscapeFits`, of which `StoppedStays` excepts a `claude` that starts after Escape.
* `MailIsRight` is `SaysWhatWasWritten` of `Letters`, `Reaches` and `ShownOnce` of `Replies`. `SaysWhatWasWritten` excepts, for the text, a blockquote the writer made, words put into
  the signature in Gmail and its plain text mode; for the files a box moved to another message, an import and a failed send; for the receipt a draft from Gmail that is opened again. `Reaches`
  excepts a note to oneself and a Reply-To that is the owner's, `ShownOnce` a message that takes longer than fifteen minutes and messages of the owner within a minute.
* `LiveIsWholeAtFirst` excepts every sign-in after the first. `NextRun` and `PokeHonoured` leave
  out the moment between the token and `refreshOwners`, at whose end the handler pokes.

Each exception stands for a disagreement in section 6, where the constants that show it are given.

### Why these bounds are enough

* Order and overtaking need an earlier and a later row of one account and something in between; a lost answer and a restart
  need the earlier one to be open again while the later one is ready. Four rows and a batch of two make a drain stop with work left and hold
  a label change and two mirrors of a draft. Accounts share no row, and the proofs cover any number of them.
* Two deaths let the second fall into the recovery from the first. A duplicate send needs two attempts; that two ticks or an undo interfere needs a second message, for which the tick is
  awaiting Gmail.
* A draft that is imported while another is sent needs two local drafts and two in Gmail; a lost update needs three texts
  (the old, the newer, the one in flight).
* Labels need two labels so that two changes of one thread are independent or not, and a second message that arrives
  later so that a fetch is needed. `FetchAttempts` is 3 (5 in the code) with at most two faults, so a thread is never
  given up in these runs; giving up is a deliberate loss.
* A client can be two tokens old with three sign-ins. Two pages give a backfill a middle. Two faults let a run fail before or after the
  Keychain refuses or the process restarts.
* Queues need a day and a week boundary each crossed twice, by an activity in time, late and after a clock was set back: six times and a week of
  two days hold that. Threads do not interact but through a tick that throws, which `queues_jam` shows with a thread and a message.
* Two letters let one box take the other's row; two versions let a save be older than the box; two answers on their way can be out of
  step with a third step that waits.
* Two rows and two reads tell a stale list from a fresh one; three answers hold a read, an action and an announcement.
* Two flows let one be older than the other; two moves let the user turn away and select or copy there.
* Two words have an order; two changes in Gmail move a block and write behind it; a draft that is reopened twice is split again after it was put together again.
* Two answers let one be taken for the other; four times hold a message older than a minute and one given up. `Near` and `Keep` keep the order of the minute and the fifteen.
* `ClaudeRunner` needs one call of each route and one place fewer than calls, so that a queue forms; a chain of two has a step down.
* `LocalModel` needs as many processes as requests can ask for (two per fix, one per classification); `GmailClient` a deficit that a
  second call meets, a pause, and a retry.
* `Sidebar` needs a builtin of a later edition behind, before and without a row it names, a row that goes and comes back, and two creations on their way: three moves and a start after them.
* `Helpers` needs an app that is newer than what runs; `AiConfig` two choices, so that one can be undone.
* `CHECK_DEADLOCK FALSE` stands in the runs whose counters can be used up with nothing left to do: drafts, queues, composer, screen, writing, workers and helpers. The
  other runs check for deadlock.

### Fairness

Fairness is stated on the program's own timers and on calls, never on faults or on the user.

* Outbox and labels: the poll timer of an account is always set again in the `finally` of a run, so a run starts; a run
  goes on because the transport gives up on a silent server; a backoff is a time that passes. `SignIn` is not fair:
  `SettledInTheEnd` speaks of an account that stays signed in.
* Send queue: `setInterval` ticks; a tick settles each of its rows one way or another; a turn that is half done goes on to its end while the process lives. That a tick reaches `releaseSends` is assumed: a row that throws
  earlier in it breaks that, which is the run `queues_jam`.
* Sync loop: a timer that is set fires, calls end one way or another, and the Keychain answers again some day. A sign-in, a sign-out and
  a poke by the user are not fair. `Delivered` speaks of an account until it is signed out or expired.
* Drafts: the debounce timer fires, the run comes round, calls end.
* Queues: the program stays up; its tick comes often in every unit of time, and time passes its old peak again, however often the clock is set back. Keys and mail are not fair. Composer and Screen: safety only.
* Classifier: the tick, the end of the pause, and a pass that goes on (the model answers or its timer does). Calendar: a run starts, goes on and lands.
* Attachments: every path has its turn, since a sweep takes the oldest ones. Receipts: the poll comes round and its calls end; a fetch of an image is not fair.
* ClaudeRunner: a call that runs ends by its timer, one that waits has its turn, a request to the daemon or the local model is answered or times out (`Works`). Deaths and cancellations are not fair.
* LocalModel: the loop of `_start` ends by its deadline, requests by their timers, the gate opens to those who wait. Loading and exits are not fair.
* TextReplace: each step of a flow has a timer or a deadline. The user and the other applications are not fair. Letters and Replies: safety only.

## 4. What is proved

All proofs are checked by TLAPS. They hold for every value of the constants that satisfies the named assumptions of the
modules, hence for any number of accounts, drafts, rows, messages, attempts and crashes, and any batch size. The assumptions say that bounds
are numbers, that a set is finite where the code goes through all of it, that a "nothing" is not one of the things, and:

| Assumption | What it says beyond that | Where the code has it |
|---|---|---|
| `DraftsAssumption` of `Outbox` | a draft has one account | `drafts.account_id` |
| `MailAssumption` of `LabelSync` | a message has one thread; a change does not add and remove one label | each caller of `modifyThreadLabels` names fixed labels |
| `SendQueueAssumption` | the messages whose receipt was armed are messages | `compose:send` arms at the enqueue |
| `ConcurrencyAssumption` of `ClaudeRunner` | at least one place | `claude.mjs:103`, the minimum of 1 |
| `QueuesAssumption` | a day, a week, the gap and every wait have a length, the boundary lies within a day; the clock starts more than a week, a day and a set-back from zero, and is set back by less than a week | `day-boundary.ts`; the clock counts from 1970. The last is the one thing asked of the user's clock |
| `SyncLoopAssumption` | a mailbox has at least one page | `threads.list` answers with a page even when it is empty |
| `ScreenAssumption` | the hits of a search are threads | |
| `ComposerAssumption` | the slips are of the named kinds; the panel is no thread | |
| `WorkersAssumption` | what an `Attention` sender is (own, bulk, automatic) is known; rate, sizes, costs and attempts of `GmailClient` are positive | `client.ts`, the constants at its head |

**Outbox** (from `AccountsAssumption`, `DraftsAssumption`, `BoundsAssumption`).

* `TypeCorrect`, `MaskCorrect`, `NoLostRow`, `Order`: types, masks, no row left in flight, nothing overtakes.
* `NoRegression`: Gmail never goes back to an older change.
* `Refinement`: `Spec` implements `OrderedDelivery`. The lemma `StepRefines` maps each action: `GmailApplies` is a delivery, `Ack` a
  confirmation, a failure for good a refusal, a skip or a dropped mirror a withdrawal, all else a stutter.

These invariants are not inductive by themselves. That nothing overtakes follows from where the drain is, so the inductive
invariant `IInv` adds:

* `RowsAreMade`: a row that exists has an owner, and `tip` is a row that exists;
* `RunsOnlyWhileUp`, `JobMatchesPc`: the locals of a drain fit its `pc`, and a process that is down has none;
* `InflightIsFirst`: no earlier row of its account is open while a row is in flight;
* `AppliedIsTip`: once Gmail has applied the job, `tip` is the job;
* `AckedIsDone`: what was acknowledged is done and stays so.

A lost answer puts a row Gmail has applied back to pending. It is still the oldest open row of its account, so nothing can be
applied before it is repeated: `NeverOvertaken` and `NoRegression` rest on this.

**SendQueue** (in `Outbox_proofs`, from `SendQueueAssumption`).

* `SendTypes`, `NoStuckSend`, `NoDuplicate`, `UndoWorks`: the invariants.
* `TextKept`: the draft is back exactly when the message will never go out, but for a turn that has yet to put it back or in which the process died. `Receipts`: an armed receipt belongs to a message that may be delivered or is out,
  to a turn that has yet to drop it or died before it did, or to a message a start found in sending.
* `Final`: what is sent, failed or cancelled stays so.

The strengthening has five parts. `OnlyWhileAwake`: the tick and the turn have locals only while the process runs. `InTurn`: what a turn has yet to put back, and what a death kept from it, is out of the queue, and nothing is put back once
a death has come between; with it the status is never written twice for one return, so a draft comes back at most once. `BatchHasTries`: what the tick still has to
release has attempts left. `Settled`: no more answers were lost than messages accepted, and of a message that is queued or cancelled every acceptance
is a lost one. `OnItsWay`: the message under way was accepted once more than answers were lost exactly when Gmail has taken it and the answer is still
to come. `NoDuplicate` and `UndoWorks` follow from the last two.

**DraftMirror** (in `Workers_proofs`, from `FaultsAssumption`).

* `Ties`, `StatesAreTrue`: `TiesHold` and `StateIsTrue`; `ImportsBringNews`: the action property; each under the conditions section 3 gives. Without any is only that nothing is forgotten in Gmail (`NoStrayDraft`). For any number of drafts, texts, rows, sends, reconciles and
  changes in Gmail, and faults of every kind.

Five actors write to the same rows, and what one of them is about to do was read before the others moved. So the invariant has a part for each thing that was
read and is used later, with the condition under which it is still true:

* `CallKnown`, `AnswerKnown`: only the first row is ever in flight, the call is about it, and its draft, if it is still there, has the tie the call was begun with;
* `NoneForgotten`: a copy in Gmail has a draft, a message that is not out, a row that deletes it, or is the answer to a create that is still to come (`NoStrayDraft`, with that answer named);
* `TiedOnce`: as long as no send and reconcile overlap, a Gmail draft belongs to one draft or one message;
* `SeenIsTied`, `SeenIsFirst`: what the reconcile has listed is tied as it was, and its import goes to the row it decided about. The second needs that no second reconcile comes after a send: this is
  where the proof failed at first, and `SavingIsBacked` was false (section 6);
* `WaitsOnce`, `CallIsAlone`, `RowsCurrent`: one row waits for a draft, nobody else writes to where the call writes, and what waits or is on its way is what the draft reads, once
  its debounce is over. `SyncedIsMirrored` follows when the answer comes;
* `RevsKnown`, `FetchIsNews`: a tied draft knows the app's last write, so a revision it does not know was written in Gmail. `ImportBringsNews` follows.

The last five hold while no call is repeated and the process lives (`Calm`), and the findings show that each breaks without that. Rows are taken out of the outbox by position; that what is left lies in
the order it had (`RowsKept`) is proved by the least position at which it would not, as there is no induction over data.

**SyncLoop** (from `SyncLoopAssumption`).

* `TypeCorrect`, `AlwaysTimed`, `NoOldClient`, `NoLostPoke`, `NoLateRetry`, `FirstBackfill`: the invariants.

Three facts make them inductive. `FlowIsForOthers`: while the browser is open the account is not signed in, so giving up needs no timer. `RunHistory`:
what is fresh is still in the outbox, so a run that finds the outbox empty passes nothing over. `PagesBehind`: the pages behind the cursor are read, which
carries a backfill over failures and restarts.

**Queues** (in `Screen_proofs`, from `QueuesAssumption`: any lengths of days, weeks and waits; the clock may be set back, by less than a week).

* `DaysTypes`, `DaysBehind`, `WeeklyYoung`: the days begin behind the last activity; nothing stays in Weekly 0 for a second week.
* `NoneDropped`, `NoReplyTrue`: the action properties. The first needs that both boundaries move together with the rollover, the second that a reminder that
  fires has just looked at its thread.

**LabelSync** (from `MailAssumption`).

* `LocalChangesWin`: `LocalWins`, for any threads, messages, labels and changes, and faults of every kind. It is inductive with the types of the four variables it
  speaks of and one fact about the drain: a row under way is in the outbox. The lemmas say what lets a step keep it: labels laid over the open rows twice are laid over them once
  (`Twice`, for the threads fetched whole), nothing is laid over a thread without an open row (`Unmasked`, for history), a new row is laid over at once (`OneMoreRow`, `AnotherRow`),
  and the row that leaves is the oldest, which decides only about labels no other row touches (`OneRowLess`). So it rests on the order of the outbox: with a younger row leaving first it would fail.
* `BothSidesMatch`: `SidesMatch`, for the same. It speaks only of a moment when the program has caught up, and at such a moment nothing tells why the sides agree. The invariant `SInv` says of every
  moment where each difference will be settled: beyond the mark up to which the history was read, in a thread that is still to be listed or fetched, or in one to be read again after its acks. A step
  makes a difference (Gmail's, with its entry in the history; a change made here, with its row), settles some (`HistoryTrue`, `ThreadsLandTrue`), or moves neither (`NothingMoves`).

**Screen** (from `ScreenAssumption`).

* `ListAgrees`: `Agrees`; `NoRowReturns`, `OpensWhatWasAsked`: the action properties. For any threads, hits of a search, keys, news and answers on their way.

`Agrees` speaks of the moment when nothing is on its way. The invariant says what the calls on their way will do: at most one read will be taken (`Single`, from the sequence numbers), and it brings the list
as the store has it, or news is behind it that makes the window read again (`Fresh`); so the rows are right or become so (`Right`). `OfView` says the same only of what a key took away, and holds also where
`owed` lets the list be out of date. `Asked`: the opening whose number is newest is the one asked for.

**Composer** (from `ComposerAssumption`).

* `ComposerTextKept`: `TextKept`; `ComposerRows`: the action property `RowsStayTheirs`; `ComposerLetters`: `LetterIsOne`, from `ComposerOneRow`, `ComposerSentOnce` and `ComposerSentHasNoDraft`. For any threads, letters, versions, sends, rows, changes from
  Gmail and answers on their way, each while none of the slips that it names happened.

A save that creates a row tells the box its row only with the answer, so what a letter is depends on what is on its way. A step is of one of sixteen kinds by what it does to that (`Kinds`): it waits for
a save, closes, collapses, writes, posts, hears an answer, and so on. The lemmas `...Kind` show this of each action once, and every invariant after that is shown of kinds and not of actions.

* `Base`, with `Boxed` and `Named`: what is saved, closed or sent while a box is open is that box; and there is a function from rows to letters that the table, every list of it that is on its way and every call agree
  with. Where a save creates a row the function grows. `ComposerRows` follows: two saves of one row are of one letter.
* `Alone`, for `OneRowEach` and `SentOnce`: a letter is in one row, or one message, or one send on its way (`Sole`, `Outside`); the rows of the open letter are the box's own, counting the row a save on its way
  creates (`BoxAlone`); and who closes or sends a box is the last in line (`Turns`), so nothing saves the box after it was emptied.
* `Ends` and `Separate`, for `SentHasNoDraft`, which holds even where a letter is typed on while it is sent and so `Turns` does not: a *text* lies in one row, counting the rows it could still be written to (`Lives`), and one that was
  sent or is being sent lies in none and cannot come back to one (`Parted`, `Gone`).
* `Found`, for `TextKept`. That a text is in a row says nothing of the next step, which may write or delete that row. So a text is called safe (`Safe`) in the queue, or in a row that neither the open box nor anyone who ends it
  can still reach (`Touched`); and every owed text is safe, or the text of the open box, or with one who waits to save it (`Accounted`). The rest says why the step that takes the box away leaves it safe: those who wait hold the box
  as it is (`SameEnds`), the row they would write to is there (`BoxInTable`, `EndsInTable`) since an update of a row that is gone saves nothing, a box that is thrown away holds nothing owed (`Dropped`), and a box that is sent has
  its text with the send (`PostedSafe`). `SavesNews` is for Gmail's version of an open draft: while a save is on its way the box differs from what was saved before, so what is taken over finds nobody waiting.

The proof found one place where the model was less than the code: a list that brings Gmail's version into the open box replaces the whole text (`adoptDraftChange`), where the model had replaced its version only. The two agree in every state
without slips, as the proof shows.

**TextReplace** (from `TextReplaceAssumption`).

* `PasteIsOver`: the action property `PastesOver`; `ClipboardStays`, `EscapeEnds`: `ClipboardIsTheUsers`, `EscapeWorks`. For any applications, texts, keys, clicks and moves of the user.

The invariant follows one flow at a time (`Alone`). A key on its way belongs to a flow that waits for it (`KeysFit`), so what the flow knows at its step (`PasteOf`) holds until the application handles the key.
`ClipOf` says at each step where the user's clipboard is: on the clipboard, or put away, to be put back while what is there is the tool's own. These hold up to the slips the properties name.
`StoppedFits` and `GensFit` hold without exception: what was stopped has no answer, a busy flow has its number alone, and Escape is armed only while the flow of the newest number is busy.

**Classifier and Attention** (in `Workers_proofs`, from `WorkersAssumption`).

* `AllTold`, `FilingStays`: `Told` and `FiledStays`, which say less than that everybody hears of everything: a banner comes at most once, a new category decides anew. What was decided and not told of is among the threads a run that goes on has touched, and it tells of those at its end, however it ends.
  What a pass has before it is filed by hand only since it read its work (`late`). Of `Attention`: the messages of a thread lie in the order they came (`InOrder`), a thread that waits for an answer has the asking
  message as its last, and who was told of a message was told in this start or holds one from before it (`ToldOnce`).

**Attachments and GmailClient** (in `Workers_proofs`).

* `Bytes`: `RightBytes`, as long as no file was removed by hand, with `OrphansWait`: a path that waits for the reaper still holds its file, and no row names it, so it cannot be given away before the reaper has taken it.
* `Pace`: `Paced`, for any costs, sizes, rates and attempts. It says what was granted, not what is in the bucket; the strengthening `InBucket` says that what was reserved
  since the window opened is never more than what the bucket lacks now: `reserved - window.sum + tokens` is at most a full bucket and what came in since. The multiplication of
  rate and time is kept to lemmas.

**Helpers** (`Helpers_proofs`, from `ConcurrencyAssumption`, `CallsAssumption`, `BoundsAssumption`).

* `OneGate`: `Gate`, for any calls, chains and numbers of children. Never more children than places, the queue holds who waits and nobody else, once each, and nobody waits before
  a free place. It is inductive with the types of what it speaks of. The lemma `PumpKeeps` says what one turn of `_pump` makes of any queue, so each of its three callers only has to show what it hands over.
* `Children`: `ChildrenHold`. With `StartIsAlone` (whoever spawns a llama-server has no child, and a start under way has its own or none), `KilledStays` (a call whose child was killed for its caller
  ends as cancelled, by whichever way it goes on), and that without an overtaking sign-in no killed CLI is still to exit while another is under way.
* `Keeping`: `KeptHolds`, from an invariant of each part. `Helpers`: whoever started the version of the app runs it or nothing does, and as long as no two installs met, the tool is stopped while it is copied. `ModelDownload`:
  while the server has its first version, so has every block. `Setup`: the last reply on its way, or without one the screen, is what is stored. `AiConfig`: as long as neither process reads during the writing of the other, what either
  is about to write differs from the file only in what it means to change. `Contacts`: what was recorded as missing is missing, or its trouble was one the property names.

In `MCWorkers` and `MCHelpers`, which put several systems beside each other, a step is one of each part or leaves it alone (`OneOfEach`), so every part has its own invariant, and the theorems are
about the specification the run checks. For `MCOutbox` and `MCScreen` they are about the specification of the part.

**Only model-checked.**

* Liveness under fairness (`SettledInTheEnd`, `LeavesTheQueue`, `SavedInTheEnd`, `Converges`, `Delivered`, `ComesBack`, `Sorted`, `CatchesUp`, `Reaped`, `Collected`, `Answered`, `Served`) is outside what the prover handles.
* `MailIsRight` of `Letters` and `Replies`, and `Arranged` of `Sidebar`: their operations are folds, selections and concatenations of whole sequences, whose values for every input take an induction over data.

## 5. What is not modelled

* The content of texts, subjects, people, the search index. A draft of `DraftMirror` is one text; what is in it does not decide what happens to
  it, and `Letters`, which looks into it, has one draft and one thing at a time. Line breaks and markup are left out there.
* Of the accounts: the clients file, identities, and the repair of accounts an earlier version signed out. Whether the window is focused chooses between
  two polling intervals, which are one delay here.
* Deaths inside a turn where section 2 does not name them: in `DraftMirror` the return of a draft and the release of a message are whole turns, what a death in them leaves behind is `SendQueue`'s. The `.part` file of an attachment, a
  torn write of `config.json`, and statements of SQLite that fail.
* The very first activity of `Queues`, which is its initial state, and the log of clears, which feeds two counters.
* In `Composer`: a `drafts:save` that fails, reply modes, recipients and files, of which `Letters` and `Replies` hold some. In `Replies`: what a message refers to, a send for later. In `Screen`: paging, counts, queues and reminders on screen.
* Rules and prompts of the classifier: what they answer is an input, as are the words in which something is asked. Attendees and times of events.
* What the app makes of an answer of a model, the pages of Claude's sign-in, the formats of plists and config files. Of the pixel service the grading of a fetch.
* The access token of `GmailClient`: the first 401 of a request is a retry. A batch that meets a 401 is not tried again (`client.ts:235`), nor is a request
  on a later attempt (`client.ts:193`); a clock that is set forward fills the bucket.
* Parsing and building of MIME, ICS, search queries and prompts, the drawing of mail, settings, palette and key table, windows and menus. Most lines of the repository are of this kind: functions of text and layout that one unit test each can pin down, and
  that no interleaving reaches. They are why the share of modelled lines stays small.
* Of the text tool: rich hosts, line-copy editors, Markdown and lists, the chain of models, the grant of Accessibility, drawing.
* Labels the user creates and their names (`LabelResolver`).
* A message deleted in Gmail together with its whole thread while the watermark was expired: nothing can reveal it to the program.
  `NoGhosts` therefore excepts an expired watermark.

## 6. Findings

Behaviours of the code that a comment or the README of the repository rules out, each found by TLC. Two have a run of their own.

| Run | Property | What happens |
|---|---|---|
| `queues_jam` | `SendsLeave` | The last message of a snoozed thread is deleted in Gmail: the due snooze throws in every tick (`scheduler.ts:197`), before sends are released |
| `sync_stale` | `OnlyTheDeadExpire` | A run, a send or a fetch that holds the client of a token that died expires the account after its new sign-in (`sync.ts:203`, `accounts.ts:131`), where `auth-state.ts:9` says that the refresh token is dead |

The others are shown by the same modules with the constants below, as the only property of a run; constants not named are `MaxDrafts = 2`, `MaxGmail = 2`,
`MaxTexts = 1`, `MaxRows = 3`, `MaxFaults = 1` and 0 for the drafts, and those of `labels` with one change here and one in Gmail for the labels.
The passing runs check the conditional form, where there is one.

Outbox, sends, drafts, labels and accounts:

| Property | Constants | What happens |
|---|---|---|
| `NeverSentTwice` | as in `outbox` | After a lost answer a send is not terminal and goes out again (`scheduler.ts:273`), where `queries/scheduler.ts:155` calls a duplicate worse than a visible miss |
| `DraftIsBack` | as in `outbox` | The status is written before the draft: a death in between (`scheduler.ts:266`, `compose/queue.ts:143`, and the recovery itself, `scheduler.ts:120`) leaves the text in no list, since no start looks at a row that is failed or cancelled, where `scheduler.ts:119` says to put the drafts back |
| `TextKept` | `MaxSends = 1`, 2 texts, `Faults = {}` | A mirror in flight when the user sends queues the deletion of the Gmail draft (`mirror.ts:169`); undo ties the text to it and it goes |
| `TextKept` | `MaxLists = 1`, 2 texts, `Faults = {}` | A discarded draft is imported again before its delete drains (`mirror.ts:118`), and an edit of it is lost with the delete |
| `LocalWinsAMinute` | `MaxLists = 1`, `MaxRemote = 1`, 3 texts, `Faults = {}` | The reconcile overwrites an edit made while it awaited Gmail (`mirror.ts:318`) |
| `ImportBringsNews` without its condition | `MaxLists = 1`, 2 texts, `Faults = {"error"}` | A write whose answer was lost is taken for an edit made in Gmail (`mirror.ts:313`) |
| `OneDraftOneGmail` | `MaxLists = 1`, `MaxSends = 1`, `MaxRemote = 1`, 2 texts, `Faults = {}` | A draft sent while the reconcile awaits is imported again (`mirror.ts:289`) |
| `TextKept` | `MaxSends = 1`, `Faults = {"attachment"}` | An attachment that cannot be read stops a send after the draft row is gone (`mirror.ts:146`), where `mirror.ts:137` says a refused send leaves the draft where it was |
| `InGmailIsInGmail` | 2 texts, `Faults = {"crash"}` | An answer marks the row synced while its newer text is in the debounce; after a crash it reads In Gmail (`mirror.ts:175`) |
| `NewestLast` | 3 texts, `Faults = {"error"}` | After a retry the newer text goes into the older of two mirrors, and the older text is written last (`outbox.ts:86`) |
| `SavingIsBacked` without its condition | `Faults = {"auth"}` | A dead token fails the row, the draft reads Saving with nothing behind it (`sync.ts:387`) |
| the same | `MaxDrafts = 3`, `MaxGmail = 1`, `MaxLists = 2`, `MaxSends = 1`, `MaxRemote = 1`, 2 texts, `Faults = {}` | A draft is sent while the reconcile awaits: its Gmail draft is imported as a second row, and an undo ties the first to it again. The next reconcile drops the mirror of the row it found last (`mirror.ts:315`) and imports into the one it finds first: the other reads Saving until it is edited |
| `SidesAgree` | `Faults = {"reread"}` | The read after the ack fails and is not made up for (`sync.ts:412`) |
| `SidesAgree` | `Faults = {"refused"}` | A refused change lifts the mask and its thread is not read again (`sync.ts:381`) |
| `AllHere` | no change here, 2 faults, `Faults = {"part", "crash"}` | A thread to be fetched again is forgotten by a restart (`sync.ts:63`) |
| `DeliveredAgree` | 2 changes here, `Faults = {"auth"}` | A dead token skips the read after the acks before it (`sync.ts:400`) |
| `RetriesEnd` | `FairSpec`, `MaxRemote = 2`, `Faults = {"part"}` | A thread deleted in Gmail is asked for on every poll (`sync.ts:289`) |
| `RetriedEnough` | `FetchAttempts = 2`, `Faults = {"part"}` | Attempts count the first failure, so five are four retries (`sync.ts:293`) |
| `LiveIsWhole` | `SyncLoop` as in `sync_loop` | A sign-out or a dead token in the middle of the first backfill, then a sign-in: the account is live (`accounts.ts:158`) and its missing pages are never listed |

Queues, the window and the workers:

| Property | Constants | What happens |
|---|---|---|
| `DailyHoldsTheNight` | as in `queues` | The first activity of the morning moves the mail of the night to Weekly 0, where `README.md:45` says Daily 0 holds it |
| `TextKept`, `OneRowEach`, `SentOnce` of `Composer` | `Slips = {"typed"}` | A close and a send take the box as it is and then wait for the save in flight: keys typed meanwhile are lost |
| `KeptIsKept` of `Composer` | as in `composer`, no change from Gmail | A send is refused over a file that cannot be read, after the row is gone (`mirror.ts:146`, where lines 136-139 say a refused send leaves the draft where it was); closing the box shows DRAFT KEPT and nothing is kept |
| all of `Composer` but `KeptIsKept` | `Slips = {"opened"}` | A box opened while another is being closed takes its row or is emptied by its end (`store.ts:1436`, `store.ts:1496`). With `{"typed", "again", "opened"}` it is even the row of the next letter: a Send ends and empties the box while a close of the keys typed after it still waits for an autosave, and that close then saves them under the `autosavedDraftId` of the letter begun meanwhile |
| `OneRowEach`, `SentOnce`, `SentHasNoDraft` | `Slips = {"again"}` | Nothing stops a second Send while the first one waits |
| all of `Composer` | `Slips = {"strip"}` | The save of a docked reply is not one of those a later step waits for |
| `TextKept` | `Slips = {"over"}` | A saved draft opened over a docked reply drops what was typed there (`store.ts:1354`) |
| `TextKept`, `SentOnce`, `SentHasNoDraft`, `KeptIsKept` | `Slips = {"stale"}` | A draft reopened from a list that is behind the table is older than its row, or was sent; with `MaxRows = 3` also `OneRowEach`: sent twice from such a list and undone twice, it has two rows |
| `TextKept`, `KeptIsKept` | `Slips = {"gone"}` | A save of a box whose row was dropped updates no row and reports success (`queries/drafts.ts:33`) |
| `TextKept` | `Slips = {"adopted"}` | Gmail's version of an open draft replaces keys that are not saved yet |
| `PaneIsThere` | as in `screen` | A thread deleted while it opens stays in the pane (`store.ts:1611`): the refresh is skipped during an opening |
| `SearchStays` | as in `screen` | A page asked for before a search takes the place of its hits (`store.ts:681`) |
| `ManualStays` | as in `workers` | A new category decides again what was filed by hand (`pipeline.ts:362`), where `pipeline.ts:209` says it stays |
| `Promise` of `Attention` | as in `workers` | A message that asked is scored by a sweep before its pass and then deleted in Gmail: Needs you stays on a thread in which nothing is asked (`queries/classify.ts:33` compares the last message only) |
| `BandIsOfToday` | as in `workers` | A score is of the day of its verdict: days later the waiting, the sender's habits and re-files weigh otherwise and nothing is scored again, where `attention.ts:38` grades the days |
| `BannerInTime` | as in `workers` | A pass that decides a new thread important does not ask the notifier (`pipeline.ts:339`), where `notify.ts:10` says it gets its banner that moment |
| `BannerIsNews` | as in `workers` | So the banner comes with the next read of the thread, such as the one after the user's own answer |
| `DemotedFromImportant` | as in `workers` | Every filing under Other lowers the sender's next score, also of a thread that was not Important (`queries/attention.ts:220`), where line 212 counts those taken out of Important |
| `OneAtATime` | as in `workers` | A pass and a reclassification ask the model at the same time, where `pipeline.ts:2` says never |
| `ReadForIt` | as in `workers` | A message that lands while the model reads the one before it is recorded as read |
| `SignedOutIsEmpty`, `Mirrored` of `CalendarSync` | `Interrupts = TRUE` | A read that is under way at a sign-out writes the events and the token back (`misc.ts:190`) |
| `NothingLeft` | as in `workers` | A fetch that lands after its message went, a part fetched twice, a death between a file and its row, a death in a sweep and an unlink that fails (`cache.ts:117`) each leave a file for good, where `db.ts:187` says that deleting the message must not |
| `SweepIsHarmless`, `RightBytes` without its condition | as in `workers` | A file removed by hand and fetched again has the path its old row left to the reaper (`queries/attachments.ts:54`), or shares it with another part |
| `NothingPassedOver` | `ReceiptPoll` as in `workers` | A fetch that is recorded after a later one, or between the two reads of an answer, is behind the watermark (`poller.ts:11`) |
| `NothingOverwritten` | `ReceiptPoll` as in `workers` | Two fetches of one message at a time: the second list overwrites the first (`cloudflare.mjs:19`), where `worker.mjs:31` says every fetch must reach it |
| `Collected` | `ListMax = 1` | Keys are listed without a cursor (`cloudflare.mjs:26`): behind a thousand old ones no new fetch is ever seen |
| `ReadyHasChild` | as in `workers` | The answer to a health check is handled after the exit of its process: ready, with no process, until the idle stop (`local.mjs:89`) |
| `PicksUp` | as in `workers` | A part that was whole when its run stopped asks for the bytes behind the end and is refused for good (`download.ts:124`) |
| `OneVersion` | as in `workers` | The range is asked for without `If-Range`: half of an old file and half of a new one are installed (`download.ts:92`) |
| `OneLogin` without its condition | as in `helpers` | A sign-in that begins before the cancelled one has exited loses its slot and its timer to that exit (`signin.ts:62`), so that a third start runs two CLIs, where `signin.ts:28` says one at a time |
| `Resumes` without its condition | as in `helpers` | Run setup again with a signed-in account is done again at once: the reply carries the last step (`ipc/onboarding.ts:114`), where `Settings.tsx:147` says the setup starts at the first one |
| `InstallHolds` without its condition | as in `helpers` | The update of a launch and the Install button copy to one staging directory; a crash between the removal and the rename loses the tool |
| `ChoiceHolds` without its condition | as in `helpers` | The daemon saves its port with all it had read before: an AI choice made meanwhile is undone, and the other way round |
| `EscapeIsNo` | as in `writing` | Escape stays armed until the paste: pressed between the answer and the paste it shows Cancelled, and the text is replaced (`InFlight.swift:45`), where the tool's `README.md:17` says it cancels a call in flight |
| `NoCommand` | as in `writing` | The user turns to a terminal in the 40 ms between the last look and the keys, and Cmd+V goes there (`Replacer.swift:200`), where `HostPolicy.swift:22` says a paste into a shell is a command |
| `PanelIsItsOwn` | as in `writing` | A panel opened after a slow read takes the selection the toolbar shows meanwhile: Return edits that one (`AppDelegate.swift:207`) |
| `CanBeStopped` | as in `writing` | A click on the toolbar during a call takes Escape from it for good (`InFlight.swift:31`) |
| `ClipboardIsTheUsers` without its condition | as in `writing` | A second flow, a host slower than the deadlines, a copy during a read or a quit: the user's clipboard is gone |
| `SaysWhatWasWritten` without `"cited"` | as in `writing` | A blockquote the writer makes is taken for history when the draft comes back, from the table (`ipc/compose.ts:47`) or from Gmail (`gmail/src/drafts.ts:134`), and is sent behind the signature |
| without `"signature"` | as in `writing` | Words typed behind the name in Gmail's block of the signature go with that block at the import (`gmail/src/drafts.ts:142`) |
| without `"plain"` | as in `writing` | A draft in plain text has no block to take out: the signature is sent twice, and what stands below the quoted lines becomes history (`gmail/src/drafts.ts:163`) |
| without `"moved"` | as in `writing` | Reply turned into Reply all, or aimed at another message, drops the attached files (`store.ts:1412`), where its comment says what was typed comes along |
| without `"import"` | as in `writing` | Files are never mirrored; an edit made in Gmail replaces those of the row by those in Gmail (`queries/drafts.ts:201`) |
| without `"returned"` | as in `writing` | A send that failed comes back without its files (`mirror.ts:85`), where `mirror.ts:98` says exactly as it was written |
| without `"asked again"` | as in `writing` | A receipt taken off a draft from Gmail is armed again when the draft is opened again (`lib/compose.ts:322`) |
| `Arranged` without `"reborn"` | as in `helpers` | A category that was hidden or moved is deleted and created again under its name: it has the same id (`ipc/ai.ts:43`) and comes back hidden, even by a + (`useSidebarLayout.ts`, `adopt`), or, from Settings, at the old place |
| without `"unread"` | as in `helpers` | A start that cannot read a list goes on without it (`store.ts:606`), and the next move of the person writes an arrangement that has lost those rows, or all of it |
| without `"crossed"` | as in `helpers` | Two categories are created at a time: the second answer finds the first as the one that was not there before (`AddRowPopover.tsx:58`), and places that one |
| `LookedAndFoundNothing` | as in `helpers` | A request that got no answer, or a lookup while nobody was signed in, is recorded as an empty URL and never tried again (`contacts.ts:117`), where `queries/contacts.ts:67` says that means looked, found nothing |
| `ShownOnce` without `Close` | as in `writing` | Of two messages sent within a minute the arrival of the first hides both (`lib/compose.ts:297`) |
| `Reaches` for every message | as in `writing` | A message of somebody else with a Reply-To at an address of the owner's is answered to nobody (`lib/compose.ts:53`) |

Met while reading, without a property: the attention sweep drops what the local model lifted, since it does not ask it again (`pipeline.ts:187`), and gives a thread filed by hand a sentence about another band (`pipeline.ts:194`);
a reply to a message that is only shown, not yet out, has no In-Reply-To and no References (`lib/compose.ts:66`); a move of the box drops Bcc as it does files;
a click on the Dock does nothing while only a preview window is open; a click on a banner with the window closed does not bring it back, where `main.ts:335` says it does; a second Cmd+Q during the flush quits at once; an archive or a deletion of a snoozed thread does not cancel the snooze; Undo of H or E does not give a thread its queue back;
two calls on a chain of two models that fail at a time both step down, and the second has nobody left to ask (`claude.mjs:205`);
a `stop` while the daemon looks for a free port lets a process start that nobody stops at shutdown (`local.mjs:53`, `server.mjs:107`); cancelling a request that
waits for Claude does nothing (`claude.mjs:175`), and `AiClient.cancel` has no callers; a routed fix that is cancelled is tried on the local model.

## 7. Plan

The order in which the modules came, and what is left.

1. `OrderedDelivery`, `Outbox`, `Outbox_proofs`.
2. `SendQueue` with its proofs.
3. `DraftMirror`.
4. `LabelSync`, `LabelSync_proofs`.
5. `SyncLoop`, `SyncLoop_proofs`.
6. `Queues` with its proofs.
7. `Composer` and `Screen`, the two halves of the window.
8. `Classifier`, `CalendarSync`, `Attachments`, `ReceiptPoll`.
9. `LocalModel`, `GmailClient` with their proofs; `ModelDownload`.
10. `TextReplace`.
11. `ClaudeRunner` with its proof, `ClaudeLogin`, `Helpers`, `Setup`, `AiConfig`.
12. `Letters`, `Replies`.
13. `Sidebar`, `Contacts`, `Attention`.
14. Proofs: the second half of `LabelSync`, `DraftMirror`, the rest of the helpers and the safety of the workers, `Screen`, `TextReplace`, `Composer`.

Left: a composition of `Composer` with `DraftMirror` in which one edit goes all the way.
