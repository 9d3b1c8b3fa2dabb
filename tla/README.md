# A TLA+ model of the Stellar Agent Guard dashboard

The dashboard is a browser console for *guard* contracts on Stellar: smart accounts that hold an
agent's funds, cap what it may spend and let an admin freeze or revoke it. The program has no server
of its own. Every tab reads the chain through an RPC server, asks a browser wallet to sign, and shares
`localStorage`, storage events and a `BroadcastChannel` with the other tabs. What can go wrong is the
order in which answers, prompts, timers and other tabs arrive; that is what is modelled here.

Paths below are relative to `src/`; `guard/` abbreviates `lib/guard/`.

## Inventory

| Part | Where | State | Operations |
|---|---|---|---|
| Snapshot read path | `components/GuardProvider.tsx`, `guard/guardOps.ts`, `guard/polling.ts`, `guard/memoryWiper.ts` | selected guard, `readEpochRef`, snapshot, error, spinner, `retryingField`, refresh timer | `refresh`, `retryRead`, `selectGuard`, link adoption, timer, `memoryWiper.wipe` |
| Status view | `components/StatusPanel.tsx`, `guard/dmsAlert.ts`, `guard/ledgerTime.ts` | the fields of a read, the ledger each was read at, the browser's clock | read, retry of a field, alert, projection, banner |
| Write pipeline | `guard/submit.ts`, `guard/writeReview.ts`, `guard/wallet.ts` | the write's stage, the reviewed account, simulation, signed envelope, outcome | `invokeWithWallet`: load, simulate, two prompts, broadcast, inclusion polling, history entry |
| Telemetry tail | `guard/telemetry.ts`, `guard/feedSubscriptions.ts`, `guard/feedSelection.ts`, `guard/timeout.ts`, polling effect of `GuardProvider` | `GuardFeed` (cursor, primed, stopped), the coordinator's map, `MultiGuardFeed`'s runners, stream buffer | `pollOnce`, `ensure`, `create`, `remove`, `sync`, `pollAll`, watch, stop |
| Event views and exports | `components/TelemetryFeed.tsx`, `TelemetryChart.tsx`, `guard/telemetryExport.ts`, `exportScope.ts`, `telemetryAggregator.ts` | rows, range asked for, filters per guard, export scope, buckets | range query, filter, chips, export, chart |
| Emergency write lease | `guard/tabSync.ts`, `components/PanicPanel.tsx` | one stored claim per guard and action, the write that owns it, what each tab shows | acquire, renew, release, subscribe, expiry timer |
| Emergency panel | `components/PanicPanel.tsx`, `guard/guardOps.ts` | balance and its token, challenge dialog, freezes in flight | load balance, open, confirm, freeze, unfreeze, read back |
| Tab synchronisation and registry | `guard/tabSync.ts`, `guard/registry.ts`, `guard/storage.ts`, `guard/storageInventory.ts` | saved guards in storage and per tab, the guard each tab follows, messages in flight, replay filter, stored records | announce and follow a switch, add, remove, restore, deliver, repeat, clear |
| Shared links | `guard/urlState.ts`, `guard/deeplink.ts`, `guard/instance.ts` | the query of the address bar | adopt, write back, go to a route |
| Deployment | `components/DeployPanel.tsx`, `guard/guardOps.ts`, `guard/saltGenerator.ts` | salt, plan and inspection of the address, the steps of each attempt, what is told of the last | plan, inspect, search a salt, deploy (check, upload, create, read back) |
| Setup and funding | `components/SetupWizard.tsx`, `guard/setupChecklist.ts`, `guard/friendbot.ts` | reads with the guard they are of, the record per guard, balances | read, verify, read balances, ask the faucet |
| Alert delivery | `components/WebhookAlertBridge.tsx`, `WebhookSettings.tsx`, `TelemetryAlerts.tsx`, `guard/webhookDispatcher.ts`, `audioAlert.ts` | last observation, last sent time per event, keys rung for, settings, permission | edge trigger, cooldown, dispatch, settings, test ping, chime |
| Announcements | `components/AriaAnnouncer.tsx`, `BlockedEventBadge.tsx`, `guard/blockedEvents.ts`, `statusTransitions.ts` | one queue of messages, batch of refusals, last verified flag | observe, enqueue, flush |
| Wallet session | `components/WalletBar.tsx`, `guard/walletConnector.ts`, `useIdleTimer.ts`, `networkSwitch.ts` | connected wallet, connector, stored provider, mismatch notice, idle deadline, connections in flight | connect, silent reconnect, disconnect, idle expiry, network switch, sign |
| Multisig approvals | `guard/multisig.ts`, `multisigRead.ts`, `components/SubmitSignedXDRPanel.tsx` | the envelope in the box, what was read for it, weight | track, merge, check, submit |
| Policy editing and migration | `components/PolicyForm.tsx`, `MigrationWizard.tsx`, `guard/useHistoryState.ts`, `assetCapsCsv.ts`, `tokenMetadata.ts` | draft, undo stacks, the guard of the draft, what is staged, the preview of a file, names of assets | edit, undo, redo, stage, import, install, pick functions, migrate |
| Transaction history | `guard/txHistory.ts`, `components/TxHistoryTable.tsx` | the stored list, the copy a tab lives on | record, prune, clear, filter |
| Policy and incident simulation | `guard/policySimulator.ts`, `guard/dmsSimulator.ts` | candidate policy, rehearsal | replay, rehearse |
| Fleet view | `components/FleetTable.tsx`, `guard/fleet.ts`, `fleetTableState.ts` | polls, rows, order and filter, selection, undo | poll, sort, select, clean up, undo |
| Dashboard layout | `components/DashboardGrid.tsx`, `guard/layoutStore.ts` | arrangement, stored copy, named ones | move, fold, reset, name, load |
| Presentation and notices | `guard/useToast.ts`, themes, palette, tooltips | toasts with their timers | show, dismiss, time out |
| Bytecode and storage inspection | `guard/chain.ts`, `bytecodeCache.ts`, `wasmInspector.ts`, `lib/worker/*`, `components/StorageExplorer.tsx` | hashes kept, the inspection, the drawer's rows | verify, check, inspect, load entries |
| Address book and local import | `guard/addressBook.ts`, `components/AddressBookModal.tsx` | contacts, conflict, import preview | save, resolve, delete, import |
| RPC access | `lib/rpc/*`, `guard/retry.ts`, `guard/rpcPool.ts`, `guard/timeout.ts` | attempts, wait, endpoint in use | retry, cancel, time out, fail over, probe |
| App shell and updates | `components/PwaRegistrar.tsx`, `public/sw.js` | build of each page, worker that waits, what holds it back | install, offer, take over, reload |
| Build, scripts, proof runs | `scripts/*` | none at run time | command line |

How they interact: panels call the write pipeline; when a write is over they call `refresh()` and
announce it to the other tabs; a switch of guard, by click, link or another tab, moves the read epoch
and drops the feed; the registry decides what the feed tails; the lease keeps two tabs from beginning
the same emergency write; `memoryWiper` and the idle timer stop everything at once.

What makes this hard: several reads, polls and writes are in flight at once and answer in any order; a
closure of an old render goes on with what it captured; prompts stay open while the chain and the wallet
move; timers are throttled or stopped; tabs crash; storage events lag; a lost reply leaves the outcome of
a write unknown.

What makes each part correct, in a sentence each:

* reads: what a tab shows is of the guard it has selected, and a change on chain comes to show;
* writes: the outcome told is true, and the history accounts for everything that may have landed;
* tail: every event of a watched guard gets its row or a gap notice is shown;
* lease: a claim is never orphaned, nor removed or overwritten by a tab whose look has found it;
* registry: tabs converge, and no tab keeps following a guard that was removed;
* deployment: what is told of a guard is what the chain holds, and a deploy begun again repeats nothing that was done;
* alerts: an onset is never swallowed, and a row of the live tail is rung for once;
* session: what signs is what is shown as connected, and a session nobody uses ends;
* what the browser keeps: a record goes only when somebody takes it away, whatever another tab writes or the
  browser refuses;
* screens: what is drawn, said or signed is of the guard, the text, the address or the build that was read for it.

`PROJECT.json` lists every hazard at its line, with the properties that watch it.

## Modules and how they correspond to the code

**GuardReads** — the read path of one or more tabs. `reads` holds the RPC reads in flight, each bound to
the guard its closure captured and to the epoch at the call, exactly what `refresh()` and `retryRead()`
capture before their `await`. `Refresh`, `RetryRead`, `ServeRead` (one field's answer, with the chain's
version at that moment), `SettleRefresh`, `RejectRefresh` (the `catch`), `SettleRetry` (with its
`finally`), `SwitchGuard` (`selectGuard` with React's commit and the `refresh()` of its effect: a click is
committed before any other task). A guard's state is a version number: what the fields contain is not
told apart.

**TabSession** — extends GuardReads with the rest of the tab: the two commits of a page reached by a
link, the interval timer, wallets that come and go, panels whose `run()` outlives a switch and then calls
the `refresh()` of the render it began in, and `memoryWiper.wipe` on a page that lives on.

**WriteOutcome** — the abstract promise of a write: handed over at most once and before its outcome is
told; "applied" and "rejected" are told of what the ledger did; "nothing" only of what was never sent.
**WritePipeline** — `invokeWithWallet`, one action per stretch between two awaits, for several writes that
share an account's sequence number, with the wallet, the network and the clock moving beside them. The
property `OutcomesPromised` is the refinement: `told` is the verdict an operator draws from the outcome.

**FeedTail** — the telemetry tail. `feeds` are `GuardFeed` objects with cursor, base and gap notices;
`coord`, `super` and `runners` are the coordinator, `multiFeedRef` and the supervisor's map. Rounds overlap
(the interval does not wait for `pollAll`), a poll past its time limit is reported as failed and *still moves
its feed* when its answer comes. A ledger holds several events of a guard, in the order of their places
(`Place`), so a full page may end inside one: the cursor (`next`, the place after it) and `expectedFrom`
(`expected`, a ledger) are kept apart, as `nextExpectedLedger` computes them. `latestLedger` only says where a feed
without a cursor begins and is `next` until there is one. `lost` is `lostGaps` with its limit; `dropped`, `cut` and
`jumped` are history, of what `NoSilentLoss` excepts by name.

**WriteLock** — the lease of an emergency write in `localStorage`. Tabs are processes and the storage has no
transaction, so every `getItem`, `setItem` and `removeItem` is a step of its own, and between two steps of one call
the other tabs and the clock move. `Look`, `Put`, `Confirm` are the accesses of `acquireGuardWriteLock`; `Renew`,
`Put`, `Confirm` those of `renew()`; a look that finds a record expired or being released leaves it in `erasing`, and
`Erase` is the `removeItem` that follows, whatever the key holds by then. `WriteEnds` (the `finally`), `PageHide` with
`ReleaseNext`, `Remount` (the effect's cleanup) with `Subscribe`, `StorageEvent` and `Timer` (the subscription) begin
such calls, a tab being in one at a time (`Calling`); `Lost` is a crash. `erasing[t].saw` is history: the live claim
the look found. A claim carries the ticks it has left; a tick is a third of the lease or more, so `TTL = 2` lets a
claim be renewed in time, lapse while its write goes on, or lapse within a call.

**SharedConsole** — the registry of saved guards and the guard each tab follows. `saved` is the list in
`localStorage`; a tab has its list and guard twice, as `setInstances` and `setGuard` were last called (`list`,
`guard`) and as React last committed them (`listed`, `shown`, which is what `guardRef` and the handlers see).
`net` holds the messages between two tabs in order. `Select`, `BeginAdd`, `EndAdd`, `RefuseAdd`, `Rename`,
`RemoveGuard`, `Cleanup`, `Restore` are the provider's operations with the storage write, the announcements and
the fallback each makes; `Receive` is the sync listener; `Open` is a page reached by a link or by an address.
`Prompt` says that a tab commits before its next message or click, and `Hands` names the tabs worked in.

**Deployment** — the deploy panel with `deployGuard` and `submitOperation`. An address is an account and a
salt; `plan`, `planning`, `inspecting` and `inspection` are the panel's two effects, of which a newer input makes
the older answer ignored. An attempt goes on when the page is left (`awaited` is the one the panel waits for),
so that two may run; each walks `check`, `artifact`, `code`, `recheck` and, for the upload and for the create,
`prepare` to `poll`. `Headline` is `classifyDeploySteps` with `deployOutcomeView`, `fate` what became of each
transaction, which `DeployTold` compares with it. A press marks what the chain holds already as `done`: the look at
the address is not repeated after a deploy (a finding), so a deploy can be begun again on a guard that is there, or
after an upload that was told as rejected because its polls ran out, and `NothingIsDoneTwice` says that the attempt's
own looks keep it from signing and sending that again. Bytecode that expires from the chain is left out.

**WalletSession** — the wallet of each tab: `session` is the state React shows, `connector` the ref that signs.
The silent connection of a page, the operator's, and the one after a network switch may be under way together
(`connections`), and answer in any order around `Disconnect`, `HearDisconnect` (another tab's) and `Expire` (the
idle lock). `left` is the time to the deadline in ticks.

**WebhookAlerts** — the webhook bridge. A `Pass` is one run of its effect on the conditions that hold: those not
cooling down are shown to the tracker, those new to it are dispatched; an `Answer` arms the cooldown with the
time its dispatch was begun at. What conditions hold is free, since a pass sees them through reads that fail.

**EventBuffer** — `StreamBuffer` with the operations on it, and the chime that goes over all the rows whenever
they change. `before` and `since` are all that was accepted before and since the pause, what the rows and the
queue are compared with.

`MCPanels` checks these four in one run: they share no state, so a behaviour is one of one of them. The
modules that follow are composed in the same way, by `MCRecords` those that keep something in the browser, by
`MCScreens` those that read something and show, say or sign it: `part` is chosen at the beginning, and the
variables of the other parts stay as they are.

### Parts of MCRecords

Every record of the browser is loaded, changed and saved in one step of one tab, here as in `SharedConsole`. The code
does so without an `await` between, but tabs may be processes of their own: that two of them load the same list and
the second save drops what the first added is outside the model. What is inside is a tab that lives on an old copy,
in React state or in memory after a refused write. Only the lease (`WriteLock`) is taken apart access by access.

* **TxHistory** (`history`): every tab reads the list, changes it and writes it back whole; `memory` is the copy a
  tab lives on after a refused write. `Load`, `Record`, `Prune`, `Clear` and the open table.
* **AddressBook** (`book`): a dialog per tab. A save stops at a conflict until it is resolved; an import is
  previewed against one book and confirmed against another. `format` is the version of the stored record.
* **PolicyDrafts** (`form`): the draft with its undo history and bursts of typing, `scope` (the guard it was
  started for), `staged`, the review and the write, each held against the guard now on screen.
* **AssetCaps** (`caps`, `labels`): a file of caps as a sequence of rows, read while others are read, previewed
  and merged into a draft edited since; the names and decimals shown beside each row, from a cache with an age.
* **ProtocolPicks** (`picks`): the text of the draft is the state; the picker rewrites it from the interface of the
  contract it was opened on, which may be read late.
* **AppUpdates** (`shell`): `worker` serves, `waiting` waits, a page with work in it holds the update back, and
  every page the new worker claims reloads.
* **WebhookRules** (`webhooks`): the settings dialog, what is refused, and the alerts a pass finds under them.
* **FleetView** (`fleet`): overlapping polls answer for a fleet that another tab has changed; cleanup and undo.
* **BrowserRecords** (`records`): the inventory by category and its Clear buttons, with counts that grow old.
* **DashboardLayout** (`layout`): each page holds a whole arrangement and writes it over the browser's; normalising
  what is read back; named arrangements; refused writes.
* **SetupWizard** (`setup`): reads kept with the guard they are of; a button's read may answer after a move.
* **SharedLinks** (`links`): three writers merge back into one query, which a page adopts when it is mounted.
* **TabChannel** (`channel`): broadcast or storage as transport, echoes, repeats, late and foreign messages, a tab
  that reloads under a new name; `lastRevision` is the replay filter, which forgets a tab when it knows too many.
* **Notices** (`toasts`, `alerts`): the queue of toasts and the timer of each, with the cap that spares errors; the
  chime and the desktop channel with what was turned on, what is stored and what the browser permits.

### Parts of MCScreens

* **Announcements** (`talk`): one queue every message leaves by; a flip of the freeze flag is told when two
  reads of one guard differ, unless it echoes a write of this tab; blocked calls are counted in batches.
* **FreezePanel** (`panic`): the token that makes a late balance ignored, the dialog, freezes that read back.
* **Approvals** (`approvals`): signature hints attributed to the signers the chain lists now; an ambiguous hint leaves the
  report incomplete.
* **SignedEnvelopes** (`envelopes`): the box, the check and the submission are each of a text; any may change.
* **PolicyMigration** (`move`): source read, plan, the form and back, installed on the target.
* **StatusView** (`status`): fields read at different ledgers, projected to a clock that is wrong.
* **BytecodeCheck** (`bytecode`): the gate of a deployment, the inspection, the identity with its cache.
* **StorageExplorer** (`storage`): one row per key asked for; a read is abandoned by no move of the guard.
* **AccountFunding** (`funds`): balances read one after the other, then the faucet, then read again.
* **PolicySimulation** (`replay`): the rolling window of the replay, and the rehearsal of the dead-man switch.
* **WalletProviders** (`wallets`): what each connector makes of its wallet's answer, network and refusal.
* **EventViews** (`events`): range queries that answer late, filters per guard, the export's scope, the buckets.
* **RpcAccess** (`access`): `withBackoff` with hints and cancellation, `withTimeout` with what each kind of read
  makes of an answer, an error and the deadline, the pool, the probe.

The proofs are in `GuardReadsProofs` (which also proves about `TabSession`), in `WriteProofs` (`WriteLock` and
`WritePipeline`, which share no state) and in the `MC` modules after the sets of the runs: a theorem of a composed
specification there rests on a theorem for each part and a last section that a step of the whole is a step of one part.
`MCRecords` extends `KeptRecords`, which declares nine of its sixteen parts, those of `TabChannel`, `DashboardLayout`,
`TxHistory`, `AddressBook`, `Notices`, `AppUpdates` and `AssetCaps`, with their proofs, and adds the other parts, the
composition and its theorems. In both the instance of a part stands right before its proofs.
The `MC` modules give each specification its small sets, and the `.cfg` files the bounds. A definition marked
*Mutant* is a plausible bug in the definition after it; none is part of a specification, each shows that a
property can fail. `PROJECT.json` names one per property; these break the same properties of the composed parts:

| Module | Definition ← plausible bug |
|---|---|
| AccountFunding | `AccountState` ← `ZeroWhenUnread` |
| Announcements | `CountRows` ← `ObserveRowsLate` |
| AppUpdates | `Claims` ← `ClaimsHolders` |
| Approvals | `Ambiguous` ← `NoneAmbiguous` |
| AssetCaps | `Sound` ← `SoundUnnamed`, `Awaits` ← `AwaitsNew` |
| BytecodeCheck | `Matches` ← `MatchesAlone`, `Hit` ← `AnyHit` |
| DashboardLayout | `NormalizeLayout` ← `NamesOnly` |
| EventViews | `WindowEnd` ← `EndsBefore`, `Keep` ← `KeepForAll` |
| FleetView | `Precedes` ← `TiesTurn`, `Taken` ← `AnyPoll` |
| FreezePanel | `Taken` ← `AnyAnswer` |
| Notices | `Victim` ← `VictimOldest`, `Plays` ← `PlaysLocked` |
| PolicyMigration | `Valid` ← `ValidAnywhere` |
| PolicySimulation | `Drained` ← `DrainedLate`, `SilenceAge` ← `SilenceGrows` |
| RpcAccess | `RetryWaits` ← `RetryWaitsBlind`, `Tell` ← `TellEmpty`, `Failover` ← `FailoverDrops` |
| SharedLinks | `KeptTab` ← `KeepsAnyTab` |
| StorageExplorer | `Emptied` ← `KeepsRows` |
| TabChannel | `Envelope` ← `EnvelopeBare`; `Remember` ← `RememberInPlace`, with `Remembered` of 2 or more |
| TxHistory | `Load` ← `LoadsOwnCopy` |
| WalletProviders | `NormalizeWalletNetwork` ← `TrustsNames` |
| WebhookRules | `ConfigProblem` ← `ProblemButEvents` |

## What the runs check

| Run | Question | Result |
|---|---|---|
| `reads` | Two fields, two reads in flight, switches: whose answers are painted, is the retry flag exact, does a change come to show? | holds |
| `session` | Links, late panels, wallets, wipes: another guard may be painted, does it heal, does a change show while the timer lives? | holds |
| `session_painted` | "guard A's status must never paint over guard B's view" in the whole tab | violated: on a client navigation the first commit reads the guard of the page left, and its answer comes after the link's guard was adopted in the same epoch |
| `writes` | Two writes side by side: types, the history, the review that is still current, the refinement of WriteOutcome, no hang | holds |
| `feed` | No event passed over without row or gap notice, but for the named exceptions; every cursor is its own guard's | holds |
| `feed_arrives` | With polls that answer after their time limit: every event of a polled guard comes to the buffer or is told as lost, but for the named exceptions | holds |
| `feed_unpolled` | "the poll effect rebuilds it for the new guard" | violated: nothing the effect depends on changes when a watched guard is switched |
| `lock` | Orphaned claims, foreign claims, what other tabs show | holds |
| `tabs` | One tab is worked in, one follows, both commit promptly: do they come to show one guard and the stored registry, and is a removed guard left? | holds |
| `panels` | Deploys: told truly, nothing signed or sent again that was done? Wallets: is the session whole, does it lock at last? Alerts: is an onset ever swallowed? Events: does a pause lose, double or misplace a row, does a row ring twice? | holds |
| `records` | Sixteen parts that keep something in the browser: does what was kept outlive other tabs, refused writes and undo (`RecordsOutlive`), and does what is drawn from it belong to what it names (`ScreensAgree`)? | holds |
| `screens` | Thirteen parts that read a chain, a wallet or bytecode, with answers that come late or of a guard left: is what is signed what was checked (`SignedAsChecked`), is what is shown or spoken what was read (`SaidAsRead`)? | holds |

`PROJECT.json` quotes, for every violated run, the line of the repository that says otherwise, and lists the
further disagreements met while modelling that have no run. The properties of `records` and `screens` are
conjunctions, one conjunct per part, named after the property of the part's own module.

### Bounds, and why they are enough

* `reads`: one tab, because tabs share no read state (the proof covers any number); two guards and two
  switches, so that a read of A can answer after A → B → A; two slots, so that two answers can cross; two
  fields, so that a partial answer exists; one change on chain, which a stale answer can miss.
* `session`: one field, since fields are answered together; everything else as above.
* `writes`: two writes of one account; one authorization, one retry, one poll, so that each counter is met
  at its limit and one before; three clock values, so that an envelope is valid, at its limit, and expired; one
  use of the account elsewhere. The wallet can be on the account or gone: to the boundary checks a foreign
  account is the same as none.
* `feed`: a chain of four ledgers, the first two closed before the page is opened. One guard has two events in the
  third, so that a full page of one event ends inside a ledger, and one in the first, so that a notice can be told of
  it. The server retains one ledger and a feed keeps one notice: the rest of a ledger is pruned behind a full page,
  and a second gap pushes the first out (both are reached: without `cut`, or without `dropped`, `NoSilentLoss` fails).
  Two overlapping rounds; three guards for two places, so that the operator has a choice
  (`MCBounds`: with all three saved the chain is a ledger shorter); three feed objects, with a guard on each action
  that there is room for those it may create. Two polls that prime one feed at different heads
  (`telemetry.ts:320`) leave ledgers between them, the named exception `jumped`. `feed_arrives` trades the second round
  for a late poll, tails one guard, and puts two events in the last ledger of a chain of three, of which two are retained.
* `lock`: two tabs and two writes on one guard and action, so that both claims race, access by access. The
  liveness properties are about one tab and one claim (`Watcher`, `Watched`), which stand for any. With two guards the
  panel moves away from its claim; with one it does so by a change of page. The proof covers any number.
* `tabs`: two tabs, one of them worked in, because what one tab does and another follows is the promise; four
  acts, so that a guard can be added, left, removed and restored; one guard of each kind (built in, two that are
  added, one of a link). The run takes two assumptions, and each is needed: with two tabs worked in at once, or
  with commits that come late (`Prompt = FALSE`), all three properties fail: a follower that is slow to commit takes
  the second of two switches for what it shows already and drops it.
* `panels`: two accounts and two salts, so that a plan, an inspection and a deploy can each be of other inputs;
  two attempts, so that one left behind meets the next (a deployment begins with the first account and salt,
  which are alike); two moves of the operator between them. Two tabs, one wallet that can be asked to switch
  network and one that cannot, four acts, a lock after two ticks. Two alert types, two dispatches in flight, an
  interval of two in a clock of four, so that a cooldown can be over before the clock is. Four events in batches
  of two, two rows and three keys: the code has 250 rows and 500 keys, and `RowChimesOnce` needs one less than
  twice the rows (with as many keys as rows it fails, as its mutant shows).

* `records`: two tabs wherever tabs write one record, with lists of two and three transactions, so that a list is
  pruned while another tab writes it; drafts with an undo history of two and one edit beside a staged one; two
  builds; a channel that remembers one tab, so that it forgets when a page reloads under a new name; two visible toasts of five, so that
  the cap has to choose; two files of caps in flight; a cache of names that outlives its age once.
* `screens`: two guards wherever an answer can be of the one left; two reads in flight; two refusals and a queue of
  two, so that a message is dropped; three keys of which two share a hint; a grace, a warning and a clock that cross
  each other and zero; two retries with a hint above and below the ceiling; a window of four in a horizon where one
  row leaves it.
* In both a part is bounded on its own, and the composition adds nothing to its states but the choice of the part.
  Deadlock is not checked in `tabs`, `panels`, `records` and `screens`, whose operators may have done all they may.

### Fairness

RPC answers or failures come (fetch has a time limit) and continuations run; no operator action is fair, and a
prompt may stay open for ever. In `GuardReads` the timer always fires; `TabSession` is the module that
asks whether it does, and its fairness holds only while the timer is set. `FeedTail` assumes that a server asked of a
guard again and again answers in time at last (strong fairness of `Arrive` for each guard: for all together it
would let one guard's polls fail for ever beside another's that answer), nothing more. `WritePipeline` assumes that a
write's own steps are taken when they can be (weak fairness of `Runs`, which leaves out the two prompts), and that
is all `NeverHangs` needs: polls are counted. `WriteLock` assumes that
time passes, that a call goes on to its end, and that a tab's tasks take turns: strong fairness of the watched claim's
interval and of the watching tab's timers and storage events, which a click handler can delay but not starve. `WalletSession` assumes that time passes while a timer runs and that a
timer past its deadline is looked at (its interval, or the page becoming visible); that operators stop doing
anything is the bound `MaxActs`, which is what `LocksAtLast` is about. `records` and `screens` ask nothing that
needs fairness.

## What is proved

TLAPS proves, for every value of the constants that satisfies the named assumptions:

* `GuardReadsProofs`: `TypeCorrect`, `ViewIsOfGuard` (`SnapshotForSelectedGuard`), `RetryNeverLeaks`
  (`RetryAccounted`) and `SessionTypes` (`SessionTypeOK`). The snapshot invariant is not inductive: it needs
  `ReadsBound` (no read is of a later epoch than its tab, and a read of the current epoch is of the guard on
  screen) which is what the epoch bump in `selectGuard` is for, and what link adoption breaks in `TabSession`. The
  retry flag needs `RetryBound`: the retries in flight are at most one, of the field the flag names.
* `WriteProofs`, of the lease: `LockTypes` (`LockTypeOK`), `ClaimsAreReleased` (`NoOrphanClaim`) and `ClaimsAreTheirOwners`
  (`ForeignClaimKept`). The strengthening is `LeasesBound`: what a tab calls its active lease, and what it
  is releasing, are writes of its own, a run within `acquire` or `renew` is unreleased, and a removal of a live claim
  is begun only for a lease that has been released. `ForeignClaimKept` excepts by name the writes of a tab that looked
  before the claim was put (`Unseeing`): the code has that gap, and a finding names it.
* `WriteProofs`, of the pipeline: `WriteTypes`, `HistoryIsAccounted` (`HistoryAccounts`), `ReviewsAreCurrent`
  (`ReviewIsCurrent`) and `OutcomesAreKept` (`OutcomesPromised`), the refinement of `WriteOutcome`: initial states map
  to initial states, each action to a step of one write's promise or to a stutter. The invariant is `WriteBound(w)`:
  what a write holds at each stage (envelope, reviewed sequence, outcome, entry) fits the stage and what became of
  its transaction. Types do not suffice: that "rejected" is told only of what the ledger rejected needs the fate the
  network gave the transaction before the poll that reads it.
* `MCFeedTail`: `FeedTypes` (`TypeOK`), `FeedsAreOwn` (`OwnCursor`) and `NothingIsLost` (`NoSilentLoss`). The
  invariant says which feeds, polls and rounds belong together: heads known are heads the chain had (`Heads`),
  a page that does not watch polls nothing (`Watched`), whatever refers to a feed finds it, no two guards share
  one, and a feed that has passed a place has shown its event, has told the gap, or has one of the exceptions
  the property names; where it stands is the start of the ledger it expects, or behind an event it has shown
  (`Complete`, `Ends`); and it drops a notice only from a full list (`Tidy`). What it does not say of a feed that was dropped is what the guards of
  `pollOnce` make unnecessary: its answers reach nobody.
* `MCSharedConsole`: `ConsoleTypes` (`TypeOK`), `TabsFollow` (`FollowsSelection`), `TabsAgree` (`RegistryAgrees`)
  and `RemovedGuardsAreLeft` (`RemovedIsLeft`), the last three for one operator and any number of tabs that follow
  (`OneOperator`; two operators break all three, see Bounds). The invariant is about the queues: only the
  operator's tab speaks (`Quiet`) and knows the registry (`Knows`); a tab that lacks a saved guard has a
  change of the registry before it (`Hears`); one that lists or shows a guard that is gone, or will be told to, is
  told of the removal later (`Leaves`); and each queue has a last message that decides, after which
  nothing moves the tab (`Follows`).
* `MCPanels`, all six safety properties of its run. `SessionIsWhole` needs no more than the types, since every handler
  sets the ref, the state, the choice and the timer together. `DeployTold` needs `DeployInv`: how far an attempt is
  fits what became of its two transactions (`Progress`), the contract of an applied creation is there, attempts not
  begun have sent nothing, and what is told is of an attempt that is over. `NothingIsDoneTwice` needs
  `AgainInv`: what the chain held when an attempt was begun it holds still, and the operation an attempt has come to
  from `prepare` on is none of it (`NoneDone`). `OnsetTold` is inductive with its types. `PauseLosesNothing` needs `BufferInv`: all that was
  accepted is in the set of what was seen, no row twice, and what waits is the front of what came since the pause.
  `RowChimesOnce` needs `ChimeInv`: the newest *u* rows are those the chime has not heard of, and the key of the *i*th
  row is no further than (*i* - 1 - *u*) + (`Limit` - 1) from the end of the memory; hence `Reaches`: a memory of
  2 `Limit` - 1 keys suffices, for any batches (the code: 500 for 250; the bound is exact, the mutant has one less).
* `MCScreens`, what is signed: `ScreensSignAsChecked` (`SignedAsChecked`), from a theorem for each of its parts: a
  check shown is of the text it was read for and a submission is of the envelope that passed (`ChecksBound`); of the
  balances in flight only those with the current token are taken, and these are of the guard on screen (`ReadsBound`);
  a preview is the plan of the policy read (`MoveBound`); a ready envelope carries the threshold, a weight being a sum
  over a finite set of signers; and a wallet is linked only on the dashboard's network (`LinkedOnTarget`).
* `MCScreens`, what is said: `ScreensSayWhatTheyRead` (all of `SaidAsRead` but the replay, and the action properties
  of the funding, the filters and the calls), from a theorem for each part. `RefusalsAreCounted`: the refusals seen
  are those told and those about to be (`TalkInv`). `CountdownIsSound`: the status in flight is no older than its
  question, and a read takes no longer than its bound, so a projection errs by no more (`ViewInv`). `DrawerIsHonest`: the rows there are
  answer the keys asked for, of one guard. `PoorIsPoor`: the accounts called poor are
  those whose reading says so. `BytecodeIsEarned`: at most one identity read is awaited, and the inspection on
  screen is the one that waits for it (`WaitInv`); the cache has one entry for each contract (`CacheInv`).
  `RehearsalsHold`: the age shown and the state shown are of one clock. `ChartIsWhole`: the buckets are intervals that
  tile the window. `FiltersStayOwn`; and `AccessIsHonest` with `CallsDoSettle`: the wait before an attempt covers
  the hint it was answered with, and the pool's line has as many places as endpoints and each endpoint in it.
  `ScreensKeepTypes` (`ScreenTypes`) joins the type invariants of all thirteen parts.
* `KeptRecords`, one theorem or more for each of its parts.
  The channel: `NoTabIsLeftBehind`. The replay filter is a map that remembers `Remembered` tabs in the order they
  were heard; that it forgets a tab only when as many others were heard since is a pigeonhole argument over the map's
  places, and with it every revision accepted is newer than all of its tab accepted before.
  The grid: `PanelsAreKept`. What is normalised is a permutation of the panels, and every operation keeps it one;
  names are told apart after folding their case.
  The history: `HistoryOutlives`. A row not taken by its age, the limit or a clear is in every list written next, which
  needs that every list is within the limit. The address book (`BookInv`): `ContactsAreKept`, a merge that is shown
  keeps all of the book it was previewed from, so that only a book changed since can lose by it, and that
  `suggestedAlias` finds a free alias is a pigeonhole argument over the suffixes; `AddressesAreUnique`, of every list that
  is saved, imported, merged or cut to its limit. The toasts and alerts: `ErrorsAreKept` (ids are never used twice
  and timers are those of toasts that have one) and `NobodyIsAmbushed` (`AlertInv`: what is switched on was switched
  on, and stored, by a click). The shell: `ShellIsMatched` (`ShellInv`: no page runs a newer build than there is, a
  waiting worker is newer than the one that serves). The caps: `AssetsAreDescribed` (`LabelInv`: an asset of the form
  is described, in flight or with the timer) and `ReviewsAreExact` (`CapInv`: a review is a function of the file and the
  rows it was read over, built row by row; the four lists it shows are compared with what the rows mean).
* `MCRecords`: `RecordsStay` (`RecordsOutlive`) and `ScreensSayWhatIs` (`ScreensAgree`, all of it), from the theorems
  above and those of its own parts. The fleet: `RemovedGuardsStayOut` (`FleetInv`: a poll that still counts asks for
  no guard removed, and a cleanup plans none that is built in) and `FleetIsInOrder`: the sorted list is given by rank, a
  guard's place being the number of guards that precede it; that ranks under a total order fill the places 1 to n once
  is proved from finite cardinalities. The checklist: `ChecklistIsTrue` (`AnswersTrue`: a yes kept or in flight was
  true of the guard it is kept with, and stays so since what the chain says of a guard only grows), hence `WizardIsTrue`.
  The form: `FormStaysOwn`. The webhooks: `AlertsAreNotSkipped`. The links: `AddressIsTheView`, from how each of the three
  writers merges back what the others own. The storage controls: `ClearsTakeTheirOwn`.

TLC checked each of these invariants on the run's instance before it was proved.

The assumptions are on constants, and the `.cfg` values meet them: TLC evaluates each of them in the run of its module.
Named in the modules: `ReadsAssumption`, `NoneAssumption`, `LockAssumption`, `LockNoneAssumption`, `WriteAssumption`,
`FeedAssumption`, `NoneIsNoFeed`, `ConsoleAssumption`, `ConsoleNoneAssumption`; in `MCScreens` one for each part, before
its proofs (`RulesWeigh`, `SourcesAreNumeric`, `NetworksAreNamed`, `TalkFits`, `PanicFits`, `ViewFits`, `StorageFits`, `FundsFit`,
`BytecodeFits`, `ReplayFits`, `ChartFits`, `AccessFits` and those that say what `Nil` is not); in `MCRecords` one,
`RecordsFit`, the conjunction of what the parts need (`HistFits`, `BookFits`, `FleetFits`, `OrderFits`, `ShellFits`, `HooksFit`,
`FormFits`, `AlertsFit`, `LinksFit`, `ChannelFits`, `GridFits`, `LabelFits`): limits are naturals, sets of feeds and
conditions are finite, files hold well-formed rows, answers have the shape the source gives them, and a null value is
none of the values it stands beside. Stated in the theorem: `OneOperator`, `Reaches` and the bounds of the part it is
about.

Two idioms recur. What a filter, a merge of records, a file or a replay of rows makes of any list is a fact about a
recursive function; it is proved with the least number at which it would fail (`LeastNumber`, from the library's
well-founded minimum, and `Induction` and `StepByStep`, which follow from it), since the library's induction theorems
take an operator and no installed prover can instantiate them. For this `EventBuffer`, `Approvals`, `SharedConsole`,
`TxHistory`, `AddressBook`, `AssetCaps`, `PolicyDrafts`, `TabChannel`, `DashboardLayout`, `FleetView` and `Notices` write
what they compute of a list as recursive functions instead of `SelectSeq` and folds. And each list that a filter leaves
keeps what it should, in its order, and nothing else, which is one lemma used by all of them. A sort is defined by the
rank of each element, and stands for `Array.sort`, which is stable, with the index as the last key.

Only model-checked: every liveness property (`ChangeShows`, `NeverHangs`, `EventsShown`, `LocksAtLast`, `PaintHeals`,
`ShowsWhileTimed` and the others: fairness and ENABLED are out of the prover's reach); `RecordTypes` as a whole (the
invariants above hold the types of the parts they are about as far as their proofs need them); and of `SaidAsRead` the
conjunct `ReplayIsExact`, which compares a rolling window with sums over a replay and would need an induction of its
own over both.

## What is not modelled, and why

Contents of snapshots, XDR, events, files and wording are abstract throughout: no property tells them apart, and
the order in which they arrive does. RPC servers, wallets and the browser are external: they appear as the answers,
delays, failures and crashes the code meets.

* The decoding of events and XDR, the parser of contract interfaces, the parsing of amounts and names, file formats:
  pure functions of one text, which the repository's own tests enumerate.
* The guide for hardware wallets, which shows on a second screen what a write in flight has signed, and the observer
  mode, which is the absence of a wallet: the boundary checks of `WritePipeline` meet it as a wallet that is gone.
* The offline banner, demo mode, themes, density, the palette, tooltips, shortcuts and sounds: presentation that
  decides nothing. Demo mode replaces the reads of a tab by fixed data.
* Costs, receipts and the initialisation form of the deploy panel, velocity and cost estimates, the health reading,
  provenance and backups of the registry: figures shown beside what is modelled.
* Build, scripts and proof runs: command-line programs that run once against a test network.

Two things a reader may miss. `RpcPool` is modelled as the repository's tests use it, since no screen does; it counts
a failure against the endpoint now in use even when it is of one already left (a finding in `PROJECT.json`).
And that the version a tab shows never goes back is false by design: reads of one epoch carry no order
(`GuardProvider.tsx:836`), and the next read of the timer repairs it, which is what `ChangeShows` checks.

What could still be added: the parts of `MCPanels`, `MCRecords` and `MCScreens` composed with the registry and the
reads they share in the tab, so that a draft, a lease and a switch announced by another tab meet in one behaviour;
and proofs of `RecordTypes` and `ReplayIsExact` for any bounds.
