# A TLA+ model of the VyOS client

The VyOS client is a web interface for one VyOS router. A single-page
application (`src/frontend/src`) talks to a small back end
(`src/backend`), which holds the router's API key and passes requests on to
the router's HTTPS API. This directory models the parts of it in which order,
time and failure decide whether the program is right, checks them with TLC and
proves the most important results with TLAPS.

Contents: 1 the system, 2 the plan, 3 the modules and the code, 4 the runs,
5 bounds, symmetry and fairness, 6 the proofs, 7 where code and documentation
disagree, 8 what is not modelled.

## 1. The system

The back end keeps no durable state and no sessions. What it remembers is in
memory: two rate limiters, one cache of releases, HTTP clients. The state that
matters is in the browser (what the user has queued, what was committed and not
saved, which confirm window the page believes in) and on the router (running
configuration, saved configuration, one commit-confirm timer). Nothing keeps
the three in step except the order in which handlers send requests and treat
their replies.

| Component | Code | State | Operations |
|---|---|---|---|
| changeset store | `store/pendingChanges.ts` | queued operations with ids; `sessionStorage` | add (append, ignore a repeat, cancel a Disable), remove, removeMany, clear, reload |
| unsaved-commit store | `store/unsavedCommit.ts` | changes committed and not saved; `localStorage` | markCommitted, markSaved, reload |
| pending-changes bar | `components/PendingChangesBar.tsx`, `hooks/useSafeApply.ts`, `hooks/useConfirmCountdown.ts` | busy, error, the open confirm window, saveAfterConfirm | commit, commit & save, Keep, save, rollback, discard, remove, Mark as saved, countdown |
| Power page | `pages/system/PowerPage.tsx` | busy flag and window of its own, "Rolled back" | save, rollback, Keep, reboot, power off |
| import panel | `components/ImportConfigPanel.tsx` | busy flag and window of its own | import (merge or load), Keep |
| configuration handlers | `internal/api/config_handlers.go`, `internal/vyos/configure.go`, `configfile.go` | none | commit, confirm, import, rollback, save; refusals |
| router | outside the repository; `internal/testutil/fakevyos.go` is its stand-in in tests | running, config.boot, one timer | as above, and the end of the timer, reboot |
| request limiter | `internal/auth/requestlimiter.go` | for each user the times of recent requests, under a mutex | Allow, with a sweep at the limit |
| login limiter | `internal/auth/ratelimit.go` | for each address failures, last attempt, end of block, under a mutex | Allow, Reserve, Refund, RecordSuccess, sweep |
| login handler, verifiers | `internal/api/auth_handlers.go`, `internal/auth/verifier.go`, `vyos_verifier.go` | two verification slots | wait for a slot, verify, issue a session |
| session tokens, middleware | `internal/auth/session.go`, `middleware.go` | none (signed cookies) | issue, renew up to a cap, CSRF |
| session store | `store/session.ts`, `lib/api.ts` | user, lastUser, status, generation | checkSession, login, logout, handleUnauthorized |
| release cache | `internal/selfupgrade/client.go` | releases, time, last error, under a mutex | ListReleases, ForceRefresh |
| image updates, upgrade buttons | `internal/imageupdate`, `UpgradesPage.tsx`, `ContainerImageUpdateCheck.tsx` | remembered results | list tags, pick the newest, pull, queue |
| firewall ruleset page | `pages/firewall/RulesetDetailPage.tsx`, `components/firewall/RuleForm.tsx`, `lib/firewallRuleForm.ts` | the open form | new rule, edit, delete, move |
| settings pages | `pages`, `components/{service,vpn,loadbalancing,highavailability,qos,...}`, `lib/*Types.ts`, `*Parse.ts`, `*Form.ts`, `hooks/useBaselineState.ts` | the open forms | type, save, add, remove, enable, disable, toggle |
| live views | `lib/mergeLogLines.ts`, `useLogs`, `useInterfaceThroughput` | accumulated samples | merge a snapshot |

How they interact:

* Pages call `add` of the changeset store at any time, also while the bar waits
  for a reply. The bar, the Power page and the import panel each send requests
  guarded by a busy flag of their own; nothing guards the three against each
  other. All of them write the unsaved-commit store; only the bar writes the
  changeset store after a commit.
* A request passes RequireSession, RequireCSRF and, for commit, confirm,
  rollback and import, the request limiter. The back end then makes one call to
  the router.
* With "Safe apply" the router starts its one timer and goes back to the
  configuration before the commit unless it is confirmed; the browser runs a
  countdown of its own from the reply.
* A login passes the login limiter twice: once before it waits for a
  verification slot, once, counting, before the password is verified.
* Every settings page shows the configuration as last fetched, lets the user
  type, and on save turns the difference into operations on paths. It
  never reads the queue, except for the Enable and Disable buttons
  (`withPendingEnable`). After a commit everything is fetched again.
* The tabs of a browser share the session cookie; each has its own session
  store. Every reply to an authenticated request sets the cookie again.
* The end of a session unmounts every panel; handlers that wait for a reply run
  on without their component.

What makes it hard, and what has to hold in each case:

| Behaviour | Correct means |
|---|---|
| edits while a commit is in flight | none is lost, none is shown both as pending and as committed, the list records what was sent |
| a commit takes effect on the router before the lists know | once all is quiet, the list is what a reboot would lose; bar and router look like one atomic ledger |
| revert by the router's timer, Keep, countdown | what was reverted is pending again; no unconfirmed configuration is saved; Keep is withdrawn in time |
| several panels, one timer | the lists stay true though windows replace each other |
| lost replies, sign-out, reload, reboot | the same, as far as the code claims it (the table in section 4) |
| many logins at once, sweeps, refunds | the count is exact, a block holds until its end, no source pays for another |
| many requests at once, sweeps | never more than the limit in any window, never a refusal below it |
| tokens that renew themselves, late replies, two users | nothing is accepted beyond the cap, an old 401 ends no new session, nobody sees another user's changes |
| fetches outside the mutex, errors that are cached | what counts as fresh is recent, a good result beats an error, GitHub is not asked in a loop |
| rules that only have numbers, moves, forms left open | a commit changes what VyOS evaluates as the gesture says |
| type, parser and form written apart for each of 130 components; another administrator | what was saved is shown, only what was touched is written, a switch tells the truth |

`PROJECT.json` lists every hazard of this kind with its line and the properties
that would catch it.

## 2. The plan

Order of work, most important behaviour first.

Done:

1. `PendingChanges`, `CommitEngine`: the stores, the panels and the router.
2. `ConfigLedger`, `CommitRefinement`: the abstract ledger that 1 implements.
3. `CommitProofs`: type correctness, and the bookkeeping of the two
   lists, for all parameters and disturbances.
4. `RequestLimiter`, `LoginLimiter` with their proofs.
5. `Sessions`: tokens, middleware and session store, two users on one browser.
6. `ReleaseCache`: the cache of releases, with GitHub as environment.
7. `ConfigTree`, `RuleList`: what set and delete do, and the page of a
   firewall ruleset.
8. `Forms`, `ConfigPages` and the tables `ServiceForms`, `ManagementForms`,
   `VpnForms`, `BalancingForms`, `QosForms`: 133 components of the settings pages.
9. `CommitProofs`: the bar that works alone, and that it implements the
   ledger. `SessionsProofs`, `ReleaseCacheProofs`: all safety properties of 5
   and 6. The size of the limiters' maps.
10. `ConfigTreeProofs`, `ConfigPagesProofs`: the folds over operations and
    fields, and the invariants of the settings pages for all tables.
11. `RuleListProofs`: gestures on different rules add up, and one gesture, moves
    included, does what it says.

Next:

12. Tables for the areas that are left: interfaces, NAT, policy, routing,
    containers, DHCP, PKI, system, firewall groups and zones. NAT and policy
    rules have numbers and moves of their own, as in `RuleList`.
13. `UpgradeQueue`: components that check, wait for a pull and then queue
    (`UpgradesPage.tsx:135`, `ContainerImageUpdateCheck.tsx:84`).
14. Pure algorithms as recursive functions against reference definitions: the
    overlap of log lines, the order of versions and tags, the rounding of the
    confirm time.
15. `Sessions` composed with `PendingChanges`, in place of the SignOut of
    `CommitEngine`; several tabs that share the unsaved list.

Composition: `CommitEngine` extends `PendingChanges`; `CommitRefinement`
instantiates `ConfigLedger`. `ConfigTree` says what an operation does to a configuration and keeps the queue
as a plain sequence of operations, without ids; `RuleList` and `Forms` extend
it, and `ConfigPages` extends `Forms`. The five table modules are data for
`ConfigPages`; `MCConfigPages` puts them together. The limiters are modules of their own: the
commit engine meets the request limiter only as a request that is refused,
which `RouterRefuse` allows at any time.

## 3. The modules and the code

`PROJECT.json` maps each definition to its lines. The overview:

### PendingChanges

The list of queued operations as a set of entries with growing ids (the code
appends with `crypto.randomUUID()` and never reorders, so order of ids is order
of the list). `IsRepeat` and `Cancels` are the two conditions in `add`;
`Persisted` is the storage filter: a value on a masked path is not written.
What a storage holds is not a variable: it is written at each update, and is
`Persisted` of the store.

### CommitEngine

| Variable | Code |
|---|---|
| `running`, `saved`, `timer` | the router: configuration in effect, config.boot, the commit-confirm timer with what it restores |
| `changes`, `committed`, `nextId` | the two stores |
| `ui` | for each panel: `busy`, the open window (`confirm.remaining`), what it confirms, `saveAfterConfirm` |
| `error`, `done` | the bar's error message, "Rolled back" on the Power page |
| `requests` | handlers between their `await` and its reply, with the variables they captured |
| `applied`, `discarded`, `cancelled`, `queued`, `reverted` | history variables for the properties |

A configuration is the set of entries in effect in it. What an operation does
to the tree does not matter for the question whether the lists describe what
the router runs.

A handler is cut at its awaits: `Click...` runs up to the request,
`Router...` is the work of back end and router, the actions under "Replies" are
the rest of the handler (`OpenWindow` for `pendingConfirm`, `CommitDone`,
`KeepCommitDone`, `ImportDone`, `KeepRollbackDone`, `SaveDone`, and `Fails` for
every `catch` with its `finally`). "& Save" is a second request of the same
handler (`SaveAfter`). A request has two states: the router's (sent, ok, err)
and the browser's (live: the panel is mounted; stale: it is not, but its
handler goes on and still updates the stores; gone: the tab was reloaded or the
reply is lost).

The router answers a commit-confirm that replaces an open window in two ways
(restore the configuration before this call, or still the one before the first
window): the code relies on neither, so both are explored. `RouterKeep`
confirms whatever window is open and succeeds when there is none, as VyOS does.

The constant `Disturbances` says what may interfere with a bar that works alone:
`late_keep`, `lost_reply`, `power`, `import`, `reload`, `sign_out`, `reboot`,
`mark_saved`. Each run names those under which its properties are meant.

### ConfigLedger and CommitRefinement

The ledger is what the user is promised: drafts become live atomically, live
edits are unsaved until they are saved, a rollback goes back to what is on
disk. `CommitRefinement` maps the engine to it: a window that is open has not
happened (`live` is what the timer would restore), and a final commit whose
reply is under way has already left the drafts and entered the unsaved list.

### RequestLimiter

`Allow` under its mutex is one action, `Grant` or `Refuse`, with the sweep
(`Swept`) and the filter (`Kept`) that come first. A recorded time carries a
serial number so that two requests at one instant count twice, as in the
slice of the code. `granted` is the history of all that was let through.

### LoginLimiter

A login is a process with the stages idle, queued (it has passed `Allow` and
waits for a slot) and verifying. `Arrive` is `Allow`, `Reserve` and
`ReserveRefused` are the call in `Verify`, `Wrong`, `Right` and `Outage` the
three ends of a verification (counted already, `RecordSuccess`, `Refund`).
An inactive source is forgotten when it
comes back, in `Allow` as in `Reserve` (`Refreshed`). The shift of `BaseDelay` wraps at `Width` bits, as a signed
`time.Duration` does. `charged`, `lastAt`, `owned`, `due` and `stray` are
history: the attempts that count against a source, when the last was made, which
logins they belong to, until when its backoff lasts, and the sources a refund
has taken somebody else's attempt from (a login reserves, another one of
the same source succeeds and clears the count, a third one reserves, and then the
first is refunded).

### Sessions

A token is a record (who, when logged in, until when); the server keeps
nothing else. `cookie` is the one of the browser, `tab` the session store and
the queue of a tab, `request` the calls under way. A request goes through three
steps: `Send` attaches the cookie and captures the generation, `HandleLogin` or
`RequireSession` is the back end, `Deliver` is the browser, which first obeys
Set-Cookie and then runs the rest of the handler (`CheckDone`, `LoginDone`,
`WorkDone`, `LogoutDone`). Replies come in any order; with `lost_reply` a
request may be lost before or after the back end has seen it. `loggedIn` is
the history of true logins. `Reload` gives a tab a new store; the queue stays,
and nobody knows any more whose it is (`lastUser` is in memory).

### ReleaseCache

A request of the Upgrades page is up to three steps: the look at the cache, the
answer of GitHub, and storing it. The mutex covers the first and the last, so
two fetches may be under way and end in either order. Time is what is left of
each lifetime. `answer` and `spared` are history: what the last answer was
compared with what was out at the click, and when a browser last made the back
end ask GitHub. The order of versions is left out: releases are numbered.

### ConfigTree

A configuration is a set of nodes, a path with a value or none. `AfterSet` and
`AfterDelete` are the tree operations as the tests' stand-in of the router does
them (`fakevyos.go`, `setNested`, `deleteNested`): a set creates
the nodes above it and replaces a single value, a delete takes the subtree
along.

### RuleList

The rules of a ruleset with their numbers and fields, the queue, the one open
form. `ReorderRuleOps` is the whole algorithm of a move: a free number between
the new neighbors if there is one, or renumbering all rules in steps,
deletes first. `Submit`, `QueueDeleteRule` and `ReorderRule` compute from
the rules as last fetched. `Habits` says what a run lets the user do
besides: `leaves_form_open` over a commit, `queues_more` gestures before one. The commit
and the fetch after it are one step.

### Forms, ConfigPages and the tables

For each kind of object the client has three pieces of code: its type
(`*Types.ts`), its parser (`*Parse.ts`) and its form (`*Form.ts`), and a
component that puts them together. In the table modules each is a function from
fields to what the code says of the field: the type to its kind and to what
stands for an unset one (blank, FALSE, {}, a default such as "15k"); the parser
to the path it is read from; the form to the path and the way it is written
(`ScalarFields`, `FlagFields`, `ListFields`, `ChoiceFields`, `SecretFields`,
`RawFields`). Forms trim what they save; seven of the functions that add an entry
to a list do not, and set what was typed as it was typed: `addTunnelOps`,
`addQosMatchOps`, `addHAProxyServerOps`, `ruleOps`, `addWANHealthTestOps`,
`addRouterAdvertPrefixOps`, `addRouterAdvertRouteOps`; their fields are raw. A
number is read with `numberOrUndefined`, for which blanks are 0 and what is no
number is unset (`Numerals`, `NumeralsOr`).
The names are those of the code: `SSHConfig`, `parseSSHConfig`,
`sshFormToOps`, `SshSettings`. `Forms` says what the tables mean
(`ReadField`, `FieldToOps`, `FormToOps`, `multiValueDiffOps`) and how a
component is used: a settings form, one behind Enable and Disable buttons, a list whose
entries are added, edited in place, edited in a panel, or created and edited
with one form; with chips and switches that are queued at once; with a form that
starts again when what it shows has changed (`useBaselineState`) or keeps
what it has.

`ConfigPages` is the behaviour of any one of them: `Init` chooses the component
and whether it is filled in. `config` is the router, `shown` what was last
fetched, `queue` the changeset, `form` the component's local state. `Rendered` is
what React does after a change: a form whose place is gone disappears, one that
is new starts with the values shown, and one with a baseline starts again.
`Interfere` is another administrator, who fills the component in; `Refetch` is
the poll that notices.

### Wrong variants

Next to some definitions stand variants with a plausible mistake (for example
`RecordAndClear`, `OpenWindowSavesFirst`, `UiExpireWhenFree`, `FilterAfterShort`,
`EvictPartlyStale`, `SweptForRoom`, `ReserveUnchecked`, `BackoffUnguarded`,
`RenewedExpUncapped`, `HandleUnauthorizedAlways`, `StoreFailureRenews`,
`ReorderRuleOpsOneByOne`, `RenderedKeeping`, `EnabledAsFetched`). The
specifications do not use them. Put in place of the right definition, each makes
TLC report the property `PROJECT.json` pairs it with: this shows that
the property depends on that piece of code.

## 4. The runs

Runs that hold:

| Run | Instance | What it shows |
|---|---|---|
| `commit_bar` | three edits, two requests at once, no disturbance | `ListIsExact`: once nothing is under way the unsaved list is exactly what a reboot would lose. `RevertedIsPending`: what the router reverted is pending again unless the user took it back. `SaveIsNeverTentative`: nothing unconfirmed is written to disk. `ImplementsLedger`: the refinement. |
| `commit_faults` | two edits on a masked and a plain path, one request, seven disturbances with all panels | `NoEditLost`, `NeverPendingAndCommitted`, `RecordedWasApplied`, and the inductive invariant `BookkeepingInv`. |
| `commit_reboot` | reboots at any time | `ListIsComplete`: nothing a reboot would lose is missing from the list. |
| `commit_live` | with fairness; late Keeps, lost replies | `BusyEnds`, `KeepIsWithdrawn`. |
| `request_limit` | three users, limit two | `RollingLimit`: in no window more than the limit. `CountsAreExact`: no refusal below it. `GrowsOnlyWithActiveKeys`: the map exceeds its limit only with active users. |
| `login` | two addresses, three logins, two slots | `CountIsExact`, `NeverOvercharged`, `BackoffHolds`, `BlocksStand`, `BlocksDouble`, `GrowsOnlyWithActiveSources`. |
| `sessions` | two users, one tab, two requests at once, reloads, lost replies, with fairness | `TokensAreBounded`, `AcceptedInTime`: renewals never reach beyond the cap, and nobody acts for another. `StaleReplyNeverSignsOut`: no late answer ends a newer session, logout's own excepted. `ForeignChangesOnlyAfterReload`: the queue changes hands only through a reload. `StatusSettles`: the page does not stay in "Loading...". |
| `release_cache` | two browsers, two releases, with fairness | `FreshIsRecent`, `ForcedIsCurrent`, `KnownResultBeatsError`, `GitHubIsSpared`, `NewestIsSeen`. |
| `rule_list` | rulesets with and without gaps, up to two gestures before a first commit, one before a second, forms left open | `CommitDoesWhatWasAsked`: a commit of one gesture changes what VyOS evaluates as the gesture says. `SeparateGesturesAdd`: gestures on different rules do not disturb each other. |
| `config_pages` | 133 components, one at a time; three gestures, a commit, another administrator | `SavedIsShown`: type, parser and form of every field agree. `OnlyTouchedIsQueued`: a form brings nothing back that the user did not touch: the forms that start again with their baseline never, the others until the first commit or change. `ToggleIsTrue`: Enable and Disable tell what a commit would do. |

Which disturbances which property of the commit engine withstands. That it
holds is proved for all parameters (section 6); that it fails is found with two
edits and two requests:

| Property | Holds under | Fails under |
|---|---|---|
| `NoEditLost`, `NeverPendingAndCommitted`, `RecordedWasApplied` | every combination | |
| `ListIsComplete` | none, `reboot` | `power` (finding), and each of the others alone |
| `RevertedIsPending` | none, `reboot`, `mark_saved` | `late_keep`: VyOS confirms successfully after its window |
| `SaveIsNeverTentative` | none, `late_keep`, `reboot`, `mark_saved` | `lost_reply`, `power`, `import`, `reload`, `sign_out`: the window is open and the bar does not know |
| `ListIsExact`, `ImplementsLedger` | none | each one alone |

Most of the failures are consequences of the design and not claimed otherwise
by the code: the list is documented as the changes made "through this app", a
reload forgets the countdown, "Mark as saved" trusts the user. Those that contradict a statement in the
repository are findings.

Runs that end in a counterexample: section 7.

## 5. Bounds, symmetry and fairness

* Commit engine. One to three edits: the properties relate an edit in flight
  to one queued meanwhile and one committed earlier, which are three. Two
  requests at once: a panel has at most one, and the races found are all between
  two. Two confirm windows: one open at the router and one a panel still shows;
  identities are reused when nothing refers to them any more, so
  the number of windows in a behaviour is not bounded, and where no identity is
  left a timed call has to wait. One path that is masked
  and one that is not; operations that cancel each other on one path and a value
  on the other. Without a bound the properties of the two lists are proved.
* Request limiter. Three users against a map limit of two, so that sweeps
  happen with and without stale entries; horizon 4 with a window of 2, so that
  requests leave the window and come again.
* Login limiter. Three logins for two addresses and two slots: two that have
  passed `Allow` together and one that comes later. Two attempts before
  the first block, delays 1, 2 and 3 (capped), a window of 3 and a horizon of 4,
  so that blocks and inactivity end inside it. Three bits for a duration: the
  shift overflows after as few failures as the instance can count.
* Sessions. A session lives two ticks, the cap is three, the clock five: a
  token can expire, be renewed, reach the cap and be followed by another login.
  Two users and two logins, so that the queue can change hands. Two requests
  at once: a late one and the one that overtakes it. One tab; with two the state
  space does not fit the time of a run.
* Release cache. A good result lasts three ticks, a failure two, a call one: a
  result can be stored one tick after it was given, expire while a failure is
  remembered, and the other way round. Two requests: one that overtakes the other.
  Time is not bounded. Two releases: one that is missed.
* Rule list. Three rules with a gap and without, two rules whose first number
  leaves no room before it, and none. Two gestures before the first commit: one that
  is computed without regard to the other. One more before a second: from a form
  that was left open. Two fields are changed in a form; one typed number (5) beside
  those suggested.
* Config pages. One field is touched between two commits (`MaxTouched`): most of
  what goes wrong in a form needs one field and what the router held before.
  With `MaxTouched = 2` every page passes too (904,922 states, about four
  minutes); the run keeps 1 for its time.
  Three gestures: open, type, save; or type, save and a switch. With five
  gestures, two commits and a change each page passes alone as well, four large
  ones excepted, which do not end in reasonable time. Texts are blank,
  spaces, a new one, alone and between spaces, the old one, and what another
  administrator sets; where a number is asked for also a word. One entry of
  each list.
* Symmetry: windows, users, addresses and logins are interchangeable in
  definitions and properties; symmetry is off in the run with liveness.
* Deadlock is not reported: edits and time are bounded and nobody has to click,
  so a behaviour may stop.
* Fairness (`FairSpec`). Weak fairness of the router's work for each panel
  and of its replies: every request has a time limit in the back end, so it is
  answered or fails. Weak fairness of the router's timer and of the countdowns.
  None for anything the user does: no property depends on a click.
  `Sessions`: weak fairness of answers, strong fairness of the page's own probe,
  since the bound on requests under way, which the browser does not have, can
  keep it waiting again and again. `ReleaseCache`: the clock runs, results are
  stored, and a call ends in time; strong fairness of the page's load (it polls)
  and of GitHub's answer to a call while it is reachable again and again, which assumes
  that browsers do not cancel every request for ever.
* `UiExpire` cannot come before the router's own end of the window: the back end
  rounds seconds up to minutes and returns the rounded value, and the
  browser counts from the reply. Clock drift between the two is left out.

## 6. The proofs

All theorems hold for arbitrary sets of paths, values, windows, users, addresses
and logins and arbitrary bounds, from the ASSUMEs of the modules only. Those
about the bar alone have a hypothesis on `Disturbances`, `TogglesAreTrue` has one
on the tables.

* `CommitProofs`: `TypeCorrect`. One lemma for each group of actions.
* The same module: `EditsAreNeverLost`, `ListsAreDisjoint`,
  `RecordsAreTrue`, under every combination of disturbances. None of the three
  is inductive: the bookkeeping happens at the reply and uses what was captured
  at the click. `BookkeepingInv` adds what connects the two: the entries of a
  Keep, or of a commit or import the router has run, have been applied
  (`SoundRequest`), so have those of an open window (`SoundPanel`); every id in a
  list, request or panel is below `nextId`, so a fresh entry is in none of them;
  and what an import records was never queued.
* `RequestLimiterProofs`: `NeverMoreThanMax`, `CountsStayExact`, from
  `LimiterInv`: what the map holds of a user was granted, and within the window
  it is all that was granted. So the limit is compared with the true count of
  the window that ends now; no later request falls into a window that ends
  earlier. `GrowsOnlyWithActive`, here and in the next module, needs besides that
  the map is finite.
* `LoginLimiterProofs`: `SourcesAreNeverOvercharged` and `BlocksAlwaysStand`
  from `ThrottleInv` (a tracked source's times are those of its latest attempt; a
  block ends at most `MaxDelay` after it; an attempt is given back at
  most once), `CountStaysExact` and `BackoffAlwaysHolds` from `CountInv`. They use
  `MaxDelay <= Window`, which holds for the values of `NewLoginLimiter` (5
  against 15 minutes): with a longer delay a sweep could end a block.
  `TypeCorrect` and `GrowsOnlyWithActive` follow from `ThrottleInv` as well.
  `BlocksAlwaysDouble` is arithmetic about the shift (`ShiftFacts`): a wrapped
  value is 0 or has at least the factors of two of the value before it wrapped,
  and those alone exceed `MaxDelay`. The laws of `2^n` it needs come from counting
  subsets. It uses `ShiftAssumption`, true of 1 second and 5 minutes in
  nanoseconds: with an odd `BaseDelay` and a `MaxDelay` nearer to the width a
  wrapped value could pass for a short delay, and the property would be false.
* The same module, the bar without the other panels. The theorems take the
  disturbances as a hypothesis, the ones of the table in section 4: with any
  other the property is false. `Alone` is late Keeps, reboots and "Mark as
  saved"; `Punctual` is `Alone` without the late Keeps.
  * `SavesAreNeverTentative` (under `Alone`) from `WindowInv`: the bar has one
    request at most and is busy while it has it; a window that is open at the
    router is the one the bar shows, or the one that the reply under way will
    show (`TimerIsKnown`). A save is only sent when neither is the case.
  * `RevertedStaysPending` (under `Punctual`) from `ContentInv`: what an open
    window would take back is either a commit whose entries are still queued (or
    discarded) and not on disk, or a rollback, with nothing but the
    saved configuration running (`Tentative`); what is queued and in effect is
    on its way into the unsaved list; disk is part of what is in effect. It is not
    inductive without `BookkeepingInv`, which says that ids are fresh.
* The same module: `BarImplementsLedger`, one lemma for each group of
  actions that says which step of `ConfigLedger` it is. A commit happens
  in the ledger when it becomes final on the router (an ordinary commit, or
  the Keep), a save and a rollback likewise; every click, reply and end of a
  window changes nothing there. `TheListIsExact` is then proved of the ledger,
  where live edits are the saved ones and the unsaved ones, and carried over.
  `TheListIsComplete` adds the reboot, which is no step of the ledger and only
  makes the running configuration smaller.
* `SessionsProofs`: `TokensAreAlwaysBounded`, `AlwaysAcceptedInTime`,
  `NoForeignChangesUntilReload`, `StaleRepliesNeverSignOut`, `TypeCorrect`, for any
  number of users, tabs and requests under way, also with lost replies and
  reloads. `SessionsInv` adds what a request remembers (`SoundRequest`): the
  generation it captured is at most its tab's, and when it is the same, so is the
  session; while a tab is in "Loading..." nothing of it is under way but its one
  probe (`OneProbe`); a tab that was not reloaded knows whose its queue is
  (`KnowsItsQueue`), and a signed-in one holds its own user as `lastUser`.
* `ReleaseCacheProofs`: `FreshIsAlwaysRecent`, `ForcedIsAlwaysCurrent`,
  `ErrorMeansNothingKnown`, `TypeCorrect` from `CacheInv`: a result on its way to the
  cache misses only what came out since GitHub gave it, within the time limit
  of the call (`SoundReply`). `GitHubIsAlwaysSpared` from `AnsweredFromCache`:
  as long as a browser is to be spared, a good result or a failure is
  remembered. It uses `NegativeCacheTTL <= CacheTTL`, true of the constants in
  `client.go`: with a shorter good result GitHub would be asked again sooner.
* `ConfigTreeProofs`: lemmas about the operators of `ConfigTree` and `Forms`.
  The library's induction theorems cannot be used (they take an operator as a
  parameter), so induction is over a set: the subsets of a finite set that
  satisfy a predicate, and a minimal counterexample (`SubsetInduction`,
  `Induction`). From it follows what the folds do: `AfterOps`, `AddAll`,
  `OnlySets` pass through a sequence of intermediate results (`AfterOpsRun`,
  `AddAllRun`, `OnlySetsRun`), and what a form queues stays in any set closed
  under its steps (`ChangesToOpsIn`). On these rest the types, and what
  operations at and below a node do to it (`NodeIsKept`, `NodeIsRemoved`).
* `ConfigPagesProofs`: for any number of components whose tables are well-formed
  (`WellFormed`; TLC evaluates `PagesAssumption` for the 133 there are).
  * `TypeInvariant`, `TypeCorrect`: every text that gets into the queue is one
    of the component's (`Leaves`): a text with spaces at its ends only where the
    component has a raw field, a word for a number only where it has numbers.
  * `OnlyTouched` from `TouchedInv`: until another administrator acts, the client
    shows what the router runs; what was not typed in an open form is what is
    shown (or blank, for a new entry); a form for an existing entry is open
    only while the entry is there, so it does not set it again.
  * `TogglesAreTrue` from `SwitchInv`: while the form is there no delete of the
    node is queued, and the node is shown or set by the queue; otherwise the
    queue is empty and the node not there, or the delete is the last of
    such a queue. The hypothesis `GatesAreOwn` says that the buttons queue the
    node the component is about; TLC checks it of the 133 components
    (`OwnGates`), and it is false of the two of `enable_l2tp`, where the property is.

* `RuleListProofs`: for any rulesets to begin with (`StartAssumption`: each
  setting once, rules with numbers above zero), any texts and any number of
  gestures and commits.
  * `RulesetCorrect` from `TypeInv`: every operation on a rule or a setting leaves
    a ruleset (`OpKeepsRuleset`), a suggested, halved or renumbered number is
    above zero, and so the queue only holds operations on rules.
  * `SeparateGesturesAlwaysAdd` from `QueueInv`: as long as all gestures since the
    last commit concern different rules, the queue is, as a set, the union of
    what each of them would queue now (`AllOps`). `add` takes nothing back then,
    because no gesture sets and deletes the same path (`NothingTakenBack`). Each
    setting is touched by at most one operation of the queue, so in whatever
    order they stand it decides alone (`SettingAfterOps`), and what is not
    touched showed in the form what the router holds (`FieldIs`). The form
    writes a flag it knows as present, hence `PresentAssumption`.
  * `OneGestureIsWhatWasAsked` states `CommitDoesWhatWasAsked` for rulesets of any
    size. The rules that VyOS evaluates are seen as the one ascending sequence of
    the numbers with their contents (`SequenceIs`). A move permutes the rules
    (`MoveItemPermutes`), the numbers it gives ascend, whether one rule goes
    between two neighbors (`OneIsRenumbered`, from `IdealNumberIs`) or all are
    numbered again (`RenumberingIs`); its deletes come before its sets, and `add`
    keeps all of them in that order (`QueuedInOrder`). The commit then leaves every content under its new number
    and nothing elsewhere (`MoveDoes`). For saves and deletes the lemmas of
    `SeparateGesturesAlwaysAdd` say what becomes of every rule, and `WithoutRule`,
    `ChangedRule`, `AddedRule` where it stands. `AskedInv` is the invariant: what
    was asked fits the rules fetched, and one move alone in the queue is queued
    as computed. The hypothesis `[]Filled(router)`, every rule has a setting, is
    a fact about the router: VyOS refuses a rule without an action. The model's
    router accepts one, and the property is false then (section 7). In the run
    `rule_list` no rule is ever empty: it takes three gestures on one rule.

The inductive invariants other than `BookkeepingInv`, and `TypeOK` of `RuleList`,
are in no run. Those of the
other modules were model-checked on the constants of the runs before they were
proved; of `ConfigPages` the consequences were. All consequences are in the runs.

Only model-checked:

* Liveness: `BusyEnds`, `KeepIsWithdrawn`, `StatusSettles`, `NewestIsSeen`.
  Fairness and ENABLED are beyond the provers used.
* `SavedIsShown` of `ConfigPages`: it depends on the tables agreeing with
  each other, field by field: what the run shows is about the tables as they
  are, and a proof for all tables would have what the run checks as a hypothesis.

## 7. Where code and documentation disagree

Two runs end in a short behaviour:

* `two_moves`: every move of a rule is computed from the rules as last fetched
  (`RulesetDetailPage.tsx:94`, `firewallRuleForm.ts:243`). Two rules that are
  moved into one gap before a commit get one number, and a rule is lost.
* `enable_l2tp`: Enable of the L2TP and PPTP servers queues `set vpn l2tp`
  (`vpnAccelPppForm.ts:20`); the parser counts the server as enabled once
  `remote-access` exists (`vpnAccelPppParse.ts:180`). The page shows it as
  enabled until the commit, and then as disabled.

Other disagreements have a property in the modules, false in the code, and no
run of their own. Each is reproduced by checking the property under the cfg of
a run with the change named:

| Property | Run and change | What happens |
|---|---|---|
| `ListIsComplete` | `commit_reboot`, Disturbances {"power"} | The Power page's save is under way, the bar commits, and the reply to the save empties the whole unsaved list (`PowerPage.tsx:82`). |
| `ExpiryNoticeIsTrue` | `commit_bar` | The countdown ends while the reply to a Keep is under way, and the bar says that VyOS reverted a commit which VyOS has confirmed (`PendingChangesBar.tsx:151-157`). |
| `CommitAndSaveSaves` | `commit_bar` | A Keep fails and a second one succeeds; the first reset `saveAfterConfirm`, so "& Save" is dropped (`PendingChangesBar.tsx:276`). |
| `CancelledNeverApplied` | `commit_bar` | A Disable is under way when the user queues the Enable; `add` cancels the pair, and the router runs the Disable (`pendingChanges.ts:135`). |
| `BlockIsCharged` | `login` | A refund lowers the count but leaves the longer block the refunded attempt set, as long as the count stays at or above the limit (`ratelimit.go:144`). |
| `NoForeignChanges` | `sessions` | After an expired session and a reload the next user finds the changes of the one before (`session.ts:72-75`). |
| `OnlyTouchedEver` | `config_pages` | A form that keeps its values (the lists) is open while another administrator changes the entry, or while the user's own commit does (five gestures); saving brings all the old values back, which `useBaselineState.ts` prevents where it is used. |

Met while modelling, and visible in a guard or an exception of a definition:

* A save is compared with the configuration shown, not with the queue
  (`configOps.ts:9`). Retyping the old value and saving again queues nothing, and
  the first save stays queued (`again` in `Save`).
* The number suggested for a new rule comes from the committed rules
  (`RuleForm.tsx:35`): two new rules before a commit get the same one and become
  one rule.
* Deleting a rule, then setting and clearing its description in the form that is
  open again leaves, on a router that accepts it, a rule without settings. A move
  that numbers all rules again queues nothing but `set <<new number>>` for it
  (`firewallRuleForm.ts:276`), and where another rule had that number `add` takes
  this as the withdrawal of its delete (`pendingChanges.ts:132`): that rule is then
  there twice. `Filled` excludes it.
* Lists other than the firewall's leave an edit form open after Delete; saving it
  brings half the entry back. `RulesetDetailPage.tsx:68-77` explains why it closes
  the form. (`RemoveEntry` leaves `form` alone; the expectation is dropped.)
* A setting queued below a service that another administrator removes creates the
  service again at the commit, while the page shows it as disabled. (`Interfere`
  only fills in.)
* The seven raw functions (section 3) queue a single space as the value of a field
  that was left blank but for that, where every other form deletes it or leaves
  it alone, and `" new "` where the others queue `"new"`. What is shown afterwards
  is what was queued; a port or a lifetime of a single space is shown as 0 where the
  page reads it as a number (`Zero` in `Expected`).
* What is saved in a numeric field and is no number is shown as if the field were
  unset, while the router has it (`haParse.ts:14-24`; `Word` in `Expected`). A form
  opened afterwards starts from what is shown, so leaving the field unset there
  queues no delete.
* A secret stays typed in a settings form after it was saved, and the next save
  queues it again.
* An older fetch of the releases that is stored last replaces a newer result and
  counts as fresh (`client.go:243`); `FreshIsRecent` bounds the damage by the
  time of one call. The error of a request that the browser cancelled is
  remembered for all (`client.go:230`).
* `logout()` signs the tab out in its `finally`, whatever has happened since: the
  exception of `StaleReplyNeverSignsOut`. A reply that arrives after the one to a
  logout sets the session cookie again (`middleware.go:104`).
* A Keep after the end of the window is reported as a success (`RevertedIsPending`
  fails under `late_keep`), and a refund after a success can give back an attempt
  of another login (`stray`; `RefundUndoesOne` is `CountIsExact` without that
  exception, and is false).

## 8. What is not modelled

* Settings pages of interfaces, NAT, policy, routing, containers, DHCP, PKI, the
  system, firewall groups and zones: planned (section 2). They are made like
  those modelled.
* Of the settings pages modelled: fields that are written as one unit with others
  (address of a dynamic DNS entry, the mode that the Zabbix form sets along with
  a key, logging facility and `vrf` of HAProxy, limit of a WAN rule,
  authentication of a VRRP group), and what is shown and never edited (VTI,
  X.509, RSA and PPK of an IPsec peer). Options that a function takes and its
  component always leaves empty (base interface of an advertised prefix, check port
  and proxy flags of a HAProxy server, some of a QoS match) can be typed here. What
  is chosen from a list of options and set untrimmed is a scalar here, and spaces
  stand for the empty option; the type of a new WAN health test is always set, to
  `ping` if to nothing else, and here only when it is changed. Of a number only
  the texts `Number()` treats differently are told apart, not `05` from `5`. A
  list below a
  disabled service is shown whether or not the service is. The l2tp sections
  stand for sstp as well where they share the component. The failure count and
  interval of a VRRP health check, whose defaults appear with the check, are
  blank. The order of `parse...` lists, labels, hints and checks of input are
  left out.
* Tags and versions, upgrade buttons, live views: planned (section 2).
* CSRF: every request of this client carries the header. Empty rules: the form
  requires an action.
* Several tabs: they share the unsaved list in `localStorage` and
  each writes all of it. The model has one tab.
* That the router refuses an invalid configuration: in the commit engine a refusal
  is possible at any time and changes nothing, and there configurations are the
  entries applied; what set and delete do to the tree is in `ConfigTree`.
* Stateless handlers of the back end, the VyOS client and its text parsers, the
  reading of settings, the command line, certificates, headers, static files:
  one call in, one call out, no state that two steps could disagree on.
* The hash functions and the matching of secret names: data, not control.
* Layout, wording, logging.
