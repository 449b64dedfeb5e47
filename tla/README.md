# tools-common in TLA+

`tools-common` is the Go library under a family of local tools: each tool shows
a page in the browser (served by one background process, the *serve*) and lets
the person on the page talk to coding-agent sessions through a *channel*. The
library's own logic is in keeping those processes in step: messages that must
reach an agent once and be settled once, one serve per machine, pages that miss
nothing, files that several processes write with little or no locking. This
directory models that logic, checks it with TLC on small instances and proves
the parts that matter most with TLAPS.

Paths below are relative to the repository.

## The system's parts

| part | code | state it keeps | modelled in |
|---|---|---|---|
| message lifecycle | `msgstate/` | none: a table of allowed moves | `MsgState` |
| thread store | `threadstore/` | SQLite tables: scopes (owner), batches (Sends), messages, deliveries | `ThreadStore`, `Handout`, `Tenure` |
| event log and page feed | `pageserve/events.go`, `localweb/page/assets/live.js` | the log and its readers in serve; stream, polls, timer and cursor in the page | `PageFeed`, `Feed` |
| serve lifecycle | `pageserve/server.go one.go stale.go lifecycle.go client.go token.go` | the entry file, `serve.lock`, `start.lock`, `fresh.lock`, the kept token; a serve's phase | `ServeLifecycle`, `KeptToken` |
| live sessions | `pageserve/live.go` | one entry file and one claim lock per page, one presence record per session | `LiveEntries` |
| channel | `pageserve/channel.go`, `channelmcp/` | the wait loop's session, a queue of notifications, a bounded queue of reports | `Reports`, `Channel` |
| agent plugin | `claudeplugin/` | the mod's watch process, its prompts and its chain of reports | `Reports`, `Plugin` |
| tabs | `localweb/tabs.go` | open tabs and when each was last seen, saved to a file | `Tabs` |
| database | `sqlitedb/` | one SQLite file: journal mode, version | `Migrate` |
| sign-in | `auth/auth.go` | pending sign-in, token file | `SignIn` |
| files and self-update | `fileutil.go selfupdate.go` | files written by rename; the binary | `KeptToken`, `Update` |
| skills | `skills/` | one directory per harness | `Skills` |
| the rest | `localweb/` pages, `setupbundle/ harness/ hookconfig/ sessiontheme/ mermaidkit/ wiregen/` | none shared between processes | see *Not modelled* |

How they meet: a page posts messages to serve over HTTP and hears of changes
through the event log. A channel is a process per agent session: it finds the
serve through the entry file, claims the session's messages from the thread
store through serve's API, hands them to the agent and passes on what the
agent's hooks report. Many channels, commands and pages run at once; serve may
be killed or replaced under them at any time. Within serve, handlers run
concurrently and meet in SQLite transactions and in the event log's mutex.

What is hard, and what makes each part correct:

* **Thread store.** Reports arrive late, twice or after a takeover; a caller's
  snapshot of who is present is stale; replies cover part of a delivery. No
  message may be left with an agent that cannot settle it, be answered twice,
  or be split from its delivery, and a scope has one holder.
* **Page feed.** Streams break, the log trims, serves restart, the tab hides,
  and polls stand in for the stream and race with it. Nothing twice, nothing
  out of order, no silent gap, never deaf.
* **Serve lifecycle.** Check-then-act on a file several processes share. One
  serve, found by everyone; an install noticed; calls that always return.
* **Live sessions.** One channel reached by each page, though the lock file is
  itself removed; a living channel heard of; a scan that loses no page.
* **Channel and plugin.** An answer lost after the claim committed, a full
  report queue, a dropped prompt, a reload under a running watch. The server
  is never ahead of what the agent really has, and catches up unless something
  was given up on.
* **Tabs, database, sign-in, token, update, skills.** Stale lists after a
  restart, migrations run once, a logout during a sign-in, one token for all, a
  swap cut short, a name that becomes a symlink under a call.

## Modules

| module | models | with |
|---|---|---|
| `MsgState` | the lifecycle table of `msgstate` | operators only |
| `ThreadStore` | every write of the thread store | extends `MsgState` |
| `Handout` | what the store promises of a message | implemented by `ThreadStore` |
| `Tenure` | what the store promises of a token | implemented by `ThreadStore`, spoken to by `Reports` |
| `PageFeed` | serve's log and one page's `live.js` | |
| `Feed` | what a page is promised of the log | implemented by `PageFeed` |
| `ServeLifecycle` | serves, their clients, entry and locks | |
| `LiveEntries` | the live directory: servers, channels, scans | |
| `Reports` | a session's Sends, as the server and as the agent knows them | |
| `Channel` | the channel of a pi session | extends `Reports` |
| `Plugin` | the mod of a Claude Code session | extends `Reports` |
| `Agents` | a session of either harness, under the same promises | instances of both |
| `Tabs`, `SignIn`, `Migrate`, `KeptToken`, `Update`, `Skills` | one component each | |
| `MCThreadStore`, `MCStoreShapes`, `MCPageFeed`, `MCServeLifecycle` | model values, symmetries, sizes | |
| `MCFiles` | `LiveEntries`, `Tabs`, `SignIn`, `Migrate`, `KeptToken`, `Update`, `Skills` side by side | |
| `ThreadStoreProofs`, `PageFeedProofs`, `ServeLifecycleProofs`, `LiveEntriesProofs`, `TabsProofs`, `SkillsProofs` | theorems on the module they are named after | TLAPS |
| `AgentsProofs` | theorems on `Channel`, `Plugin` and so `Agents` | TLAPS |
| `FilesProofs` | theorems on `KeptToken`, `Migrate`, `Update`, `SignIn` | TLAPS |

`MCFiles` extends several components at once, so theirs are named apart
(`SignInInit`, `SignInNext`, `CallGoes`; `TabsInit`, `tabsFile`; ...). They
share no state: a variable `part`, chosen once, says which of them runs, and the
others keep still. A run of `MCFiles` is therefore one check of each.

### ThreadStore, Handout, Tenure

`scopes`, `batches`, `messages` and `deliveries` are the four tables whose rows
change (`schema.go`); `now` is the store's clock. Each exported operation is one
transaction that begins by writing, so SQLite serialises them and each is one
action; callers interleave freely. A claim takes *any* set of sessions as the
present ones and any scopes as those it may take over: the code's callers pass
what they knew earlier. A delivery's token is the number of its claims, since
the code draws a new random token for each; reports name a delivery and a token
and are modelled for every token ever drawn. Text, meta, notes, thread and read
queries are left out; the `line` under a message is a Boolean, a message's
replies a count. One field of a message that another part depends on, its queue
time, is kept with the clock.

`Handout` knows only how far each message has come and which session has it.
`StageOf` and `HolderOf` in `ThreadStore` are the refinement mapping: what is
`sent` waits while it is queued and is given otherwise. `ImplementsHandout` is
`Handout!Spec` under that mapping.

`Tenure` knows only the tokens: how far the claim that each names has come, and
whose it is while it is open. Its session moves it on by reports and replies;
anybody else can only take it away. A delivery's row tells only of its last
token, so `ViewOf` maps an earlier one to `taken` and a later one to `none`.
`ImplementsTenure` is `Tenure!Spec` under that mapping and says besides that each
report does exactly what `Tenure` says of the report of its name
(`ToldAsNamed`), since that is what the harness side counts on. `Tenure` is the
contract between the store and the agents: `Reports` speaks to it for one
session (`Server`), so that what a report does there is not `Reports`' own guess
at the store. Replies, `Tenure`'s `Answer`, are on the store's side only.

### PageFeed

`boot, up, made` are serve and its log (a cursor is boot and count, as on the
wire); `link` is the stream's connection with the frames in flight; `es,
cursor, timer, hidden, status, stopped, polls` are `live.js`. Each callback,
timer and handler is one action; writing one frame is one. `Poll` and `Stream`
both ask `resume` first and read the log with `after` once it is unlocked, so each
is two steps (`ResumePoll`, `AnswerPoll`; `AcceptStream`, `ReadLog`) and the log may
go on and trim between them. `epoch` is kept as
what the code compares it for: whether a poll in flight was sent in the current
one. `times` and `told` are history, what `onEvent` was called with; so are
`jumped`, the events a poll's reset passed, and `crossed`, that the page took the
answer of a poll it had sent from another cursor than the one it then had.

`Feed` has the log and the page's place in it and nothing between: the page goes
on event by event (`Hear`), over none but what the log has trimmed by then (the
run `PageFeed_lag` shows that this happens), or leaves for a place it could not
have gone on to, another serve's log or one past what is trimmed, and is told
(`Reset`) or, when a poll brought it there, is not (`Miss`; the run
`PageFeed_reset` shows what that costs). A page that takes an answer it asked for
from another place (`crossed`, as in the run `PageFeed_overlap`) is promised
nothing more. No mapping is needed: `Feed`'s variables are among `PageFeed`'s.

### ServeLifecycle

Each process is a program counter. `Running` is three steps (read the entry,
ask whether its process lives, remove the file by name), because the code
holds no lock there that removal respects; writing and removing one file are
atomic. A serve goes through `locking, looking, setup, serving, stopping,
leaving, exited`; a client runs `Fresh`, ensure or `Stop` and may give up where
the code's waits end. `robbed` is history: some `Running` removed the entry of
a living serve. Process ids are not reused (the code accepts a recycled id as a
false positive). A stop is taken by the serve that was found or, that one gone,
by another on the kept port with the kept token.

### LiveEntries

One file call is one step: reading, writing over (`WriteFileAtomic`) and
removing a file are atomic, and between asking whether a process lives and
acting on the answer anything may happen. A lock file is an inode: `lockFile`
is the one the name stands for, `lockHeld` who holds each, so that `Remove` can
take the name away under a Claim and the next Claim lock another file. `Claim`
and `Inspect` are program counters (`pc`) with the values they carry (`room,
inode, got, asked` and `todo, kept, pages`). Processes die at any step, and the
kernel drops their locks. `won`, `unlinked`, `robbed` and `steady` are history.

### Reports, Channel, Plugin, Agents

`view` is a Send as the server knows it, `truth` the same Send as it really is
with the agent; the three reports (held, landed, turn ended) move `view`, and
`lost` notes that an answer, a process or a report was given up on. A Send can be
taken away (`Taken`) at any moment while the server has it with the session: by
another's claim, a release, an interrupt. What the agent then reports of it the
server does not take (`Told`). `Channel`
is the four goroutines of one process, which meet in the bounded `out` and
`reports`; each call looks serve up anew and may meet another one. `Plugin` is
`register.js`: callbacks between awaits, a watch per `session.start`, the
promise chain that runs one report command at a time. What the harness does
(start or drop a prompt, begin and end a turn) is its nondeterminism; Claude
Code and pi are external.

### The components that share files

`Tabs`: each method under its mutex is an action, `Show` is two of them;
`heard` remembers when each tab was in touch. `SignIn`: each call is a process
with what it `has`; the service's side of each code is in `code`; `out` is
history, the codes given before a logout that ran alone. `Migrate`: each `Open`
is a process, the write lock is SQLite's, a transaction's effect is applied at
its commit. `KeptToken`, `Update`: file system calls one by one, with temporary
files that may be half written. `Skills`: a directory stays the one that was
opened whatever its name comes to mean (`os.Root`), while another program links,
replaces and removes.

## Runs

Bounds are constants in the `.cfg`; each model stops at them by guards or, in
`ThreadStore_two`, by a state constraint.

| run | question | instance |
|---|---|---|
| `ThreadStore_one` | Is every open message carried, every landed delivery whole, every delivery closable, every scope held by one session, every move drawn, a fresh session spared, and is all of it the handing out that `Handout` promises, under tokens as `Tenure` promises them? | 2 sessions, 1 scope, 2 messages, 2 Sends, 2 deliveries claimed twice each, a clock of 2 values |
| `ThreadStore_two` | Does a takeover move one scope, whole, and always bring a Send? Do places differ, does a Send stay as sent, is each message answered once? | two sizes (`OwnersAndSends`): 2 scopes and 2 deliveries; and 3 messages in 2 threads of a scope with 1 delivery |
| `ThreadStore_line` | *violation*: is a line kept only while working? | as `ThreadStore_one` |
| `PageFeed_feed` | Is the page live when its stream is open, never deaf, does it skip only by a reset or what the log has trimmed, does it catch up, and is all of it what `Feed` promises: each event once, in order, and no jump without need? | 2 serves, 2 events each, a log of 1, 2 polls, a loss or a turn of the tab |
| `PageFeed_reset` | *violation*: is a page that outlives a serve told to reload? | 2 serves, 1 event each, 1 poll |
| `PageFeed_overlap` | *violation*: nothing twice, with two polls of one epoch? | 1 serve, 1 event, 2 polls of one epoch, 2 troubles |
| `PageFeed_lag` | *violation*: does only a reset pass an event? | a log of 1, 3 events, 1 poll |
| `ServeLifecycle_one` | Is the serve found, and does Fresh renew it? | 2 clients, 4 calls, 3 serves, an install, a kill |
| `ServeLifecycle_live` | Is an install noticed, does every call return? | 2 clients, 3 calls, 2 serves, an install |
| `ServeLifecycle_race` | *violation*: is there one serve? | 3 serves, 4 calls, no kill |
| `Agents_all` | Is the server never ahead of the agent, does each Send reach it and each end reach the server unless something was given up on, does no Send start two turns, and does a session listen again after whatever failed? | pi: 1 Send, 1 turn, 2 serves, a tool call, queues of 1; Claude Code: 1 Send, 2 turns, 2 starts, a crash, a dropped prompt, a failed report |
| `Files_all` | Each component that shares files, by itself: one listener per page, living channels heard of, scans complete, no second window, a logout that lasts, each migration once, one token, a whole binary, only the tool's own skill. | see `Files_all.cfg` and `MCFiles` |

Why these bounds are enough for the question each asks: two sessions are owner
and rival; two deliveries of two claims give a stale token, a superseded
delivery and a requeued message; two Sends give an order. One loss, one trim
and one restart give every pair of stream and poll across a change of serve. A
replacement needs two serves, a race in removing an entry three; four calls let
both clients act before and after.

`OwnersAndSends` keeps a state when it is of one of two sizes. `OwnersSize` has
the second scope and the second delivery, and leaves drafts, answers, held
reports, releases and interrupts to the others; `SendsSize` has three messages
and two threads, one delivery and no clock. TLC explores all that is reachable
within the two. In `PageFeed` lost connections and turns of the tab are counted
together (`MaxTroubles`). `PageFeed_feed` excludes none of what the violation runs
show: logs that run away from a poll or a stream, two polls of one epoch, and a
poll that meets a new serve first all occur in it.

In `Agents_all` one queue slot is enough for a full queue, two serves for a
replaced one, and two starts for a watch that outlives its own. One Send is
what `ClaimsArrive` and `EndsAreTold` speak of, one at a time; two turns give
the second turn's end a first to be confused with. In `Files_all`, `LiveEntries`
comes in two sizes as well: `ClaimsSize` (one page, three channels of which two
serve one session, two lock files, a death) and `ScansSize` (two pages and a
scan, entries written thrice so that a later time wins). Two lock files are what
an unlinked lock takes. Three processes open the database, one of a build that
knows fewer migrations, with two faults; three takers of a token, since the
third finds what the second left; two updates under way over three releases, so
that the newest changes under a download; two calls that sign in and out, twice
each. A bound on faults, deaths, crashes and requests bounds how often, not when.

`SYMMETRY` is used for safety only: sessions, clients and equal processes are
compared for equality and nothing else. Deadlock checking is off where a system
may come to rest: every client idle with its bounds used up, or a page that
stopped. The store's clock may stay at its bound but reports and reads always
remain possible.

### Fairness

Safety runs state none. `PageFeed`'s `FairSpec` is weak fairness of each
callback, timer and handler: the browser and the Go runtime run them. Nothing
outside (emit, loss, restart, hide) is fair. `ServeLifecycle`'s is weak
fairness of each process's own next step (a process runs; `flock` gives a lock
that is free to one that waits) and of giving up, since every wait in `Stop` and
`Start` is a counted loop. Serves are not killed in the live run: a kill only
ends a serve's obligation to notice, and what a kill leaves behind (a dead
serve's entry, its lock) is in the safety run.

`Agents`: of pi, weak fairness of each goroutine (the loop, the emitter, the
reader of the pipe, the poster) and of a tool call, whose request to serve has a
time limit (`client.go`); of Claude Code, of each watch and of the exit of a
report command, whose request has the same limit. The agent's turns, prompts, crashes, reloads and serve's
coming and going are not fair, so `EndsAreTold` and `ClaimsArrive` say `lost`
where the code gives up for good. There is no fairness of the server's claim
(`Answer`): none of the properties needs a Send to be asked for.

## What is proved

For every value of the constants, by TLAPS. The assumptions of the store, the
feed, the serve and the agents are the modules' `ASSUME`s (bounds are naturals,
`NoOwner` is not a session, every thread has a scope, clients are not process
ids). The file components state theirs as an operator (`SignInConstants`,
`TabsConstants`, ...) that each theorem has as its hypothesis and `MCFiles`
assumes of its instance. No theorem has another hypothesis.

Every safety property that a passing run checks has a theorem, all three
refinements among them, and type correctness is proved of every component (of
those that share files by theorems alone: `LiveTypes`, `TabsTypes`,
`SkillsTypes`, `SignInTypeCorrect`, `KeptTypeCorrect`, `MigrateTypeCorrect`,
`UpdateTypeCorrect`).

**Thread store** (`ThreadStoreProofs`). Three invariants, each kept by every
operation:

* `OwnerHolds` with `TypeOK`: each operation that changes an owner moves the
  scope's deliveries in the same step, a claim makes the owner the claimer, and
  the others leave owner and session alone or end a delivery.
* `Tied`, what ties messages, deliveries and batches: `OpenIsCarried`,
  `ShownIsWhole`, `InFlightHasOpen` and `CarriesItsSend` are parts of it, none
  of them inductive alone. A turn end closes what landed, so it needs to know
  that an open message's delivery *has* landed; a reply that closes a delivery
  needs to know what it carries; a claim needs to know that a queued message is
  in no delivery that is in flight.
* `AllApart`: a message is a draft exactly while its batch is (`BatchWaits`),
  places within a Send differ, a message has one answer at most, and only once it
  is settled.

`StoreImplementsHandout` then shows the refinement: the initial tables map to
`Handout`'s initial state and each operation to one of its steps or a stutter.
It needs `Tied` (what is queued and what is given exclude each other) and `Had`:
a message that is with an agent, or was left unanswered by one, has a delivery,
and thus a holder.

`StoreImplementsTenure` looks at the deliveries' rows alone, and needs of them only
their types and that a row nobody was handed has no token (`Untold`). Each
operation does one of four things to a row: nothing a claim depends on
(`Unmoved`), an end by another's hand (`EndsAway`), a claim (`ClaimedNow`), its
session's own word (`Spoken`). A Claim does the third to one row, the next token
of which was never given, and in a takeover the second to others
(`ClaimsClaim`); a report on a token that is not its delivery's last, or not that
session's, finds no row (`TokenDelivery`), and otherwise changes one claim as
`Tenure`'s report does (`OneTold`).

Two action properties follow from these. `MovesDrawn` goes through the
operations with `TypeOK`. `FreshSpared` needs `OwnerHolds`: a takeover's guard
looks only at what the gone *owner* touched, so that it moves away nothing fresh
is true only because nobody but the owner holds anything in flight there
(`TakeoverSpares`); and no operation but a claim changes a token (`TokensKept`).
`TakeoversBring` needs all of it: the message by which a scope is taken over
waits once it is (`TakenWaits`, from `Tied`: its delivery is of its scope and so
moved with it); in the scopes the session had before there is still nothing
(`ElsewhereNothing`); in the new one nothing can be taken back, since all that
was in flight there was the old owner's (`OwnerHolds`); so the claim makes a new
delivery, of that scope, on a row that had no token (`Untold`).

**Page feed** (`PageFeedProofs`). `OpenIsLive` and `NeverDeaf`, inductive with
`OpenIsSettled` (an open stream has no timer and no poll the page would listen
to), `StoppedIsQuiet` (a stopped page has neither stream nor timer) and
`HiddenIsShut` (a hidden page has no stream). An old poll's answer could
otherwise change the status under an open stream.

`GapsKnown` and `FeedImplemented` assume nothing of the polls, the readers or the
log. Both rest on `FeedInv`, about all that is between the log and the page: each
frame in flight leads on from the one before it, or from the cursor, by one
event, by a reset, or over events trimmed by then (`FramesOK`); the stream's loop
is at the last frame it sent (`LoopOK`, `ServingOK`); an answered poll follows on
from the cursor it was sent with, in the same way (`AnswerOK`). Until the page has
crossed, nothing told is past the cursor (`HeardOK`), and a poll of the current
epoch was sent from one no later than the page's (`AskedOK`).

`GapsKnown` adds `KnownInv`: what lies behind the page's cursor, and behind the
cursor each poll of the current epoch was sent from, is told, passed by a reset or
trimmed. The log trims only more as it goes on, so the same is true of what every
frame and answer adds.

`FeedImplemented` shows the refinement with `JumpInv`: every place on its way to
the page is one its log came to (`PlacesOK`), and a reset on its way is past what
the page could go on to from the place it was asked for (`ResetsOK`). Every step
but `OnMessage` and `TakePoll` is the log's own or a stutter; those two map to
`Hear` when they deliver and to `Reset` or `Miss` when they jump, or set
`crossed`. (`OnwardOnly`, each event later than all before, is broken by the code,
`PageFeed_overlap`; until `crossed` it is part of `Hear`.)

**Serve lifecycle** (`ServeLifecycleProofs`). `FoundUnlessRobbed` rests on
`OneInv`: from looking to advertising a serve has the lock (`LockHeld`), it
looks only after taking it (`LooksLater`), the entry is the advertised serve's
(`EntryHeld`), and a serve that found none is still right when it writes
(`RoomMade`); the last two hold until `robbed`. `RoomMade` is what makes
`EntryHeld` inductive: without it `Advertise` could overwrite another's entry.
`FreshAlwaysRenews` rests on `RenewInv`: a serve seen as stale is marked, a
marked serve has looked its last, so once `Stop` found no entry the replaced
serve's never comes back (`GoneFor`) — robbed or not.

**Live sessions** (`LiveEntriesProofs`). `OneListenerHolds`: `LockOK` (the
Claims of a page share one inode until it is unlinked, so one at a time is past
the lock), `WonOK` (who Claim told yes is heard of, and owns the entry) and
`AskOK` (a Claim that replaces an owner has first seen that nobody hears of it,
and then nobody told yes is left).

`LivingAreHeard`: until one was robbed a living channel's record is its own, and
who a reader is about to reap has gone and never starts again (`HearInv`).
`ScanFinds`: a page nobody touched since a scan began is, at each point of the
scan, still to be read, being checked, or kept (`Covered`); its server lives, so
a removal does not hit it; and of what was kept the newest of each page is
returned (`Newest`, whose least element comes from the well-foundedness of the
naturals; no induction is needed).

**Agents** (`AgentsProofs`). Both harnesses have a line of reports in the order
they were made: of pi the pipe, the queue and the one being posted, of Claude
Code the promise chain. `ServerNeverAhead` is an argument about that line: a
report that a Send is in a turn is made once it is (`AllHonest`), and a turn's
end stands before what landed in the next (`EndsFirst`), so that an end which
arrives late never closes a Send of the turn that runs (`PiInOrder`,
`ClaudeInOrder`). Without the second half the server would end a Send still
running: the order is what makes the first inductive. `EachSendOnce`: a Send that
was claimed is in one process's hand or one watch's lines and nowhere else
(`ClaudeOnce`), and once the agent has it in the prompts or those kept, once
(`ClaudeWaits`). The lemmas on lines (`AppendKeeps`, `TailKeeps`, `LineStays`,
`LineAtEnd`) serve both.

`AgentsSpeakTenure`: the server that `Reports` is given is a view of `Tenure`.
Every step of a session, takeovers included, is to it a step of `Tenure` or a
stutter, and every report does to it what `Tenure` says, or nothing where the Send
is no longer the session's; `StoreImplementsTenure` says the same of the store's
reports. It does not carry what is proved of a session over to the store. There a
reply (`Answer`) lands or ends a claim in mid-turn; no agent in `Reports` gives
one, so `NeverAhead` and the rest are of sessions that do not reply. What the
store does with the reports that come after a reply is in `ImplementsTenure`.

**Tabs** (`TabsProofs`). `OneWindow`: a tab dated within `Silence` is in the
saved file as late (`FileRemembers`), and in the list of a
serve that runs it is as late or holds a stream (`ListRemembers`); no date is of
the future (`Dated`), and a tab a Show moves is one of a serve that runs
(`MovesOne`). The two carry each other over stops, kills and starts. A date is a
tab's own request or, while it holds a stream, any save of the list: nothing else
is on disk when serve is killed. So a tab whose stream was open for longer than
`Silence` after the last save, and was cut by a kill, does get a second window; the
code accepts that, and the theorem does not say otherwise.

**Skills** (`SkillsProofs`). `OwnSkillsOnly`: a directory a call reads or writes
is the one it looked at, which is not the symlink's (`opened = saw`,
`CallOK`), and what it is to replace is the tool's own or was changed after the
read (`late`).

**Files** (`FilesProofs`). *Migrate*: the steps applied are those up to `version`
(`StepsOnce`), who is in a transaction has the lock and read the version there
is (`TxKnows`), who has the file open knows no less (`OpenKnows`). *SignIn*: a
code given before a logout that ran alone is in none of the three places it
could come back from (`NowhereLeft`), since two calls under way have met
(`TwoHaveMet`) and a logout that met nobody finds no pending sign-in after its
drop (`DroppedAlone`). *KeptToken*: until there is a crowd all
that was returned is in the file, and who is to replace the file finds no token in
it (`Clean`); what is linked or renamed is whole (`HasToken`). *Update*: what is
staged has been verified (`VerifiedWhole`).

Only model-checked: liveness (`CatchesUp`, `Noticed`, `CallsReturn`,
`EndsAreTold`, `ClaimsArrive`, `ListensAgain`), which needs fairness and `ENABLED`
and is outside the prover. The five violations are TLC's counterexamples. That
the bounds of the instances lose nothing is argued above and not proved; the
theorems do not need it.

## What the checks found

Where the code and its own words disagree, a run shows it:

* `live.js` ignores `reset` in a poll's answer, so a page that meets a new serve
  by a poll is never told to reload (`PageFeed_reset`).
* Two polls of one epoch can be in flight and deliver the same events twice
  (`PageFeed_overlap`).
* A reader the log runs away from skips events with no reset: a poll whose next
  event is trimmed between its two looks at the log, or a stream more than
  `keepEvents` behind (`PageFeed_lag`).
* `Running` removes the entry by name after its check, so a new serve's entry
  can be removed as a dead one's and a second serve started: a plain stop
  between the check and the removal is enough (`ServeLifecycle_race`). Everything else about "one serve" holds, which is
  `FindableUnlessRobbed`, and until then there is one serve
  (`OneServeUnlessRobbed`).
* A message keeps its line after a turn end makes it `no_reply`
  (`ThreadStore_line`).

Three more are in a property's escape clause rather than in a run of their own:

* `Remove` unlinks a page's claim lock while a Claim may hold it; the next Claim
  locks another file and both may be told yes. `OneListenerUnlessUnlinked`
  excludes just that (`unlinked`).
* `SessionLive` removes a dead channel's record by name, and by then it may be
  the record of the channel that followed (`robbed` in `HeardUnlessRobbed`).
* `keptToken` takes every error of the link to mean that the file is there, so
  where the file holds no token, or the disk makes no links, takers at once write
  over each other and return different tokens, unlike what token.go:18-19 says of
  them (`crowded` in `OneTokenForAll`). `Run`, the only caller, takes it holding
  `serve.lock` (server.go:138), so its takers come one at a time, and then the
  property says they agree.

## Not modelled, and why

* `localweb/localweb.go share.go browser.go`, `pageserve/commands.go window.go
  doc.go`: HTTP plumbing, browser and window opening, command wiring. No state
  that outlives a call; the two calls `Show` makes of the tab list are in `Tabs`.
* `localweb/page/assets` other than `live.js`: drawing, keys, focus, and a draft
  kept in the browser by one page at a time.
* `pageserve/conformance`, `claudeplugin/assert.go`: tests for other programs.
* `harness/ hookconfig/ sessiontheme/ mermaidkit/ wiregen/ setupbundle/`, most of
  `app.go flags.go render.go`: formatting, generation and parsing, no state.
* Of modelled parts: heartbeats and a page with no cursor yet; the kept port;
  `SessionLive` asked outside a Claim; how long anything waits; the JSON-RPC of
  `initialize`, `tools/list` and `ping`; a channel whose tool keeps no presence;
  `AdoptUnversioned`, file modes and pragmas; `auth`'s status and a sign-in that
  `install.sh` began; what frontmatter says of whose a skill is; thread, note and
  read rows of the store.

## What is left

The store, the feed, the serve, the agents and the files are modelled as far as
they have state that processes share, the abstract specifications are in place
and proved of them. What would add most from here:

1. Replies in `Reports`. `Tenure` allows them and the store does what `Tenure`
   says of them, but no harness model gives one: a session that answers and whose
   turn end then arrives is shown on the store's side only.
2. A second page, or a tool's own page logic, over `Feed` instead of `PageFeed`:
   what tools do on a reset is not in this repository.
