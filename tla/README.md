# A TLA+ model of zara-plugins

Modules, model-checking runs and proofs about the stateful parts of this
repository: what the code does under crashes, timeouts, restarts and
interleavings, which promises it keeps, and where it does not keep what its
documents say. `PROJECT.json` maps every definition to the lines it models.

## The system

The repository holds 38 plugins for the Zara assistant, each a directory with a
thin entry point, a `plugin.py` that defines tools or a service, and a domain
module. Most are sequential adapters around a file, a subprocess or an HTTP
service. The parts with behaviour of their own:

| Part | State | Operations | Interacts by | Hard because |
| --- | --- | --- | --- | --- |
| Avatar actor (`zara_avatar.py`, `AvatarActor`) | presentation state, presence and speech fields, animation controller, work queue, renderer status, restart attempts | some twenty commands, runtime events, renderer exit, probe, shutdown | a bounded FIFO queue from many threads; calls to the renderer host; the avatar library | the renderer may crash, hang or refuse at every call; restarts inside the loop; callers that time out; shutdown with a bounded wait |
| Animation controller (same file) | current clip, pending queue, idle bag | play, stop, gesture, finish, reset | called by the actor | bounded queue, a deadline armed by another object |
| Renderer host (`RendererHost`) | child process, waiters by request id, event queue | start, request, restart, shutdown, drain | pipes to an Electron child, a reader thread | late replies, exit events of older children |
| Renderer child (`renderer/*.mjs`) | the scene | one handler per renderer command | lines on stdin and stdout | model loading is asynchronous |
| Avatar library | VRM files, metadata, selection | import, get, select, delete | files | several writes per operation |
| Timers (`zara_timers/domain.py`) | items, sequence number, undrained events, state file | create, pause, resume, cancel, get, list, poll, drain | a state file replaced atomically; two clocks | crashes, failed saves, downtime, set clocks |
| PipeWire player (`zara_voice/player.py`) | table of playbacks | play, cancel, close | child processes, a writer thread each, one lock | processes and writers that do not end |
| Discord conversation (`controller.py`, `routing.py`, `bot.py`) | histories, callbacks and early answers by turn | submit, handle_event, replies, close | gateway loop, runtime thread and events worker | an answer may come before its callback; the early ones are kept in a bounded buffer |
| Discord settings (`config.py`, `moderation_acknowledgements.py`) | policies, channel overrides, acknowledgements, two files | the slash commands, load, save | files replaced atomically | memory changes before the file does |
| Discord moderation (`moderation*.py`) | scoped tokens, audit log | issue, execute, record, rotate | the gateway loop from a tool thread, with a timeout | an action that times out may have happened; rotation is a row of renames |
| Discord installer (`install.py`) | library, wrapper, their backups, a marker | recover, publish, roll back | files | a crash between any two renames |
| Coding task state (`task_state.py`, Prolog) | tasks and evidence in a Prolog child | create, get, record evidence, complete, stop | a line protocol with a timeout | the state dies with the child; calls outlive the plugin |
| Coding branches, worktrees, verification (`domain.py`, `worktree.py`, `spec_*.py`) | git's refs, index and worktree registry | create and delete a branch, commit; add, lock, unlock, remove; check a SPEC | one git process after the other | people and other calls change the repository between the commands; rollback; timeouts |
| Expert host (`zara_expert/domain.py`) | knowledge bases, registries, capabilities | register, unregister, query | Prolog child processes; plugins that start and stop | queries take no lock and last seconds |
| Composer (`composition.py`) | one budget, the path under way | invoke, delegate, fence | invokers it does not trust | they hold the budget that bounds them |
| Expert families (`language_*`, `lisp_*`, `core_catalog.py`, `dotfiles_*`, `style_runtime.py`) | nothing of their own | preview, verify and apply repairs; list and select experts; compose a style | Zara Core, brains, resolvers, all outside | what was checked may be another object, or another generation, when it is used |
| Language experts (nine adapters) | the runtime they are bound to, a source lock | invoke | the expert host | the result is shared with its producer while it is validated |
| Other services (memory, context, calendar, media, comms, browser, files, shell, ...) | small stores, sessions | create, read, update | files, subprocesses, HTTP | partial failures |

What makes each of the modelled ones correct, in words:

- Actor: a mouth never stands open after speech; a session is whole; a child is
  never lost, nor killed by an event of its predecessor; what is loaded has its
  files; a wrong status is corrected; the queue keeps moving.
- Renderer host: no child escapes; no reply answers another request; a request
  is executed at most once, and answered with success only when it was; its
  calls return, but for one put-back.
- Timers: no time lost or counted twice; nothing fires twice, or after its
  cancellation was saved; a poll leaves nothing overdue.
- Player: no process is forgotten; the limit holds; success means it ended; the
  lock is let go.
- Discord: one reply to a message, and one if the runtime answered; a restart
  changes no setting; a token acts once, and nothing happens off the record; a
  rotation loses no new entry; an install is whole or undone.
- Coding: what is completed is verified; no commit gets lost; what is told to be
  gone is gone; a verdict was true at some moment of the call, as far as two
  readings can tell.
- Experts: an answer is of the registration in force; a composition keeps to its
  budget, whoever writes to it; a repair that is told verified rests on a receipt
  that was checked; a listing, a selection and a style are of one generation; what an adapter
  returns is what it validated.

`PROJECT.json` lists every component, modelled or not, and every hazard at the
line where it bites.

## Modules

| Module | Models | Checked by | Proved in |
| --- | --- | --- | --- |
| `AnimationController` | the controller's operations, on a record | the avatar runs | `AvatarActorProofs` (types) |
| `AvatarActor` | actor, clients, the library's files, outcomes of the renderer host, scene of the child | `MCAvatarActor`, `MCAvatarClients` | `AvatarActorProofs` |
| `RendererHost` | the renderer host thread by thread, its readers and children | itself, `MCRendererHost` | `RendererHostProofs`, `RendererHostRefinement` |
| `RendererService` | what a renderer host promises, without threads or pipes | refined by `RendererHost` | – |
| `TimerDomain` | timers, alarms, reminders, state file, clocks | itself | `TimerDomainProofs` |
| `PipeWirePlayer` | player, processes, writers | itself | `PipeWirePlayerProofs` |
| `DiscordTurns` | histories, router, gateway loop | `MCDiscord` | `DiscordProofs` |
| `DiscordSettings` | policy store, acknowledgements, their files, the commands | `MCDiscord` | `DiscordProofs` |
| `DiscordModeration` | tokens, tool calls, the coroutine on the loop | `MCDiscord` | `DiscordProofs` |
| `ModerationAudit` | the audit log and its rotation | `MCDiscord` | `DiscordProofs` |
| `DiscordInstall` | the installer, file operation by file operation | `MCDiscord` | `DiscordProofs` |
| `CodingTasks` | plugin, session, Prolog child and its program | `MCPlugins` | `CodingProofs` |
| `CodingBranches` | create and delete a branch, commit, and people | `MCPlugins` | `CodingProofs` |
| `CodingWorktree` | add, lock, unlock, remove, their rollback, and people | `MCPlugins` | `CodingProofs` |
| `CodingVerify` | SPEC compilation, inspection, evaluators | `MCPlugins` | `CodingProofs` |
| `LanguageExperts` | the nine language adapters | `MCPlugins` | `ExpertsProofs` |
| `ExpertHost` | registration, revocation, queries | `MCPlugins` | `ExpertsProofs` |
| `ExpertComposition` | the composer, its budget and fence | `MCPlugins` | `ExpertsProofs` |
| `RepairVerdicts` | handlers and validators of repairs, language and Lisp | `MCPlugins` | `ExpertsProofs` |
| `ExpertCatalog` | listing and selection over Core's registry | `MCPlugins` | `ExpertsProofs` |
| `StyleChain` | dotfiles, language and style expert over one file | `MCPlugins` | `ExpertsProofs` |
| `StyleOverlays` | `resolve_style`: which overlay decides a key | `MCPlugins` | `ExpertsProofs` |

Operators whose comment begins with "Mutant:" are wrong on purpose: each one
replaces the definition after it, to show that a property notices.

### AvatarActor

A queue item is executed as a program: `DoLoad`, `DoSpeechClose` and so on
build in `prog` the renderer calls and state updates of their handler, in the
handler's order, and the actions of `HandlerStep` execute them one at a time.
So a crash (`ChildDies`), the reader's event (`ReaderPosts`), a caller that
gives up (`GiveUp`) and the shutdown (`Stop`, `CloseRenderer`) fall between any
two calls. A failing call takes the exception path of the code: an error answer
in a command, the end of the worker thread (`at = "dead"`) outside one.

`rend` is the renderer as the actor sees it: the state of the host object, the
child, and the scene it shows. `Ensured`, `Requested` and `Restarted` return the
possible outcomes of `_ensure_renderer`, a request and `restart()`: answered,
refused, timed out with or without effect, dead. Commands that differ in data
only share an operation: "play" is gesture and animation.play, "attr" is
transform, framing and gaze, "status" the read-only ones. Speeds, durations and
the order of the shuffled idle bag are left out, numbers are one of two values.

`library` has of each avatar the model and the record file, each there, torn or
missing. `import_avatar` writes the one and then the other in place
(`DoImport`), `delete` unlinks them in that order (`DeleteFiles`); each may stop
after the first or, an import, in the middle of a write. `Found` is `get()`, which
parses the record and looks whether the model is there, not what is in it. A
library starts with whatever such imports and deletes left before. A failed
re-import of an avatar that is on stage leaves it torn: LoadedIsStored says that
the files are there, not that they are whole.

The deadline of a clip may pass at any loop turn without an item. The restart
back-off is a step boundary (`asleep`), and so is the wait of the closing
thread, which may end before the worker did.

### RendererHost

Two threads use a host: the owner, which is the actor's worker, and the closer,
the thread that stops the plugin. Each has a record `call` of where it is in the
host's code; each child process has a reader thread (`reader`) and its pipes
(`child[k].inbox`, `outbox`). What the code does under the lock, or in one
operation of a queue or dictionary, is one step; every wait, and every access of
`self.process` outside the lock, is a step of its own, so a shutdown meets a
restart, a reader or a request anywhere. A wait with a timeout has both
outcomes; a `put` without one blocks while the queue is full. `EndInput` sends
the Shutdown line to whatever child the host names by then, as `_write_line`
does, and `Wake` raises when `_pending` changed size under its loop.

Requests are numbered, and a reply carries in the model the request it was made
for, so that the properties can tell whose reply a caller got. Of the events, the
host tells apart `ready`, by which it waits, and the reader's `rendererExited`;
all that a child posts besides (windowReady, windowClosed, avatarLoaded, errors)
is one kind, `page`, which it may post whenever it runs, before `ready` too, up
to `MaxPage` times. All three go through the one bounded queue. Two assumptions:
a killed child is gone within the grace, and a pipe takes what is written to it.

`RendererService` is the abstract host: a set of living children, the requests
asked, the log of those executed and the set of those answered. `RendererHost`
maps to it by the living children and the counter of requests; `log` and
`answered` are histories.

### TimerDomain

One action per operation, the two clocks as variables. `Persist` first brings
running timers up to date in memory, as the code does, then replaces the file,
or fails. `End` ends the process anywhere between operations, `Start` loads the
file, `SetClock` sets the wall clock. History variables keep what the properties
compare with: what each timer still owes (`owed`), how often it fired, which
cancellations reached the file, and whether a clock was set or a change lost
(`doubt`), in which case the code promises nothing about time.

### PipeWirePlayer

One step per wait and per lock operation; each thread has a record of the call
it is in. Every wait with a timeout has both outcomes, so a pw-play that no
signal ends and a writer that never returns are behaviours. `close()` holds the
lock only to list the playbacks, as in the code.

### The Discord service

`DiscordTurns` has the three threads that meet in the response router: the
runtime completes the receipt and registers the callback (`Register`), the
events worker delivers (`Deliver`), the gateway's loop sends (`Send`). A turn is
named by the message it came from, so that an answer to the wrong one would
show; turns of other plugins (`Foreign`) compete for the buffer of early
answers. History and buffer are ordered dicts in the code, and lists here: `Popped`
takes the entry of a key out, a new one goes to the end, the oldest is pushed out;
that a key is never there twice is proved (`KeysAreUnique`). `ended` keeps which messages have no answer to come, and why: the
answer was evicted, suppressed, or refused by Discord.

`DiscordSettings` keeps memory and file apart: every command changes the store,
then `Save` replaces the file or fails. The commands that add a user or a
channel are rows of such updates, as in the bot. What is compared is what anyone
can tell of the settings (`Allowed`, `Inspection`, `Acknowledgement`,
`RequiresContent`), not the records.

`DiscordModeration`: a tool call consumes its token under the store's lock
(`Begin`), and its coroutine takes a step from await to await (`Check` to
`Acknowledge`). `Timeout` gives the call up, `Cancel` ends the coroutine at
whatever await it is, also while Discord is acting: then the effect may have
happened or not. `ModerationAudit` is the file below `_audit`, rename by rename.

`DiscordInstall` writes an install, its rollback and the recovery as rows of
file operations (`todo`), executes one at a time, and may die or fail at each, a
copy or a removal also halfway.

### The coding plugin

`CodingTasks` follows a call from the moment it picks up the session (`Enter`)
to the command under the session's lock (`Request`), so that stops, new starts
and deaths of the child fall between. `Commanded` is the Prolog program: what
each command makes of the tasks.

`CodingBranches`, `CodingWorktree` and `CodingVerify` take one git command at a
time. A command is atomic, may fail, and may be given up after five seconds with
its effect done. `People` and other calls act between any two. Commits carry
their ancestors and what their tree was staged on. Worktrees are numbered, so
that one which replaced another at the same path is another one, and a worktree
is two things, a record in git's list and a directory: a removal that stops
half-way leaves the directory, listed or not. The rollback knows the worktree it made by path and
head only: ReportedGone says that this one is gone, and its comment what it does
not say, that another one put in its place with the same head is deleted instead.
`CodingVerify` follows one requirement of the SPEC, any of its kinds, and records
whether it held, and whether it did not, at some moment of the call. Each file is
as in HEAD, listed by `git diff`, or listed as untracked, and people move it from
any of these to any other. The two lists are read one after the other, so a file
may be in neither: `missed`, `clean` and `added` remember what VerdictsHeld needs
to say of which files that can happen (`Missable`).

### The experts

`ExpertHost` has the thread that registers and revokes in several steps, and
queries that look at the tables one after the other without a lock; a plugin may
be stopped and started with other files at any point of a query.

`ExpertComposition` has the composer's stack as `frames`. `Tamper` is the invoker
that writes to the budget it was handed; `spent` is what was really spent.

`LanguageExperts` has the nine adapters as one step machine: the steps of a call
are listed per adapter (`BashInvoke` and so on), as are what it admits, accepts
and pins. The nine differ in these lists only. `Change` is the producer of the
result, who still holds the object until the adapter has copied it.

`RepairVerdicts` has the handlers of the language and the Lisp families, the
validators of what they or Core return, and the snapshot. An outcome is a record
of what the validators tell apart, a receipt the set of what it is bound to.
`Outcomes` is whatever Core may say: in order, or wrong in one respect.
`Change` changes at any moment what is still shared of it, the contents of the
receipts, one at a time. `raced` marks a change that fell between the Lisp
validation and the snapshot, which the code does not notice: only what
RepairsProven says of those contents is stated without such changes, and its
comment says so.

`ExpertCatalog` writes the rows of questions the adapters put to Core's registry
(`Select`, `CatalogInvoke`, `ChildInvoke`), one step each, while experts are
registered and the runtime restarts. `StyleChain` does the same for the fixed
chain over a file. The rules it read (`read`) are handed to the resolver as
mutable objects, and its answer is compared with the same objects: `submitted`
is what they have become, and `Rewrite` is the resolver changing one in place, to
any identity, check, scope and generation. `StyleOverlays` is `resolve_style`: a fold over the overlays
that apply, in the order the code sorts them (`Uppermost`), against a definition
of precedence, `Precedence`, that neither sorts nor folds.

### The two compositions

The parts of the Discord service share no state with each other, nor do the
coding and expert plugins. A product of their state spaces would show nothing
more and could not be explored. `MCDiscord` and `MCPlugins` therefore take the
union: the first state picks a part, only that part moves, and a property is
about the part it names. Every part has its own variables, `None` while it is
not picked in `MCPlugins`. `MCDiscord` extends `DiscordModeration` and
`MCPlugins` extends `ExpertHost` (the others are instances), so that what the
runs check of these two is the very definition their theorems state; their own
`Init`, `Next` and `TypeOK` are called `MCInit`, `MCNext` and `MCTypeOK`.

## Runs

| Run | Instance | Shows |
| --- | --- | --- |
| `avatar_clients` | 1 client, 1 restart, 2 avatars, two faces, two clips, the transform; it speaks and animates: 3 inputs, queue of 2; or it manages the library: 2 inputs, queue of 1 | TypeOK, LoadedIsStored, MouthFollowsSpeech, NoLostChild, SessionWhole, RestartSparesLiveChild |
| `avatar_outage` | 1 avatar, exit notices allowed, 2 inputs | StatusCorrected and CommandsTaken, under fairness |
| `host_replies` | the owner alone, 2 children with 1 event of their own each, 2 requests, event queue of 2 | AnswersAreOwn, and that the host implements `RendererService` (ServiceSpec) |
| `host_threads` | owner and closer, 1 request, event queue of 2; 2 children with no events of their own, or 1 child with 2 | NoUntrackedChild, and WorkerReturns under fairness |
| `timers` | 2 items, durations of 2, delays of 1, cadence of 2, clocks to 3, 1 fault | TypeOK, TimeConserved, FiresOnce, CancelIsFinal, PollLeavesNothingDue |
| `player` | 2 threads, limit 2, 3 processes | NoOrphan, Bounded, Truthful (of cancel and close), LockIsReleased |
| `discord` | 3 installs; 2 messages, 1 foreign turn, buffer of 1, 1 conversation, 2 events; 2 guilds, 1 user, 1 channel, 3 commands; 2 tokens, 2 calls, 1 context kept; 3 audit files of 2 entries, 9 entries | MCTypeOK, PairCoherent, AnsweredOnce, RestartKeepsSettings, OneEffectPerToken, EffectsAudited, NewestKept, and AnswersArrive under fairness |
| `plugins` | 2 tasks, 1 kind of evidence, 2 pieces each; 2 branches, 3 commits; 2 worktrees, 2 reasons, 2 steps of people, 2 calls; 2 heads, 2 branches and 2 files to verify; 1 change of a result; 2 registrations, 2 queries; 3 signatures, 3 invocations, depth 1, fan-out 2, 2 compositions; pages of 1 expert; 2 rules, 1 rewritten; 2 overlays | MCTypeOK, CompletedIsVerified, NoLostCommit, ReportedGone, VerdictsHeld, ReturnedProven, CompositionBounded, RepairsProven, DiscoveryConsistent, StyleSound, AnswersOfAuthority |
| `worker_survives`, `avatar_orphan`, `host_closer`, `timers_lookup` | small | a promise of the documents that the code breaks, see below |

The bounds are enough for the cases the properties are about. Three inputs make
a speech begin, audio and end with a renderer failure at every call between
them; two make a load and the delete, or the import, of the same avatar, from a
library in which each avatar is whole or absent at first, and torn, or half
deleted, after one of them. (One that is torn from the start is a state of the
theorem, not of the run.) A client that speaks starts with a library in which
nothing can be loaded, and the constraint `OneMenu` keeps the commands of the two
kinds of clients apart; the two avatars are symmetric. A queue of one or two is
often full. One restart reaches both the recovery and the exhausted budget. Clocks to three, with
durations and cadence of two, let a timer run, be saved, survive a restart and
come due, and a reminder miss its time and be due to the second. One fault is a
failed save or a set clock at any point. Three playbacks with a limit of two
fill the table and free it again, while two threads cancel the same playback or
close over one another.

Two children and two requests are the least for a reply of the first to meet a
request to the second. The event queue of the code holds 256, here two: a child
that posts two events before it is ready, or one event, its `ready` and its exit,
fills it, and TLC then finds the worker waiting for ever. `_wait_for_event` took
events it had no use for, the reader filled the queue meanwhile, and the put-back
has no timeout and is done by the only thread that takes from the queue. 256
events during one start do the same to the code. So WorkerReturns names this one
way not to return, the worker at the put-back before a queue that stays full, and
says that there is no other. In `host_threads`, children that are two post no
events and one that does is alone (the constraint `PagesOfOne`); a start that
finds no program and a child that does not post are always possible, so no fair
step is cut off.

In `discord`, a buffer of one with a foreign turn evicts answers, a store of one
context with two tokens evicts tokens, two calls present the same token, three
files of two entries rotate until the oldest is dropped, and a third install
meets what two others left. Three commands are a change, its failed save and one
that may find nothing to change. In `plugins`, two pieces of evidence are a pass
and a failure in either order; three commits are the first, one of a call and
one of people between its commands; two registrations are an expert before and
after it was replaced, two queries fall on either side; three signatures on a
budget of three, two deep, delegate to themselves, in a cycle, and too often;
pages of one expert make a listing of two take two pages with a registration in
between; two overlays are the least for one to go over another. One change of
the shared result may fall at any step of its validation. Two files tell a
verdict on all files from one on each; while a requirement on files is followed,
the constraint `OnTheClaim` keeps HEAD, the branch and the worktree as they are,
and the files while it is another one, since no requirement is about both and the
comparisons in between only make a call fail. One rule rewritten by the resolver,
of two that were read, leaves one that is as it was.

Deadlock is not checked in the avatar runs, where the actor stops for good after
a shutdown and the inputs are bounded; nor in `host_replies` and `host_threads`,
where the worker at a put-back that never ends is such an end; nor in `discord`
and `plugins`, where every part comes to an end once its bounds are used up. It is
checked in the others.

**Fairness.** `avatar_outage` assumes that the worker thread runs (it is a loop
whose every wait has a timeout), that the reader of a dead child gets to its
`finally` block (its read ends with the pipe), and that the closing thread's
bounded wait ends. Nothing is assumed of clients, the child or the runtime.
`host_threads` and `host_closer` assume that the threads of the host and its
readers run on; a child may do nothing for ever. `player` assumes that a thread
inside a call goes on, every wait in it having a timeout; not that a process or
a writer ever ends. `discord` assumes for AnswersArrive that the events worker
delivers what is queued, a receipt that was accepted gets its registration, a
callback that was called returns, and the loop, while it runs, sends what was
scheduled: each is a thread or a coroutine with nothing to wait for. Nothing is
assumed of the runtime, the users or the order of the three threads.

## What the runs found

- `worker_survives`: an error the renderer answers during the resynchronisation
  after a restart, or at an animation deadline, is caught by nobody and ends the
  worker thread. The class comment promises that outages "never break Zara
  semantics".
- `avatar_orphan`: the actor's `shutdown()` waits five seconds for its worker and
  shuts the host down once. A worker that is in a restart by then resets the
  host's `_stopped`, starts a child in it and leaves because the actor is
  stopping; nobody ends that child, against "leave no orphan process".
- `host_closer`: `shutdown()` puts None into the one-element waiter of each
  pending request without a timeout. If the request has just timed out and the
  reader filled the waiter after that, nobody empties it and the shutdown never
  returns, against "Terminate the renderer deterministically".
- `timers_lookup`: get, list and cancel raise KeyError for fired or cancelled
  timers after a restart and for paused timers once cancelled, against "Stable
  IDs support reliable lookup and cancellation".

Seen in the models as well, and stated by no run:

- a delete whose second unlink fails leaves an avatar selected of which `get()`
  finds nothing, and a failed re-import leaves a torn model under an avatar that
  is loaded, which `get()` finds and the renderer is given again after a restart,
  though `validate_vrm` says "A corrupt file must never reach the renderer"
  (`zara_avatar.py:525`);
- `_wait_for_event` may wait for ever at its put-back (`zara_avatar.py:986`), as
  above;
- a renderer error at the closing SetVisemes leaves the speech session open, and
  `finish()` may start a looping clip while others are pending, which then wait
  without end;
- `CodingTasks!TerminatedWithPlugin`: a call that picked up the session before
  the plugin stopped starts its Prolog child again, and nobody ends it;
- `CodingWorktree!UnlocksOwnLock`: the lock is compared in one git command and
  removed by the next, so it may be somebody else's by then;
- `CodingBranches!StagedOnParent`: a branch switched between `write-tree` and the
  update of the ref gets a tree that was staged on another parent;
- `DiscordSettings!AnsweredIsStored`: after a failed save, the same command again
  finds nothing to change, saves nothing and answers that it is done;
- the rollback of a worktree deletes another one that people put at its path with
  the same head, and tells "rolled back" of it (`worktree.py:161-173`);
- a repository that is changed throughout is called clean: a file is untracked
  when `git diff` looks and added when `ls-files` does, then taken out of the index
  and added again around the second reading (`domain.py:100-106`), or one file is
  changed at some moments and another one at the others;
- what the data of a Lisp repair says of its receipts may change between the check
  and the copy (`lisp_output_contract.py:358-365`): then it is of another candidate
  or not verified, and reported all the same;
- a style resolver that changes the rules it is handed gets its changes accepted,
  also to a rule for another language or generation (`style_runtime.py:103`);
- the language adapters return Core's nested objects (`dict(data)` copies the
  outer one only), so what the composer holds may still change; the Lisp ones
  copy, but not at the moment they validate.

## Proofs

Every safety property of the passing runs is proved for all values of the
constants; what is left to the model checker is named at the end of this section.
The constants need what the
`ASSUME` of their module says (`ActorAssumption`, `ClipAssumption`,
`HostAssumption`, `TimerAssumption`, `PlayerAssumption`, `DiscordAssumption`,
`PluginsAssumption`): bounds are numbers, and not zero where the code refuses zero
(`max_buffered`, `max_conversations`) or a model starts from one; sets that
something is chosen from are not empty, a mark for "nothing" is not a value. Runs
evaluate all of them.

Each proof has the same shape: an inductive invariant, one lemma for each action
that says the invariant survives it, and theorems read off the invariant. What
follows says for each why the property alone is not inductive.

### The avatar

`AvatarActorProofs`: `ActorTyped` (TypeOK) and `ActorSafety` (also NoLostChild);
`MouthsClose` (MouthFollowsSpeech), `SessionsAreWhole` (SessionWhole),
`StoredIsLoaded` (LoadedIsStored) and `RestartsSpareTheLiving`, the action
property RestartSparesLiveChild.

For the types the invariant adds what later steps need: the running program is
made of known calls and updates, and the item at hand is one the queue could
hold. The argument for NoLostChild is that the host only leaves "up" through
`Dropped` (after `start()` refused it, which it does not do to a running child),
`Restarted` and `CloseRenderer`, and each of the three finds or makes the child
dead.

The other four are about what a program may still do when it is abandoned. `Held`
adds `Programs`: a program is one of a few that touch the mouth, end the session
or delete an avatar, each with what is known where it stands (the mouth is shut
before the session is closed; the avatar is unloaded before its files go), or it
is made of instructions that do none of this and load only what has its files.
No step takes a record away but the delete that also clears the selection, and an
import that fails takes away nothing. And it
adds `Exits`, unless strangers post exit notices: a notice is under way for one
child at a time, after its death, and while the worker sleeps off a restart none
is left for the child to come.

### The renderer host

`RendererHostProofs!HostSafety`: TypeOK and NoUntrackedChild. The inductive
invariant adds to the two that children not yet spawned do not run (`Numbered`),
that `_pending` is finite, and for each thread what it knows of its victim
(`Doing`): it has one exactly between the block under the lock and the join, and
at the join it is dead. A number is not given to a second child, so the dead stay
dead; lemma `Quiet` settles every step in which the host keeps its child and every
call its victim.

`RendererHostRefinement!RepliesReachTheirRequest` (AnswersAreOwn) and
`HostServes`, `Spec => ServiceSpec`: the host implements `RendererService`. The
model does not say that an id belongs to one request: `_pending`, the pipes, the
readers and the waiters carry ids and requests apart. The inductive invariant
`RInv` adds to the one above `Books` (the id counter is one ahead of the request
counter, and every entry of `_pending` is about the request of that number),
`Replies` (a reply in a pipe, with a reader, in a waiter or in the caller's hands
is about the request it is on its way to, and says "ok" only if that one is in
the log), and `Once` (a request in a pipe is in one place only, is not in the log,
and before the owner writes it is in no pipe). The first theorem reads
AnswersAreOwn off `Replies`. In the second each step maps: `Spawn`, a death,
`Request`, `Serve` and `Pop` to Spawn, Die, Ask, Execute and Answer or to a
stutter, all others to a stutter; Execute needs `Once`, Answer needs `Replies`.

### The timers

`TimerDomainProofs`: `TimersTyped` (TypeOK), `TimeIsConserved` (TimeConserved),
`TimersFireOnce` (FiresOnce), and the action properties `CancelsAreFinal`
(CancelIsFinal) and `PollsLeaveNothingDue` (PollLeavesNothingDue).

Each fact is needed twice, of the items in memory and of those in the file,
because a restart swaps one for the other. `Saved` ties the two while nothing is
unsaved: same items, same status. `Owed` says that the remaining time follows
from either, by the monotonic clock in memory and by the wall clock in the file;
`Fired` that what is pending in either has not fired; `Buried` that what is
cancelled in the file is cancelled in memory. For the last theorem, `_advance` of
a reminder skips as many occurrences as were missed, however many: a fact about
division, proved from the remainder.

### The player

`PipeWirePlayerProofs`: `PlayerSafety` (TypeOK, NoOrphan, CancelTruthful and
CloseTruthful), `PlayerTruthful` (Truthful, which is the last two) and
`PlayerBounded` (Bounded). The inductive invariant is TypeOK, `Fresh` (a number
not yet handed out has no process), NoOrphan, and `Evidence(t)` for every thread:
what its record says about kills and joins is true of the processes and writers.
Its key is that nothing a call established is ever undone, because a dead process
and an ended writer stay so (lemmas `Advances`, `EvidenceStays`); the lock is not
needed for these properties, only for the code's own bookkeeping. `Bounded` is
inductive given the types: only `Spawn` adds an entry and it looks at the size
first.

### The Discord service

All in `DiscordProofs`.

`TokensActOnce` (OneEffectPerToken) and `EffectsOnRecord` (EffectsAudited).
`Unused`: a token that is still valid has done nothing and is stored once.
`Owned`: a call that may still act has a token that is not valid any more, did
nothing yet, and is no other acting call's. So consuming a token hands the right
to act to one call, and the effect uses it up. `Story(c)` follows the audit of
each call along its steps.

`RepliedOnce` (AnsweredOnce). `OneReply(m)` says where the one reply to a message
is: with the router, which waits for the answer, or in one callback, or with the
loop, or told. Registration and delivery race, but both take the callback or the
early answer out of the router's tables under its lock.

`RestartsKeepSettings` (RestartKeepsSettings). `SettingsInv`: memory may be ahead
of a file only while the last save of that file failed. Loading what was saved
gives a store nobody can tell from the one saved, though it is not equal to it: a
policy that was the default comes back as none (`Alike`).

`NewestEntriesKept` (NewestKept). A rotation that failed half-way leaves holes, and
the next one starts over. The invariant has no number of the hole: it says that
there are bounds b, falling from the newest entry to the oldest, such that file k
holds exactly the entries between b[k + 1] and b[k]. A rename shifts one bound, a
removal the last one, and is done only when the newest file is full (`Enough`).

`InstallsAreWhole` (PairCoherent). What a recovery would leave (`Recovered`) is
stable under each operation, also half done, only if the operation is in its
place: removing a backup is harmless once the live component is whole, and harm
before. So the invariant describes what is left of the program of each phase,
component by component (`RestoreLeft`, `LegacyLeft`, `PublishLeft`, and the ends),
with what the disk and the marker are at that point. One lemma per shape shows that
an operation moves to the next shape and keeps `Recovered`; `HeadHarmless` that
the next operation, whichever it is, is on a path from which nothing is recovered
(`Spare`), so that a failure or a death in the middle of it is as good as before
it; the `...Starts` lemmas that the programs the code enters a phase with are of
the shapes. Nothing is said about the order of the lists: they follow from the
definitions of `Recovery`, `Publication`, `Rollback` and `Cleaning`.

`DiscordTyped` (MCTypeOK) and `KeysAreUnique`, from the invariants above together
with what the types need besides (`EveryTyped`). For the turns, `Pushed` says that
what is appended to a list of at most max entries and pushes the oldest out leaves
at most max, `PoppedIs` and `PoppedApart` what taking an entry out leaves: with
them the buffer and the history keep their bounds, and a key is there once. A
budget of zero, which the code allows, remembers nothing. For the audit, a log
that is about to be written to has room (`AuditTyped`), which needs that a full
one was moved away. For the installer, every program is a list of operations on the
places it knows (`ProgramsTyped`), and so is what is left of it.

### The coding plugin

All in `CodingProofs`.

`CompletedStaysVerified` (CompletedIsVerified). What a command makes of verified
tasks is verified: only a task that is not completed changes (`OpenTaskChanges`),
and `complete` asks for the evidence and the dependencies it is about. A session's
tasks change by a command or are forgotten. `Latest` of the evidence is taken as
it is.

`NoCommitIsLost` (NoLostCommit). A call compares the tip with one it saw before
(`expected`), so the invariant says that what is expected, and every tip, is a
commit that was made and is its own ancestor (`KnownCommits`): the update that
succeeds replaces the tip by a descendant of it.

`GoneIsGone` (ReportedGone). Worktrees carry the number they were made under, which
only grows. `Honest`: a call that looked at the list, or at the disk, after its
removal and found nothing there has seen its worktree go from either, and what
appeared at the path since is another one. A call
tells nothing before its end, and only removals and rollbacks get to the removal.

`VerdictsHeldOnce` (VerdictsHeld). `VInv` follows each kind of requirement through
the thirteen steps. The lists of changed files are the hard ones: a file that a
pair of readings missed was unchanged at one of them, or untracked at the first
and added by the second; a call that returns missed it in both pairs, hence
`Missable`.

### The experts

All in `ExpertsProofs`.

`AnswersHold`, the action property AnswersOfAuthority, over `HostTables`, its
invariant. A query reads its capability, the files and the backend at different
times. `Registered` says that a registration which stands is the latest one and
has its files in place; `Faithful(c)` that a capability in a query's hands was
issued by a registration, an older one while another is under way, and that the
files it read are those of its registration if that one still stands. The fence
compares the capability with the table: so the files are those of the
registration in force.

`CompositionsKeepBounds` (CompositionBounded). An invoker may set the budget to
anything, so nothing holds of `budget` while it runs; `Accounted` says that it is
then the snapshot that agrees with what was spent. `OnPath` carries the path: lemma
`Longer` is the step for which the repetition and the depth are checked,
`LeftOnly` and `Shorter` say that working off delegations and returning keep it.

`ReturnedIsProven` (ReturnedProven). The nine adapters are two programs, of ten
steps and of five (`InvokeCases`). `LanguageProgress` says for the number of steps
left what the result is by then: whose it is, whether it was stamped, and that
one step before the end it is acceptable as it stands.

`RepairsAreProven` (RepairsProven). `Rests`: what an honest handler says rests on a
bound receipt. The others say what the validators have seen at each stage. What
they copied stays so whatever the producer does; the contents of the receipts
stay so unless it changes them between validation and snapshot, which is the
exception the property makes of these alone.

`DiscoveryIsConsistent` (DiscoveryConsistent). Generations only grow, so equal
generations at two moments mean the same registry in between. `Selecting` says
what has been asked in the generation the selection began with, or the generation
is over; `Ran` orders the moments of an invocation; `Listed` says that pages are a
beginning of one catalog.

`StylesAreSound` (StyleSound). For the chain, `Fenced`: nobody was asked before the
generation of the call, and once it was checked nobody in another one. `read` is
bound to the call and does not change, `submitted` may become anything, so the
checks of the answer carry what is said of decisions, and only the rules that are
in both are known to apply. For the
overlays, the lemma is that the fold gives each key to the uppermost overlay that
has it (`Covered`). It goes by the least counterexample, without an induction
theorem: scope and position of an overlay make one number (`Place`), which orders
them as the code's sort does (`PlacesOrder`); among the sets of overlays the fold
gets wrong, one has the lowest uppermost overlay (`LeastNumber`); without that
overlay it is a set the fold gets right, and then `OneMore` says it gets this one
right too (`LayersAre`). `Covered` itself shows that there is a function as the
fold defines it. `OverlaysNext` reads the two halves of `Precedence` off that.

`PluginsTyped` (MCTypeOK of every part; `ExpertsProofs` extends `CodingProofs`
for it). Most invariants above already say of which type each variable is. For the
tasks, `Limited` adds what the program's limits promise: an absent task is no
record at all, so that the tasks that are known are the ones that count, a task
more is made below the limit only, and so is a piece of evidence. `ComposerInv`
carries the types of the composer through an invoker that may set the budget to
anything it could be.

### Only model-checked

- The temporal properties StatusCorrected, CommandsTaken, WorkerReturns,
  LockIsReleased and AnswersArrive: liveness and ENABLED are beyond the prover.
- What recursive functions compute, where a proof would need induction over data:
  a library function that is recursive is either taken as it is (`Latest` of the
  evidence) or reached by the least counterexample, as in `LayersAre`.
- The findings, which are counterexamples of runs.

## Not modelled, and why

The components marked `not_modelled` in `PROJECT.json`. Those without state
(HTTP clients, parsers, probes) have nothing a model checker would reach and a
test would not. Inside the modelled parts: JSON and argument validation in front
of the handlers, formatting of answers, logging; names, timezones and rounding
of timers; audio and ids of the player; the text of prompts and replies, and the
privacy filter of the Discord service; log, diff and listings of the coding
plugin, which only read; the facts of a state file, project resources and the
registration of the expert families. Data races on single Python attributes read
without a lock (`status()`) are read as atomic, which CPython guarantees.

Of the avatar: the queue of state events (`zara_avatar.py:2132`), a pipe that fills up
(line 975), the asynchronous loading in `app.mjs`, the rendering, what is in the
library's files beyond whole and torn, and `selected.json`, which the actor writes
and does not read. Of the Discord service: a record of the audit that a failing
write leaves half written, and the entry that is then put behind it
(`moderation_audit.py:98-101`); the limit of 128 on the queue of the event
subscription (`plugin.py:75`), behind which events are lost before the router sees
them. Of the timers: a cancel whose save failed is final in memory and undone by
a restart (`domain.py:226`), which no document speaks about.

Where a model takes one of several: one namespace stands for all in `ExpertHost`
(they share nothing), one worktree path in `CodingVerify` and `CodingWorktree`,
one requirement of a SPEC at a time.

## Plan

Order of the remaining work, most important first.

1. The renderer host further: a bounded pipe; the scene agrees with the state
   after a resynchronisation.
2. Runs for the properties seen to fail above: the task state after a stop, the
   lock of another, the tree of another branch, the setting that is not stored.
3. The actor's state events; the renderer's asynchronous loading.
4. The sequential services with state: context, calendar, media, memory, comms,
   browser tabs, shell runner, Emacs workflow.
5. Theorems: what the properties of item 2 become once the code keeps them, and
   the outcomes the actor assumes of its host, as a second refinement of
   `RendererService`.

Composition: `AvatarActor` uses `AnimationController`, and assumes of its
renderer host the outcomes that `RendererHost` has in detail; to show that
`RendererHost` implements what the actor assumes is part of item 1.
