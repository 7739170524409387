# RustifyMyClaw in TLA+

RustifyMyClaw is a daemon that carries chat messages to local AI command-line
tools and their output back. This directory holds TLA+ models of it, the TLC
configurations that check them, and proofs for TLAPS. Paths below are relative
to the repository (`src/router.rs` and so on); `PROJECT.json` gives the lines
behind every definition.

## 1. The system

```
 telegram ─┐                                    ┌─ handler ── limiter
 whatsapp ─┼─ tx.send ─▶ mpsc(64) ─▶ Router::run├─ handler ── sessions, workspace handle
 slack    ─┘                                    └─ handler ── Executor ── CLI process
                                                      └── format ── send_response ─▶ chat
 signal ──▶ CancellationToken ──▶ providers, router, config watcher
 file   ──▶ notify ──▶ config watcher ──▶ limiter wrapper
 file   ──▶ load, validate ──▶ build_workspaces ──▶ providers (Slack: users.list) ──▶ gates
 config set, init, allow-path ──▶ file, access control lists, systemd override
```

| component | state | operations | hard part | what makes it correct |
|---|---|---|---|---|
| providers (`src/channel`) | connection, thread map, `tx` | read, acknowledge, forward, back off, stop, send | forwarding blocks on a full channel; some waits ignore shutdown | nothing is lost or overtaken before a shutdown; they stop |
| router loop (`Router::run`) | channel, `JoinSet` | receive, spawn, drain, abort | closes exactly when the last sender is gone; hanging handlers | every message gets a handler; the daemon ends |
| router handlers (`Router::handle`) | session store, workspace handles | `/new`, `/status`, `/help`, `/use`, prompt | handlers of one chat interleave at every await | no session is inherited; a reset holds but for a prompt under way; a conversation crosses workspaces only with a `/use` |
| session store | `is_active` per chat | mark_active, reset, get | as above | as above |
| rate limiter | a deque of instants per user | check | the clock is read before the mutex | the window's limit, no refusal without cause, an honest wait |
| executor | process, two pipes, timer | spawn, read, time out, kill, wait | full pipes, detached output, processes left behind | all output or a reported failure; the timeout ends every run; no process is left but one the system would not end |
| config reload | event channel, wrapper of the limiter | debounce, drain, read, apply | writes between any two steps | no change is missed, no invalid file is applied, reloads do not feed themselves |
| formatter | none | fixed and natural chunks, file upload, truncation | bytes against characters, fences | nothing is lost, limits are kept, code blocks are whole |
| startup and `main` | cancellation token, join handles | find, load, build, spawn, join | the senders' lifetimes; building waits for Slack | every start ends; a signal ends the daemon |
| user resolution, security gate (`resolve_users`, `src/security.rs`) | a set of ids per channel | resolve, is_allowed | Slack's directory is read page by page while it changes | a gate admits who is listed, and nobody else |
| config loading (`src/config.rs`) | none | resolve_path, interpolate, validate | variables are replaced before the text is parsed, in comments too; files found in order | what passes can be built |
| config commands (`src/cli/config_cmd`) | config file, temporary file, access control lists, systemd override | set, init, allow-path, get | no locks, files emptied before they are filled, kills between steps | an edit changes its key or nothing, up to the spelling of others; the service is told only of what it may access |
| packaging | | | | not modelled |

Components interact through the bounded `mpsc` channel (messages), through
`Arc<RwLock<_>>` state (sessions and workspace handles, one access per lock),
through the cancellation token (shutdown), and through the file system (reload).
`PROJECT.json` lists every hazard at its line under "hazards", with the
properties that guard against it; a hazard without one has a note saying why.

## 2. The modules

| module | models | state and actions |
|---|---|---|
| `RateLimiter` | `src/rate_limit.rs` | A call is two steps, `Sample` (the clock) and `Allow` or `Limit` (the critical section). Callers stay at most `MaxSkew` between them. |
| `Router` | `Router::handle`, `src/session.rs` | One action per stretch of code between two awaits: `workspace` and `active` are the shared state, `pc`, `request`, `ws`, `found`, `result` the local variables of each handler, the rest history: which marks a reader saw, and which `/use`, or reset of its chat, came while a handler was at work or a session lived (`crossed`). |
| `Executor` | `src/executor.rs` | `task` is `run()`; `child`, `helper`, `holds`, `buffer` are the processes and pipes it works with; `refused` remembers a kill or a wait that failed. |
| `Delivery` | no code: what the daemon promises of a message | A message is unsent, accepted, started, ended or lost. |
| `Lifecycle` | `src/channel/*` (receiving), `Router::run`, `src/startup.rs`, `src/main.rs` | `provider[p]` is each `start()`, `where[m]` each message, `queue` the channel, `router` the loop. What a handler does is `Router`'s subject. `Status` maps it to `Delivery`. |
| `Inbound` | `start` and `send_response` of `src/channel/slack.rs`, `handle_inbound` of `src/channel/whatsapp.rs`, `src/security.rs` | `stage[b]` and `done[b]` are where the provider is with an envelope or a request, `acked[b]` whether the platform knows, `thread_map` the thread map, `tasks` the handlers with their replies. |
| `Startup` | `src/main.rs`, `build_workspaces`, `resolve_path` and `validate` of `src/config.rs`, `create` and `resolve_users` of each provider | `at` is the position in the loop of `build_workspaces`, `lookup` the local variables of `fetch_all_slack_users`, `providers` what has been built. |
| `ConfigFile` | `src/cli/config_cmd/dotted_path.rs`, `merge_allowed_path`, `load_from_path` | Operators and the recursive function `Reading`. The text of a YAML document is a function from paths to nodes, plain or quoted scalars among them; `Value` is what serde_yaml reads in a node, `serialise` how it writes a value, `Read` what it reads once the variables are replaced. A key is a sequence of tokens. |
| `ConfigCommands` | `set`, `init` and `allow-path` of `src/cli/config_cmd` | `pc[c]` is where command c is, `disk` the files, `acl` the access control entries; `fs::write` is an action that empties and one that fills. |
| `ConfigReload` | `src/config_reload.rs`, the closure in `src/startup.rs` | The file and its writers, notify's thread, and `watch()` as start, receive, drain, read, apply. |
| `Formatter` | `src/formatter.rs`, the truncation in `src/channel` | Pure operators on sequences of UTF-8 bytes; the one action lets the output grow. `Loop` is the `while !remaining.is_empty()` of all three splitting functions, as a recursive function of the number of bytes that remain. |
| `RateLimiterProofs`, `RouterProofs`, `LifecycleProofs`, `InboundProofs`, `StartupProofs`, `ConfigCommandsProofs`, `ConfigReloadProofs` | | Theorems about the module they are named after, and their proofs. |
| `OutputProofs` | | The same about `Executor`, which collects a CLI's output, and `Formatter`, which splits it. |
| `MCRateLimiter`, `MCRouter`, `MCLifecycle`, `MCInbound`, `MCStartup`, `MCConfigCommands`, `MCFormatter` | | Constants for TLC. |

Operators marked "Mutant" are plausible bugs. Each replaces a definition of the
model to show that a property notices it; `PROJECT.json` pairs them up. No
specification uses them.

`Router`, `RateLimiter` and `Executor` meet in one handler: `Router` treats the
limiter as a choice between `PassLimiter` and `Refuse`, and the executor as the
time between `Launch` and `CliReturns` with the results of `Executor`.
`Lifecycle` treats the handler as a task that may end, and a message as one
forward; `Inbound` looks at what precedes the forward, and takes the router's
end as an event (`Close`). `Startup` ends where `Lifecycle` begins, and builds
the gates that `Inbound` is given as `Allowed`. `ConfigCommands` is the writer
that `ConfigReload` sees as `BeginWrite` and `EndWrite`. So each model
over-approximates the parts it leaves to the others.

`Lifecycle` implements `Delivery`: `Promise == INSTANCE Delivery WITH status <-
[m |-> Status(m)], stopping <- shutdown, Ordered <- Inline` maps a message that
is with its provider or in the channel to "accepted", one with a handler to
"started", one whose handler ended or was aborted to "ended", one dropped with
its sender or the channel to "lost". Steps that move a message within one of
these, and the steps of providers and router, stutter. `Delivers ==
Promise!Spec` then says that a message is started at most once and never after
it was given up, in the order of its provider where that one forwards one at a
time, and given up only after a signal.

## 3. What the runs show

Expected to hold:

| run | bounds | shows |
|---|---|---|
| `RateLimiter` | two users, two callers, a window of four ticks, a clock of seven, a skew of one | limit, justified refusals, retry bound, with timestamps pushed out of order |
| `RouterConcurrent` | two chats on one handle and one of them on a second, three handlers at once, prompts refused, failing to start and timing out | sessions are never inherited; a reset is lost only to a prompt it raced with; a prompt or a `/status` mixes two workspaces only if a `/use` crossed it |
| `Executor` | pipes of one chunk, two chunks each; crash, fork, detach, failing reads, kills and waits | all output; a process left only by a kill or a wait that failed; no deadlock on full pipes; the timeout ends every wait but the one for a detached process |
| `Lifecycle` | any choice of a telegram, a whatsapp and a slack provider, up to five messages, a channel of one | it implements `Delivery` (no loss before a signal, order); no starvation, closure, termination |
| `Inbound` | three envelopes or two requests of up to two messages, with and without a `ts`, two channels, an allowed user and a stranger, one delivery repeated | what is acknowledged was forwarded; a reply keeps to one thread, of its channel, of an allowed user's message, not older than the last with a `ts` up to the one answered |
| `Startup` | every list of users for one channel, three channels in two workspaces, invalid files; a directory of three members on two pages that changes twice; each place a file can be in | gates are exact, backends registered; every start ends, and fails only for a reason |
| `ConfigCommands` | one `set` with any key of up to three tokens or any of sixteen values; two of `set` and `init`; two `allow-path`; a kill anywhere; twelve configurations with variables that are a word, a number, a sequence, broken YAML, two lines or unset, plain and quoted; six overrides | an undisturbed `set` changes its key, what serde_yaml spells anew, or nothing, and what it writes loads; the override lists only what was granted, and an undisturbed `allow-path` loses nothing |
| `ConfigReload` | three writes, in place or by renaming, a channel of two | only valid files, convergence while the file is the watched one, rest, stop |
| `Formatter` | every text of at most 6 bytes of prose, or 10 with fences; all limits up to 5 or 7 | nothing lost, limits, characters, whole blocks |

Expected to fail, each against a sentence of the repository (quoted in
`PROJECT.json`, "findings"):

| run | the sentence, and what happens |
|---|---|
| `RouterUse` | "meaningless in the new one": `/use` moves every chat of the handle and resets one session |
| `InboundThreads` | "reply in-thread": one thread per channel is remembered, and a later message replaces it before the reply looks it up |
| `ConfigReloadLimits` | "Applied immediately": the router holds a snapshot |

The models show more than has a run of its own.

- Router. `/new` answers "Next message will start a new conversation"
  (`src/router.rs:123`), but a prompt still executing then marks the session
  active again: without its second case `ResetHonoured` fails. `/status` may name
  a workspace with the session of another, for it takes two locks, and a `/use`
  moves the other chats of its handle but resets one session: without the two
  cases of `SameSession`, `StatusHonest` and `WorkspaceKept` fail, and `RouterUse`
  shows the second of them by itself. A chat that writes to two channels of a
  platform has one session and two workspaces, so it carries the session from one
  to the other with no `/use` at all; `SameSession` is about one channel. A
  prompt whose CLI did not start still marks its session active.
- Limiter. `Advertised` rounds the wait down, so a user who waits the advertised
  seconds can be refused again, by less than a second (`RetryBound` is the bound
  that does hold).
- Executor. The timer covers the two reads. A CLI that closes its output and goes
  on is waited for without limit, although the executor "enforces a per-workspace
  timeout" (`docs/architecture.md:43`); hence the second case of
  `TimeoutEndsReads`. Without a configured timeout ten minutes are applied,
  although `src/types.rs:121` says unlimited. A kill that fails is ignored
  (`src/executor.rs:69`), and so is a process whose wait failed: `NoStrayProcess`
  allows just these.
- Lifecycle. A Slack provider that is connecting does not look at the token, so
  shutdown ends only if its peer answers. The same is true of `build_workspaces`:
  a signal during `users.list` is honoured when the start has ended, and the
  request has no timeout.
- Slack threads. A reply goes to the thread of the channel's last message with a
  `ts`, which need not be the one it answers (`ReplyInThread` fails), and is that
  of an earlier one when Slack delivers it again.
- Reload. A watched file that was renamed over is not watched any more, hence the
  condition in `Converges`. `diff_reload` compares `allowed_users` by their number
  only (`src/config.rs:240`), so a replaced user is not reported.
- Commands. `set` writes the document anew, and serde_yaml quotes a string only if
  it would be read as something else. So `"${VAR}"` loses its quotes, and because
  variables are replaced in the text before it is parsed, the next load reads a
  number, a sequence or nothing where it read a string: an edit of one key
  may be rejected for another, or change its type. A plain `1e1` in a field of
  text becomes `10.0`. `SetExact` excuses exactly these (`Respelt`); without either
  excuse it fails.
  Two `set` at once validate through one temporary file, so one may
  write an edit the other's file was validated for: `SetExact` is about a `set`
  that no other command overlaps. A kill between the two halves of the write at
  `src/cli/config_cmd/set.rs:33` leaves an empty file. `set` cannot add a key
  below a missing section (`limits.max_requests` without `limits`), and takes
  `+5511999999999` for a number, which WhatsApp's `resolve_users` then skips.
  Variables are replaced in comments too, so the file `init` writes needs those
  of every platform until its comments are gone. A `[Service]` that is only in a
  comment makes `allow-path` report an entry that it did not add; hence the
  condition in `AllowedIsWritable`; so does an entry that is already there in
  another section, where systemd does not look for it. The parser of dotted paths takes more than
  its grammar, and `set` takes keys that no field has.
- Startup. Duplicate workspace names are not rejected: the last one is what `/use`
  finds. A handle that passes from one member to another between two pages may be
  found with neither, and then ends the start. Telegram's gate holds ids and
  usernames in one set, so a handle written in digits (`"8"` for `8`) admits the
  user with that id; `GateExact` counts it as listing him.

### Why the bounds are enough

The limiter's violations need at most `max_requests + 1` admissions of one user
and two callers out of order; the clock outlasts the window, so slots are freed
and taken again. The router's properties speak of one conversation, so a prompt
that begins it, a command that crosses it, of the same chat or of the other one,
and a prompt that continues it or a `/status`.
A pipe of one chunk is full and empty in turn, and two chunks let each pipe
block with the other. A channel of one slot is full with one message, two more
block on it, and two messages of a provider have an order. Two events and three
writes put a write before, between and after the steps of a reload. The
formatter's cases are a break, a character or a fence on either side of a limit,
and all of them occur below the bounds. Of two requests one is cut short and
delivered again while the other is under way; a third envelope in another channel
makes a thread that a reply could be drawn into. Two pages and two changes let a
name leave one member and reach another, on either side of the page boundary,
and a deleted member hold the name of an active one. Three tokens of the seven
are every way two characters of the syntax can meet around a name, and the
rendered keys add the longer ones of the grammar, and indices spelt `00` and
`+0`. Two commands meet at each of their steps. `CHECK_DEADLOCK FALSE` is set
where the modelled system ends.

## 4. Fairness

`Executor`: the runtime polls a ready task (`Run`). Nothing is assumed of the
CLI in `TimeoutEndsReads`, which speaks of a timer that has fired; `Finishes`
names its assumption, a CLI that does its work, and assumes nothing of the timer.
`Lifecycle`: a task that can go on does, and the drain's timer fires; the
channel serves waiting senders in order, so each message's send is treated
fairly. Handlers are never assumed to end. `AnsweredSpec` adds that the
platforms' servers answer.
`ConfigReload`: the task and notify's thread run. Where the `select!` can take
an event or the token it chooses at random, hence strong fairness of `Stop`.
`Startup`: main goes on, and Slack answers, with a page or an error, because
reqwest is given no timeout that would end a request (`Answer`). The directory
is assumed to change finitely often while it is read (`MaxChanges`).
No liveness is claimed of `RateLimiter`, `Router`, `Inbound`: their progress is
that of the tasks above. A command of `ConfigCommands` may be killed anywhere.

## 5. What is proved

For all values of the constants, under the named assumptions of the modules.

`RateLimiterProofs`. The inductive invariant relates each user's deque to the
history: the deque is a suffix of the admissions, what was pruned had expired
for a timestamp already read, timestamps of pending calls lie within `MaxSkew`
of the clock, and neighbours in the history are at most `MaxSkew` out of order.
`SlidingWindow` alone is not inductive, for nothing in it says that an admission
outside the deque is old. From the invariant follow `TypeCorrect`,
`WindowRespected`, `LimitJustified` and `RetryWithinASecond`; `ExactWindow` is
`WindowRespected` with `MaxSkew = 0`.

`RouterProofs`. For any chats, any wiring of chats to handles and any number of
handlers at once. `Sound` is about marks: a session is active only if
someone marked it, a mark is a returned prompt of that chat, and a reader's
`because` is the set of marks it saw; from it follow `TypeCorrect` and
`NoStolenSession`. The other properties speak of what a handler has read, not of
what the shared state holds by now, so `Settled` relates the two: a handler at
work has read the last epoch of its chat or a reset has crossed it
(`ExecutingFresh`), the same is true of the marks (`MarksFresh`); the workspace
it read is that of its handle, or a `/use` has crossed it (`HandleCurrent`,
`HalfReadCurrent`), and so are the workspaces of a chat's marks, but between the
swap and the reset of a `/use`, which whoever begins to read then has crossed
(`MarksCurrent`, `OpenSeen`). `ResetLostOnlyToRace`,
`ConversationStaysInWorkspace` and `StatusTellsTheTruth` follow, each for every
interleaving.

`LifecycleProofs`. `TypeCorrect`, with the bound of the channel, and
`ImplementsDelivery`: the daemon implements `Delivery` for any providers, loads
and capacity. Not every state that has the right types starts messages in order
or loses none without a signal, so the invariant `Sound` adds what makes the
steps map: a provider that forwards inline is busy with one message, the last it
has taken (`OneAtATime`), messages are taken in order (`PeersLast`), the channel
holds each once and keeps that order (`QueueOrdered`), and a router that was not
told to stop stopped last, with no send under way and an empty channel
(`Closed`). Then each step is one of `Delivery` or a stutter (`StepImplements`).

`OutputProofs`, first about `Executor`. `OutputComplete` says nothing of a run
that has not returned, so `Sound` accounts for every chunk: while a pipe is read, what was collected and
what the pipe still buffers is what was written (`Accounted`); a pipe read to its
end stays closed, and was read as a whole (`EndIsFinal`); `run()` waits for the
process only when neither pipe is read any more, and completes only when both
were read to the end (`Progress`); a process that is not reaped when `run()` has
returned was refused by the system. `AllOutputReported` and `ProcessReaped` follow,
for pipes of any capacity and any behaviour of the CLI and its helpers.

`OutputProofs`, then about `Formatter`: for every output, limit and threshold
`FormatterNothingLost`, `FormatterWithinLimit`, `FormatterWholeCharacters` and
`FormatterBlocksWhole`. That an output is a sequence of bytes says too little:
if a continuation byte followed a line break, the cut after the break would make
a message that begins with it. The
invariant `FormatterInv` says that it consists of whole characters (`WellFormed`):
it begins with one, the bytes the code looks for are characters of their own,
and within `HardLimit` bytes another one begins; each character that is added
keeps this (`GrowWellFormed`). Every round of a loop cuts off at least a byte,
within the limit or a single character, and at a boundary (`CutForm`,
`SegmentForm`), so what is cut off and what remains are well-formed again
(`CutWellFormed`). `LoopRule` is the induction over what remains: a property of
nothing, which a round's push hands on from the rest to the whole, holds of all
that a loop pushes; it also shows that the recursive function exists. From it
follow the pieces (`PiecesForm`) and the messages of the segments
(`SegmentsForm`). `BlocksWhole` needs that the fences of a text add up: the first
one is followed by those behind it (`FenceCountForm`), the prose before it has
none, and a block takes exactly two (`TwoFences`), so an even number leaves an
even number and the last fence is never open. `FlattenConcat` and `ContentsForm`
put messages together part by part. Assumed: an output's characters are UTF-8
(a lead byte and continuation bytes), as `String::from_utf8_lossy` in the
executor ensures; backtick, line break, full stop and space
are single bytes, no character is longer than what the platform takes, and the
truncation suffix is shorter.

`InboundProofs`. The provider is with one envelope at a time (`OneAtATime`) and
its stage says what it has checked (`Stages`); what it has done of a batch is
forwarded, and a task belongs to a message that was accepted (`Forwarded`,
`Tasks`). `NothingForgotten` follows from these. For the threads: the entry of a
channel is an allowed user's message there, the one being sent if there is one,
and not older than any of the channel's tasks whose message has a `ts`
(`Remembered`); a reply has read it (`InThread`), hence
`RepliesInOneThread` and `RepliesToTheRightThread`. Assumed is only that a
message can be counted: envelopes carry one, requests any number.

`StartupProofs`. `Position` and `Reached` relate the place in the loop of
`build_workspaces` to what has been built, from which `TypeCorrect` draws that a
running daemon has the backend of each workspace. For `GatesAreExact` the
invariant `Lookup` speaks of the pages read so far: a name found was somebody's
while the directory was read, and a member of those pages who kept a name all
the while was found under it; a page read adds to this what the directory holds
at that moment (`PageSound`). Then the lemmas about `resolve_users` of Slack and
telegram (`SlackExact`, `TelegramExact`) are pure set reasoning. Assumed: members
are numbered, as the cursor needs; the files are what deserialization can
yield; a username is not a number, which telegram ensures.

`ConfigCommandsProofs`. Any number of commands, with any arguments, on any
files. `NothingListedTooEarly`: `GrantsMade` counts the calls of `setfacl` that
have succeeded and says that a command at work on the override has made all its
own, and that those of the paths in what it has merged are made too; entries are
never revoked, so this survives every interleaving. `AllowingWorks` rests on
lemmas about `merge_allowed_path`: where each line goes (`Places`, by counting
the sections above it), that nothing is lost and only the entry is added
(`MergeForm`, `MergeLists`), and that what stood in `[Service]` still does
(`MergeWritable`). Properties about a command that no other overlaps need
`Exclusive`: the only active command is then that one, so the files are as it
left them (`AllowAlone`, `SetAlone`). `SettingWorks` adds that documents are
trees of nodes (`Trees`), which an edit keeps (`EditClosed`), that a value is
read again as it was written (`Reread`), that a node that is not spelt anew keeps
all that is read in it and the variables it names (`Rewritten`), that loading
depends on nothing else (`LoadDepends`), and that the parser finds the segments
of every key of the grammar (`ParseRendered`). `Reading` and
`Rendering` are recursive functions, so this is induction over the tokens of a
key: over a set of naturals it needs no operator as a parameter, and follows from
the least number outside the set (`UpTo`); `ReadingExists` and `RenderingExists`
show that the functions are what their definitions say. Assumed of the grammar:
names and the tokens of numbers are none of the parser's three characters, and an
index is spelt by itself; of the environment, that it has only variables.

`ConfigReloadProofs`. `InvalidNeverApplied`: what the watcher holds between the
read and the assignment was accepted by `load_from_path` (`LoadedValid`), and
versions once accepted stay so. `TypeCorrect` needs that a writer has room for
the version it has begun (`RoomToWrite`).

Every invariant was checked by TLC in the run of its module before it was
proved. Two of them were false at first, for inputs the code can meet and the
bounds of the runs did not contain: telegram handles in digits and senders
without a username in `Startup`, and overrides that list the path in another
section in `ConfigCommands`. The runs contain them now.

## 6. What is only model-checked

Liveness (`Finishes`, `TimeoutEndsReads`, `StartEnds`, `Delivered`,
`ClosureSeen`, `ShutdownCompletes`, `Converges`, `ComesToRest`, `WatcherStops`):
the prover does not reach fairness. All other properties of the runs expected to
hold are proved: every invariant, and the two that speak of steps
(`NoSpuriousLimit`, `Delivers`).

## 7. Abstractions

Time is a clock in `RateLimiter` and a choice elsewhere: a timer may fire at any
moment. A message is its chat, origin and command in `Router`, and a pair in
`Lifecycle`, where a whatsapp request carries one message and telegram messages
are of different chats. In `Inbound` it is its chat, its user, whether it is the text
of a person, and whether it has a `ts`; the payload around it is left out, and
envelopes of other kinds are messages to skip. A handler's abort takes effect at once. notify is
modelled by what inotify reports for a watched file. `Inbound`'s platforms
deliver again what is not acknowledged; that a request cut short drops its
handler is hyper's behaviour. In `Startup` a user is a name after some number of
`@`, and letters matter only as "begins with U or W" and "in lower case". In
`ConfigFile` a configuration has the fields `output.max`, `limits.max` and, for
each workspace, which stands for its channel, a backend, a token and an allowed
user; an edit keeps no comments, as serde_yaml keeps none. Of serde_yaml 0.9 it is
assumed that a field of text takes any scalar's text and a number only a plain
one, that a string is quoted only if it would be read as something else, and that
numbers and null are written in one form. A scalar is a literal or one whole
variable and a key has none; a value with a line break or a `: ` in it breaks the
document where it is plain, and adds no keys to it; quotes in the value of a
quoted variable are left out.
A failed call and a kill are one action (`Stop`), for either ends a command where
it is. An override garbled by two commands writing at once is not read again.

## 8. Plan

Written: the core (`Router`, `RateLimiter`, with proofs), the processes around it
(`Executor`, `Lifecycle` with its refinement of `Delivery`, `Inbound`, `Startup`),
and what surrounds the configuration (`ConfigReload`, `ConfigFile`,
`ConfigCommands`), and what becomes of the output (`Formatter`), all of them with
proofs.

Next, in this order:

1. Abstract specifications: a sliding window over the admissions that
   `RateLimiter` implements without skew; a call that `Executor` implements.
2. Composition: `Router` with `RateLimiter` in place of the free choice.

Not modelled, and why: the HTTP calls and payloads of the platforms, and the
upload of files (I/O); `config show`, `path` and `validate` (they read and
print); `diff_reload` and the warnings of `validate` (logging); `format_error`
(wording); packaging and install scripts (no program state). Of the backends
only what a session makes of a command line is modelled.
