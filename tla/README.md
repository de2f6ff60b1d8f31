# Formal model of kampus

TLA+ specifications, model-checking configurations and machine-checked proofs
for the kampus monorepo: its web terminal (*wormhole*) with the terminal server
behind it, its library of stories and tags from the database to the pages that
show it, the cache of fetched web pages with the reader, and the code generator
of its command line. Paths below are relative to the repository;
`WormholeServer.ts` stands for
`apps/worker/src/features/sandbox/WormholeServer.ts`.

## 1. Inventory

The repository is a pnpm monorepo: Cloudflare Workers with durable objects
(`apps/worker`), a web application (`apps/kamp-us`), a Node terminal server
(`apps/wormhole`), a CLI (`apps/cli`), and the packages they share.

| Component | State | Operations | What is hard about it |
|---|---|---|---|
| Channel map (`packages/sandbox/src/ChannelMap.ts`, `packages/wormhole/src/internal/channelMap.ts`) | two maps that are inverse to each other, a free list, the next channel | assign, release, toRecord, fromRecord | reuse after release, exhaustion at channel 255 (the control channel), reload |
| Tabbed layout (`packages/sandbox/src/TabbedLayout.ts`) | tabs, each a tree of panes; the active tab's index | create, close, switch and rename tab; split, close and focus pane | index arithmetic when tabs go; the last tab and the last pane cannot go |
| WormholeServer durable object (`WormholeServer.ts`), one per user | sessions, layout, tab-to-session map, channels, terminal sockets, reconnect marks, attached windows; a stored copy of the first three | 12 control messages, terminal input, socket events, hydrate, persist | handlers interleave at the await of a fetch; late socket events; lazy and eager reconnects; hibernation and restarts |
| PTY session (`packages/wormhole/src/internal/session.ts`, `RingBuffer.ts`) | scrollback, registered clients with queues and sizes, the process of the current generation, its exit deferred | attach, close, resize, write, respawn, checkpoint, restore; output and exit events | fan-out to clients that come and go; exit and respawn; shut queues |
| Session store and mux handler (`sessionStore.ts`, `muxHandler.ts`) | sessions by id; per connection its channels and entries | create, attach, detach, resize, destroy, list, rename; cleanup | several clients on a session; a second attach; partial failure (no channel, no process) |
| Single-session handler (`packages/wormhole/src/internal/server.ts`, run by `apps/wormhole`) | per connection one session and one handle | attach, resize, session_new, input | switch of session; attach to an exited session |
| Browser client (`apps/kamp-us/src/wormhole`, `packages/ghostty-react`) | last state received; per channel a listener or a buffer; the mounted terminals and their readiness | messages to and from WormholeServer, mount, remount, loss of the socket, reload | React renders after the message; a terminal is ready later than it is mounted; channels are reused |
| Sandbox service and protocol (`packages/sandbox`, `SandboxLive.ts`) | none | adapter and schemas | external containers |
| Library (`features/library`), one object per user | stories, tags and their relation, in SQLite | create, update, delete and list stories; create, rename, recolour, delete and list tags; tag and untag; pages by cursor; batch reads | cursors while stories come and go; uniqueness up to case; relations of what is deleted |
| Web page parser (`features/web-page-parser`), one object per address | the address; logs of fetched metadata and content | init, getMetadata, getReaderContent | concurrent fetches that end in another order; failures cached; what is fresh; restarts |
| GraphQL API (`apps/worker/src/graphql`) | none | queries and mutations, each a sequence of calls to objects | the two steps of a list by tag; results are unions of success and failure |
| Library page (`pages/Library.tsx`) | a Relay store of stories and connections, optimistic answers, the rows' state | submit, edit, delete, load more, filter by tag | answers that are late, lost or overtaken; pages appended while the server changes; roll-back |
| Tag pages (`TagManagement.tsx`, `TagInput.tsx`, the form of `Library.tsx`) | the Relay list of tags, rows, the form's chips and a pending name | create a tag from the form, rename, recolour, delete | closures that hold an old list of chips; effects; two components that select the same new tag |
| Reader page (`pages/library/ReaderPage.tsx`) | the article, its highlighted text | visit, run the effect, highlight, leave | an asynchronous highlighting that ends after the story changed |
| Spellbook generator (`apps/cli/generators/spellbook`, `commands/generate/spellbook`) | the files of the monorepo; the column form; a stream of progress events; the progress screen | validate, collect columns, write files, register the feature, run drizzle-kit | one step of many fails or is killed; names that collide; a screen that opens while events flow |
| Spellbook and Spellcaster (`packages/spellbook`, `packages/spellcaster`) | none; the storage of the object they wrap | migrations before the first request; calls to objects | restart of an object between two calls |
| Pasaport, authentication, profile pages, the CLI's login and API keys | none beyond external libraries | routing and calls | little |

Interactions: a browser window holds one WebSocket to the user's WormholeServer
object. That object opens one WebSocket per pane to a sandbox container, with
`stub.fetch`, and bridges output back on a one-byte channel. The channel map and
the layout are its two data structures; the layout with its session map is the
only state that survives the object. Separately, the Node server accepts
connections that attach to shared PTY sessions in a store; a session sends the
output of its process to a queue per client. The pages of the web application
send GraphQL operations, each a request of its own; the API answers them with
calls to the user's Library object and to the object of a page's address. The
CLI touches the repository's files alone.

What makes the components correct, and where it is stated:

* Channels: one owner per channel, one channel per id, nothing lost or handed
  out twice (`ChannelMapSound`, `ChannelPool`).
* WormholeServer: the terminal map tells the truth about sockets and channels
  (`BridgesConsistent`), storage about memory (`DurableLayout`), marks about
  reconnects (`LazyReconnectExclusive`), windows about the server
  (`ViewsCurrent`); the user stays on the active tab (`ActiveTabSurvives`);
  clients are never remapped (`ChannelStable`); connects and reconnects end
  (`ConnectAnswered`, `ReconnectSettles`).
* Browser client: nothing it received is lost on the way to a terminal
  (`ClientSound`); a terminal shows its own pane's output without holes
  (`OwnOutputWithoutGaps`), the kept history included (`HistoryReplayed`); its
  terminals are those of the panes, but for panes closed without a word
  (`TerminalsMatch`).
* Sessions: the registries of a client agree and a connection's channels are
  sound (`StoreSound`); scrollback and streams have no holes (`ScrollbackIsTail`,
  `StreamsUnbroken`), the process fits all windows (`SizeFitsAll`), no client
  waits on a dead process (`NobodyWaitsOnTheDead`), all across a restart. A
  connection that switches or ends leaves no queue behind (`NoQueueLeaks`),
  output reaches all that show a session (`OutputReachesAll`), and its process
  fits them (`SizeFitsShown`).
* Library: no relation dangles, no two tags have one name, no id returns
  (`LibrarySound`).
* Library page: rows are in order and each once (`PageSound`), pages skip nothing
  (`PagesSkipNothing`), and a page at rest is what the server has
  (`QuietPageAgrees`).
* Tag pages: what they refer to is there (`PagesSound`), the form has the chips
  that were asked for (`ChipsAsAsked`), the list has each tag once and as the
  server has it (`TagsListedOnce`, `TagsAgree`).
* Page cache: a row answers as its fetch did (`CacheSound`); a reader's answer
  has content or tells why it has none (`AnswersExplain`); a row that answers is
  recent and no older a page than the other rows (`CacheMovesForward`); who forces a
  fetch gets one (`ForcedIsFresh`). Reader: the text is that of the story, as soon
  as the effect of the render has run (`ArticleIsTheStorys`).
* Generator: what is registered is complete on disk (`WorkspaceSound`), the
  screen tells what happened (`ScreenTellsTruth`), the files hold what was
  entered (`GeneratesWhatWasTyped`), no run spoils an earlier one
  (`RunsOnlyAdd`).

## 2. Modules

| Module | Models | Notes |
|---|---|---|
| `Maps` | JavaScript's `Map` on finite functions | external |
| `ChannelMap` | the channel map class, as operators on a record | used by `ChannelMapSpec`, `WormholeServer` and `MuxServer` |
| `ChannelPool` | abstract: what a channel map promises | refinement target |
| `ChannelMapSpec` | a map under any sequence of calls | implements `ChannelPool` (`PoolSpec`) |
| `ServerLemmas` | what the operators of channel maps, ring buffers and sessions do; recursion over numbers | lemmas for the servers' proofs |
| `TabbedLayout` | tabs and panes, as operators | a tab's tree is the sequence of its panes in walk order |
| `WormholeServer` | the durable object, its storage, its terminal sockets, the windows | EXTENDS `ChannelMap` and `TabbedLayout` |
| `WormholeProofs` | theorems on `WormholeServer` and on `ChannelMapSpec` | EXTENDS `ServerLemmas` |
| `RingBuffer` | the scrollback, by entry and byte length | operators |
| `Session` | a PTY session, as operators on a record | EXTENDS `RingBuffer` |
| `MuxServer` | store, sessions and connections of the mux handler | EXTENDS `Session` and `ChannelMap` |
| `SingleServer` | connections that show one session each | EXTENDS `Session` |
| `SingleServerProofs` | theorems on `SingleServer` | EXTENDS `ServerLemmas` |
| `MuxServerProofs` | theorems on `MuxServer` | EXTENDS `ServerLemmas` |
| `Library` | the Library object's handlers, as operators on its tables | |
| `LibraryProofs` | theorems on `LibraryWindow` and on `TagPages` | |
| `Requests` | the requests a window has in flight, served and answered in any order | used by `Window` |
| `Window` | what the pages of the library share: the object behind the API, the store's records, optimistic answers | EXTENDS `Library` and `Requests` |
| `LibraryWindow` | the library page, the API and the Library object, other windows | EXTENDS `Window` |
| `TagPages` | the story form and the tag management page over one Relay store | EXTENDS `Window` |
| `PageCache` | the object of a page's address, its two tables and its calls | |
| `ReaderPage` | windows that read articles, other clients of the cache | EXTENDS `PageCache` |
| `ReaderPageProofs` | theorems on `ReaderPage` | |
| `TerminalWindow` | a window's hook and terminals; channels, output buffers and replay of the server | EXTENDS `ChannelMap` |
| `TerminalWindowProofs` | theorems on `TerminalWindow` | EXTENDS `ServerLemmas` |
| `Generator` | the generator's naming, files and edits, as operators on a workspace | |
| `SpellbookCommand` | runs of the generator with form, events and progress screen | EXTENDS `Generator` |
| `SpellbookProofs` | theorems on `SpellbookCommand` | |
| `MC*` | finite instances for TLC | |

A definition called a *Variant* in its comment is a plausible bug in the
definition after it. The specifications do not use variants; they serve to test
that a property can fail.

### WormholeServer

The variables are the fields of the class, the stored record, the terminal
sockets that can still deliver events (`sockets`), the handlers that await a
fetch (`ops`), and for each window its phase and the last state it was sent.
Each control message, socket event and runtime event is an action that does all
the handler does.

*Atomicity.* A durable object runs one event at a time up to an await; storage
operations close its input gate, so the only await at which another event runs
is `stub.fetch` in `createTerminalWs` (line 481). A handler that opens a
terminal is thus two actions, up to the fetch (`SessionCreate`, `TabCreate`,
`PaneSplit`, `HandleInput`, `Connect`) and after it (`FetchSettles`). The loop
of `reconnectAllTerminals` has a cursor: the sessions array is iterated live by
index, the tab map live in insertion order, and the panes of a tab from the copy
taken when the tab was reached. A fetch may give a socket, be refused without
one, or throw.

*Left out.* The output of terminals with its buffers and replay, which is in
`TerminalWindow`; pane sizes, names and focus (`RenameOrFocus` keeps their
persist and broadcast). Resizes change nothing modelled. A socket's `close` and `error` listeners do the same
and are one action. PTY, tab and session ids are numbers in order of creation
where the code has random UUIDs, and are never reused.

### Session and MuxServer

A session record has the fields of `SessionParts`; the deferreds are abstracted
to a generation number, since all but the latest are resolved and the latest is
resolved when `procRef` is cleared. `queues` holds the client queues that are
open, each with the output fiber that reads it; an entry that refers to a queue
that is not there refers to one that was shut down. Messages, output and exits
are handled to their end: the fibers they wake wait only for each other, and the
next network event is taken when all are idle. An `offer` to a queue that was
shut down interrupts the fiber that makes it; which of the other offers of that
turn were made is left open. Spawning may fail.

*Restart.* `SaveCheckpoint` is `SessionCheckpoint` of a stored session, which the
host may take at any time; `Restart` is the loss of the server, after which the
host restores the sessions it has checkpoints of, before any connection comes.
The repository has both operations and tests that combine them, but no host that
does, so when a checkpoint is taken and kept is left to the model's choice. A
session's strings that were pushed after its checkpoint are lost, and the model
counts on from the checkpoint.

*Left out.* Names, the working directory, lists and `rename`.

### SingleServer

The same session operators under the other kind of connection, with a store of
its own: `apps/wormhole` runs only this handler. `conns` holds `sessionRef` and
`handleRef`; the mailbox of the forwarding fiber needs no variable, since at the
end of an event the fiber serves the present handle. A stream that ends is a
switch or an exit according to the handle's deferred: in `SessionNew` the fiber
goes on to the new handle, in `Exit` (and for a `session_new` after the session
has exited) it ends the connection, whose cleanup closes the handle. A message
is handled to its end here too. Two messages in one packet could interleave
where `close` shuts its queue down; that is not modelled.

### TerminalWindow

The window's side is the hook (`state`, `terminalBuffers`), and what React has
mounted (`view`): a message changes the hook's state, `Render` commits it later
and runs the effects of the terminals that come, move and go, and `Ready` is a
terminal whose WebAssembly module has loaded. The server's side has the channel
map, the output buffers with their replay, and sockets that were closed but may
yet deliver. Chunks are numbered per pane, and an output buffer holds `MaxBuffer`
of them where the code has 64 KB. `owners`, `untold`, `seen` and `drawn` are history.

`handlePaneClose` releases the channel and closes the terminal before it looks for
the pane. Then the pane leaves its tab; or it is the last of its tab and stays; or
it is not in the active tab, and stays without anything being stored or sent
(`WormholeServer.ts:351`). As tabs are left out, `ClosePane` is any of the three,
the first and the last only while there is another pane. `untold` holds the panes
of the third kind until the next layout is sent: a window keeps their terminals
until then, on a channel that is free or another pane's, and `TerminalsMatch`
leaves them aside.

*Left out.* Input, resizing, tabs (the panes of every tab stay mounted), the
order of panes, and `use-websocket-terminal.ts`, which the application does not
use. Terminals that die are in `WormholeServer`, and so is the reopening, at a
connect, of panes that have no terminal.

### Library and LibraryWindow

A handler of the Library object is an operator from the tables to the tables and
a result. It is one step: its statements are synchronous. Ids are numbers in the
order of creation, as the code's sort by time; urls, descriptions and dates are
data, left out but for a url that is refused. The batch reads of the GraphQL
loaders are operators too; `MCLibraryWindow` has TLC compare them with the single
reads on several databases (`ReadsAgree`).

A mutation or query of the page is a request: made by a step of the user, served
by the API at another (a list by tag in two, since the resolver first looks the
tag up and then lists), and answered or lost at a third. What the page shows
is the Relay store with the optimistic answers of the requests in flight over it,
in the order they were made; an answer or an error takes its own away. The
updaters and `@deleteRecord` are translated where the page has them; how a Relay store merges a record is external. `disturbed` is a
history variable that excludes from `QuietPageAgrees` what no page could know:
changes of other windows, lost answers and answers out of turn. `steady` records
the stories that have belonged to a list since it was loaded.

### TagPages

The form that adds a story and the page that manages tags, in one window, one at
a time. React renders after every step, and an effect that changes the form, or
an exception that unmounts the page, belongs to the step that makes it happen.
The closures of the code are kept: the request that creates a tag carries the
chips of the render in which it was sent (`chosen`). `asked` is history, what the
user wants on the form; `touched` marks the cases in which the code is known not
to give it (section 5): the form was changed while a tag was created for it, a name
was entered while another tag was created or changed, or the chip of the pending
name was removed. The order of the list, by name in the code, is left out.

### PageCache and ReaderPage

One object of one address, which has several spellings. A call is first `init`,
which stores its spelling, and then a read; a read that finds no recent row, or
is forced, fetches, and other calls are handled during the fetch. Of a page only
its version and shape count: whether Readability takes it, whether it parses,
and how long its regions are. A restart kills the calls in the object and leaves
its tables. Rows of one second are not ordered by the query, and either may be
read.

`ReaderPage` adds the component that shows an article and highlights its code
asynchronously. An answer renders the page with the new story (`AnswerVisit`); the
passive effect runs afterwards (`RunEffect`), at the latest before the component
is rendered for another address or answer, and clears what was highlighted and
starts anew. A highlighting whose effect was cleaned up is gone. Between the two
steps the page shows the former story's highlighted text under the new title,
which `ArticleIsTheStorys` excepts.

### Generator and SpellbookCommand

A workspace is the directories and files that the generator reads or writes. A
generated file is what it is derived from, the naming and the fields with their
types in that file's language; an edited file is the sequence of its entries.
Runs follow one another. A step writes one file or makes one edit, and may fail,
or the run may be killed, with the directory of a file made and the file not. The
form is translated key by key as far as it changes the columns. A write or an edit
that fails or is interrupted is assumed to leave the file as it was or as it
should be, never truncated (`generator.ts:244`, 253, 259), and the files that
drizzle-kit itself writes, `migrations.js` and its journal (`generator.ts:303`),
are left out. The screen
hears the events that are sent while it is mounted; the stream may deliver them
late. Class and table names may collide, as `"a-1"` and `"a1"` do.

## 3. Runs

| Run | Instance | Shows |
|---|---|---|
| `channel_map` | 4 ids, 3 channels | `ChannelMapSound`; refinement of `ChannelPool` (`PoolSpec`) |
| `wormhole_server` | 1 window, 3 panes, 2 sessions, 2 sockets, 1 handler, 1 channel, all fetch outcomes | `TypeOK`, `BridgesConsistent`, `ActiveTabSurvives`, with channels exhausted |
| `wormhole_views` | 2 windows, 2 panes, 1 session, 1 socket, 2 concurrent handlers, 2 channels, fetches that do not throw | `DurableLayout`, `LazyReconnectExclusive`, `ViewsCurrent`, `ChannelStable` |
| `wormhole_live` | 1 window, 2 panes, 1 session, 1 socket, 2 handlers, 1 channel, fair fetches | `ConnectAnswered`, `ReconnectSettles` |
| `mux_server` | 2 connections of different shapes, 2 sessions, 1 channel per connection, capacity 3 bytes, 1 restart; the first session 2 processes, 3 strings and checkpoints, the second 1 process | `StoreSound`, `ScrollbackIsTail`, `StreamsUnbroken`, `SizeFitsAll`, `NobodyWaitsOnTheDead` |
| `single_server` | 2 connections of different shapes, 2 sessions, 3 strings, 3 queues | `NoQueueLeaks`, `OutputReachesAll`, `SizeFitsShown` |
| `terminal_window` | 2 panes, 2 channels, 3 chunks, buffers of 1 chunk, 2 messages under way | `ClientSound`, `OwnOutputWithoutGaps`, `HistoryReplayed`, `TerminalsMatch` |
| `library` | pages of 1 story, 2 requests in flight, 2 changes, 4 ids; a tag and two stories at first | `LibrarySound`, `PageSound`, `PagesSkipNothing`, `QuietPageAgrees` |
| `tag_pages` | 3 names, two equal up to case, 2 colours, 2 requests, 2 changes, 3 ids | `PagesSound`, `ChipsAsAsked`, `TagsListedOnce`, `TagsAgree` |
| `page_cache` | a window and another client, 2 spellings, 3 calls, 2 versions of the page, 2 seconds, which make a day | `CacheSound`, `AnswersExplain`, `CacheMovesForward`, `ForcedIsFresh`, `ArticleIsTheStorys` |
| `generator` | 2 features with one class name, 3 sets of flags, 2 runs, 2 columns, 1 event on the stream | `WorkspaceSound`, `ScreenTellsTruth`, `GeneratesWhatWasTyped`, `RunsOnlyAdd` |
| `lost_outcome` | as `generator`, but every run a dry run with the screen | `OutcomeShown` is violated (section 5) |

`ChannelMapSound`, `StoreSound`, `ClientSound`, `PageSound`, `PagesSound`,
`CacheSound` and `WorkspaceSound` join the type invariant of their module with
the named parts in their definitions.

*Why the bounds are enough.* The channel map needs a free list of two and an id
that has to wait, so three channels and four ids. Two concurrent handlers give
every pair of handlers that interleave at a fetch; two sockets let the old and
the new socket of one pane coexist; two panes give a second pane for every
interaction between panes, and three are used where tabs before, at and behind
the active one matter. With two channels or one, panes compete for channels. The
mux instance has a channel short of its sessions, an exit and a respawn, and a
buffer that the banner (2 bytes) and an output (1) fill and that an output of 4
overflows, cut in the middle of a character; one restart with one session
checkpointed leaves another session that is lost. The single-session instance has
more queues than connections, so that a queue left behind can be told from one
in use.

In `terminal_window` the second pane has a channel of its own or that of the
first one, which is closed and whose terminal the window may still show, and a
buffer of one chunk evicts. There no pane finds the channels exhausted, as happens
in `channel_map` and `wormhole_server`; for that case, and for more panes, the
four invariants are proved (section 4). In `library` pages of one story
make a second page of the two stories there are; two requests in flight overtake
each other, and two changes let this window and another, or two mutations of one
story, interfere. `tag_pages` needs a second change under way to have a failed
one beneath one that succeeds, and a name that differs in case only to have the
server refuse what the page offers. In `page_cache` two callers fetch at once
while the page changes once, a third call finds what they stored, and two seconds
separate the recent from the stale. In `generator` no table is named with
`--table`, which the proofs cover, and the second run finds what the
first, finished or not, left.

All bounds are constants, and named as such where they are declared: `MaxPtys`,
`MaxSessions`, `MaxSockets`, `MaxOps`, `Watched` (the windows whose view is
recorded), `MaxQueues`, `MaxGenerations`, `MaxPushed`, `MaxRestarts`,
`Checkpointed`, `MaxBuffer`, `MaxOutput`, `MaxWire`, `MaxRequests`, `MaxChanges`,
`MaxIds`, `MaxCalls`, `MaxVersions`, `MaxTime`, `MaxColumns`, `MaxRuns`,
`MaxEvents`.

*Deadlock* is checked in all passing runs but two. `page_cache` stops when all
calls are made, answered and returned; `generator` and `lost_outcome` stop when
the last run has ended.

*Fairness.* `FairSpec` of `WormholeServer` assumes only that a fetch settles:
weak fairness of each `FetchSettles(o)`. The runtime settles every promise that
`fetch` returns. No fairness is assumed of users, of closing sockets or of
hibernation, and both liveness properties hold without it. `ConnectAnswered` is
checked for fetches that do not throw: a throw ends `handleConnect` before its
broadcast.

*Fetches that throw and views.* `ViewsCurrent` has the same premise, and excepts
the time in which a connect is reopening terminals, as that loop broadcasts only
at its end.

## 4. Proofs

`ServerLemmas` holds what the other proof modules cite. Its first part is about
recursion: the loops of the code (releasing the channels of a session's panes,
summing the bytes of a buffer, flattening the replayed buffers) are recursive
functions or folds over numbers in the models, and no induction theorem of the
library can be instantiated here. `LeastElement` (a set of numbers that is not
empty has a least element) gives `UpTo`, induction over `0 .. N` for a *set* of
numbers, and `Recursion`, that the function a loop defines exists; what a loop
does is then stated of that function. The other parts say what each operator of
channel maps, ring buffers and sessions keeps (`AssignSound`, `ReleaseAllKeeps`,
`PushTail`, `BytesSplit`, `ReplayStream`, ...), with one step per conjunct.

The end of `WormholeProofs`, on a map under any sequence of calls, for any set of
ids and any positive number of channels:

* `SpecChannelMapSound`: the type, the inverse maps and the free list together.
  None is inductive alone: release needs the inverse maps to give back the right
  entry, and assign needs the free list to be unused.
* `MapRefinesPool`: `MapSpec => PoolSpec`. Each call maps to a step of `ChannelPool`
  or to a stutter, by the invariant.

`WormholeProofs`, for any number of windows, panes, sessions, sockets, handlers
and channels: every safety property of the module that a run checks. The
invariant `IInv` is `Coherent`, what each part of the object (memory, storage,
handlers under way, counters, bridges, windows) relies on in the others, with
`SplitsOK`, that a split is under way only once there is a layout: its answer
changes the layout, which must not be Null then.

* `SpecTypeOK`: the active tab exists because no handler removes the last tab, and
  ids that were given out are within their types because a tab is created for a
  pane. A tab gets its id only after the fetch, so `CreatedOK` counts the tabs
  given out together with the handlers that will add one, which are never more
  than the panes created.
* `SpecDurableLayout`: each handler stores what it left in memory; a restart
  hydrates from the storage, so that the rest of `Coherent` must hold of what is
  stored as well (`StoredOK`).
* `SpecActiveTabSurvives`: from what `CloseTabsOf` does tab by tab, by `UpTo`.
* `SpecViewsCurrent`: the last state sent is the present one for each window that
  was greeted, unless a connect is reopening terminals. It assumes that no fetch
  throws, as the code does: a throw ends `handleConnect` before its broadcast.
* `SpecBridgesConsistent`: by a lemma for each way to change bridges: closing
  terminals, opening one, a socket event, hydrating.
* `SpecChannelStable`: from `AssignKeeps` and `ReleaseAllKeeps`, as no operator
  moves an id that has a channel.
* `SpecLazyReconnectExclusive`: `Start` takes a handler id that is not in use
  (`StartFresh`), and `Finish` removes one.

`TerminalWindowProofs`, for any number of panes, channels, chunks of output,
messages under way and capacity of the buffers: the four invariants of the run.
A chunk is followed from the terminal to the screen.

* What the server keeps of a pane is the end of what its terminal wrote
  (`BufferOK`), whatever the buffer dropped. A pane owns one channel at most, for
  ever (`OwnersOK`): a channel may have several owners in turn, and a socket that
  is closing may still write on the channel it captured, which is why the owners
  are remembered and not just the present one.
* `Flow(s, w, c, n)` says that the chunks `s` received on the channel `c`, and those
  on the wire `w` behind them, leave no number out and end with the `n`-th. A
  message keeps it if it `Continues` the stream: the next chunk does, a layout does,
  and so does a replay, whose chunks count up to the last one written
  (`ReplayContinues`). Receiving moves a chunk from `w` to `s` (`FlowTail`).
* `Delivered`: what the server keeps of the open panes was received by a greeted
  window or is under way to it. It is not inductive without `BufferOK` and the
  order of the wire.
* `MountOK`: a terminal that is ready shows the end of what its channel received,
  and nothing waits for it, so that the next chunk may go to it directly
  (`SuffixMore`); one that becomes ready is given what waited (`SuffixConcat`).
* `Latest`: the last layout on the wire, or the hook's state if there is none, is
  the server's, but for the panes in `untold`. `SpecTerminalsMatch` needs it, and
  that a pane has had one channel only, since a terminal stays mounted when a
  layout is rendered.

`SingleServerProofs`, for any number of connections, sessions, queues and
strings, any capacity and any lengths of output: `SpecTypeOK`,
`SpecNoQueueLeaks`, `SpecOutputReachesAll` and `SpecSizeFitsShown`, that is the
three properties of the run and the type invariant. The invariant `IInv` joins them, since none is inductive
alone: output reaches all because no queue of a client is shut, which is
`NoQueueLeaks`; that one needs that no two connections share a queue
(`QueuesApart`), or closing one would close the other's; and a new stream is
unbroken because the scrollback is the tail of the output (`SessionOK`). One
lemma per action proves that it is kept. Those rest on `ServerLemmas`: what
attach, close and resize keep of a session (`AttachAdds`, `CloseDrops`,
`ClientResizeKeeps`), that `push` keeps the tail whatever it evicts or cuts
(`PushTail`), that the replay is unbroken (`ReplayStream`) and the next string
keeps it so (`StreamGrows`).

`MuxServerProofs`, for any connections, sessions, queues, channels, sizes,
capacity, lengths of output and numbers of processes and restarts:
`SpecStoreSound`, `SpecStreamsUnbroken`, `SpecSizeFitsAll`,
`SpecNobodyWaitsOnTheDead` and `SpecScrollbackIsTail`, the invariants of the run.
The invariant `IInv`
says of each part of the state what the other parts rely on:

* of a session (`SessionInv`), that no two clients share a queue, that while its
  output is distributed the queue of each client is open and was sent all of it,
  and that the size fits;
* of a stored session (`Stored`), that it has exited when its process is dead,
  and that the queues still open belong to its present process;
* of a queue (`QueueOK`), that what it was sent is unbroken;
* of a connection (`ConnInv`), that its channel map is sound (`Sound`), so that a
  new channel has no entry yet, and that entries and clients agree;
* of a checkpoint (`SavedInv`), that it keeps a tail of the output;
* of the ids given out (`Counted`), that they are the first ones, so that a new
  queue is new to every session.

Most steps concern one session and one connection: `OneSession` says what the
others need, which is that the clients of the one changed in the way the
connection's entries did. Attaching (`AttachStep`) and taking an entry away
(`TeardownStep`) have a lemma each that several messages use; exits, output,
cleanup, checkpoints and restarts have their own.

`LibraryProofs`, for any stories, titles, tags, names and colours, pages of any
size, and any number of requests in flight: all invariants of the runs `library`
and `tag_pages`. None is inductive alone. Those of the library page are proved in
three layers.

* `Shape` says what the library, the store and the requests look like: the tables
  are sound; every list descends and ends at its cursor; a request for a next
  page asks from the cursor that its list still has, so that what it brings is
  below all that the list has; a creation, once served, has an id above all ids
  in the list of all stories, so that the updater may put it first; no list is
  loaded twice at a time, there is one creation at a time, and the requests served
  have ranks of their own. It is inductive (`InitShape`, `ShapeStays`), and gives
  `LibraryStaysSound` and `PageStaysSound`. A request is served long after it
  was made and answered long after it was served, in which time lists are loaded,
  prepended to and dropped, other requests answered and others' ranks closed
  up; `RequestStays` says once what all of them need of such a step, and `Fits`
  what a step may do to the lists.
* `Steady` relates the stories that have belonged to a list since it was read to
  the list and to the pages on their way: the list has them down to its cursor, a
  page served has them down to its own, and the tag looked up for a page is the
  one the list was read with, as long as one story is left that is steady.
  Inductive given `Shape`, it gives `PagesNeverSkip`. `ReachedBy` is the step
  that joins two pages at the cursor.
* `Agreed` says of a page that is not disturbed: what an answer tells of a story
  is so, or an answer served later tells otherwise; what the store has is so, or
  an answer on its way tells otherwise; and what the list of all stories has
  reached is in it, or its creation is on the way. Inductive given `Shape`, it
  gives `QuietPageAlwaysAgrees`, as nothing is on its way on a quiet page. That an
  answer in turn is the first of those served (`InTurn`) is what lets the store
  forget it.

Those of the tag pages have three layers too, and rest on the same lemmas about
requests, ids and handlers.

* `TagShape` says what the store, the form and the requests look like: the list and
  the chips, also those a creation on its way remembers, are tags of the store; the
  tag a creation made is none of its chips; the requests served have ranks of their
  own; before the first answer nothing is asked for but the tags; and a page whose
  tags are gone or not counted has been unmounted. Inductive (`TagShapeStays`), it
  gives `PagesStaySound`.
* `TagsAgreed` says that there is a `Chain` of libraries which the requests served,
  in the order of their ranks, went through up to the present one, and that the
  store `Mirrors` the first of them, as long as the window is not disturbed. The
  chain grows when a request is served (`ChainServed`) and loses its first library
  when one is answered in turn (`ChainLess`); that the store then mirrors the next
  is what each updater has to get right. Inductive given `TagShape`, it gives
  `TagsAlwaysListedOnce`, as an id that a creation brings is new to the library it
  was served in and so to the list, and `TagsAlwaysAgree`, as with nothing in flight
  the chain is the present library alone.
* `ChipsFit` says that while the user does nothing that the form cannot cope with, it
  has the tags picked and the tags that bear a name entered (`FormFits`); and of the
  requests (`QueueFits`), that the one creation on its way remembers the chips that
  the form still has and is of a name that no tag bears yet, and that no rename is on
  its way. With that the effect of `TagInput` finds nothing to select (`RenderFits`).
  Inductive given the other two layers, it gives `ChipsAlwaysAsAsked`. It needs
  `TagsAgreed` for the answers: a list that is answered in turn has the names the
  store has, and a created tag the name that was entered.

The handlers have a lemma each on soundness (`CreateStoryOK` and so on), for which
creating and renaming need that names are compared as `Lower` has them and
deleting a tag that its links go with it, and one on what they change of other
stories (`UpdateStoryIs` and so on). The page cut from the table is described by
`PageOfIs`, and the order of its rows by `DescendingIs`.

`ReaderPageProofs`, for any windows and other clients, spellings of the address,
documents, errors, length of a day and numbers of calls: all five properties of
the run `page_cache`. The invariant `IInv` has three parts. `ReaderInv`: the text a
window highlights, or has highlighted, is the one its effect ran for last. `StoriesOK`: a story is an
answer of the reader. `CacheInv`: every row is made of the answer it remembers
(`RowOK`); of two rows the later is no older, and shows no older a page unless
their fetches overlapped (`InOrder`); a call that fetches has begun with no newer
row in the table (`FetchOK`), from which follows what it may answer (`AnswerOK`).
The middle one is needed because the newest row answers a call that has fetched
nothing, so a property of that call rests on the order of all rows before.
`FetchedProper` and `StoredAgrees` are about the conversions, from
a page to an answer and from an answer to a row and back; `AppendOK` is the step
that stores a row, and `CallKept` what every other call needs of a step.

`SpellbookProofs`, for any features, naming of them, flags and column names, any
workspace whose files lie in its directories and whose migrations ascend, and any
number of columns, runs and events: every property of the run `generator`. Half of
the module is about operators. A sequence that an edit leaves has its entries at 1
to its length (`Ordered`, `AppendNewIs`, `ConcatIs`). The files of a run differ in
their paths (`Apart`, `FilesAre`), which is why a file that is written is never
written over. The steps of a run come in the order that the generator wants: files
first, `wrangler.jsonc` at most once (`StepsAre`). An edit adds its own entry and
takes none away (`Grows`, `EffectIs`). The invariant `IInv` then has

* `RegisteredHasFiles` and `Bound`, for `WorkspaceStaysSound`. That no more
  bindings were added than there are features is not inductive: a run writes the
  files, which makes its feature present, before it binds it. `Bound` leaves a
  feature out of the count (`Counted`) as long as its run has yet to bind it, and
  then needs that the edit comes once and that the feature had no binding before;
* `Fresh`, that a run whose first step is still to come has no directory of its
  own, because the validation refuses a feature that has one. With the distinct
  paths it gives `Contents`, that the files hold the run's columns, for
  `AlwaysGeneratesWhatWasTyped`, together with `Entered` for the form;
* `Progress`, that every step before the current one is done and stays done
  (`StaysDone`), so that the last step reports what is there (`Completes`,
  `Succeeds`), for `ScreenAlwaysTellsTruth`.

`RunsAlwaysOnlyAdd` is a property of steps: by `Fresh` and `Contents` a file that a
step writes into its feature's own directories is new or has that content already
(`PerformWrites`), and what it writes elsewhere is in no feature's directories
(`OwnDirsAre`).

The assumptions are those named in the modules (`MaxChannelsAssumption`,
`NullAssumption`, `WormholeAssumption`, `TerminalWindowAssumption`, `RingBufferAssumption`,
`SingleAssumption`, `MuxAssumption`, `LibraryAssumption`, `LibrariesAssumption`,
`WindowAssumption`, `TagPagesAssumption`, `PageCacheAssumption`, `ReaderPageAssumption`, `NoChannelAssumption`,
`SpellbookAssumption`); the runs evaluate them.

*Only model-checked.* Liveness (`ConnectAnswered`, `ReconnectSettles`), which the
provers do not cover.

## 5. Where code and documents disagree

* `OutcomeShown` (run `lost_outcome`). The specification of the generator
  (`specs/spellbook-generator/requirements.md:33-34`) promises a display of
  progress, and messages of success and error. The screen hears an event only once
  it is mounted. A dry run sends its one event, that it is complete, at once; when
  that is before the mount, the screen shows "Generating files..." for ever, and
  the command waits for it (`renderApp.tsx:198`). Any run that fails before the
  mount ends in the same way.

The following are stated as invariants in their modules, and no run checks them;
added to the run's configuration, each gives a trace.

* `TabsHaveSessions` (`wormhole_server`). `Protocol.ts` says that destroying a
  session destroys all its tabs. The last tab is kept, without a session, and a
  tab whose terminal is being opened is added after the destroy.
* `KeystrokeTriggersReconnect` (`wormhole_server`). The blog on zombie panes
  says that every keystroke to a dead pane triggers a reconnect. Once the object
  has hibernated, it knows no channels, and drops the keystroke.
* `ConnectedIffLive` (`wormhole_server`). The same blog says that a pane is
  connected if and only if it has a live socket in the map. The close event of an
  earlier socket of the pane removes the entry of the present one.
* `RespawnLosesNothing` (`mux_server`). The blog on immortal sessions says that a
  reattach respawns the shell with no data loss. If another client has not
  detached since the exit, the first output of the new shell is offered to that
  client's shut queue, and the distribution fiber ends.
* `SessionNewCreates` (`single_server`). The README of `packages/wormhole` says
  that `session_new` creates a session. The handler falls back to the session
  the connection already shows, and attaches to that one again.
* `DeletionIsShown` (`tag_pages`). The requirements of tag management
  (`specs/frontend-tag-management/requirements.md:65`) have a deleted tag leave
  the list. `@deleteRecord` leaves a null in it, over which the page maps, and
  throws.
* `CountShown` (`library`). The requirements of pagination
  (`specs/relay-pagination/requirements.md:107-111`) have the count follow a
  creation or a deletion. The updaters change the edges and leave `totalCount`.
* `FallbackBeforeHighlighting` (`page_cache`). A comment of the reader
  (`ReaderPage.tsx:81`) has the raw content as the fallback until highlighting
  completes. The page that is rendered before the effect has run shows the former
  story's highlighted text.
* `FailureReported` (`page_cache`). The requirements of title fetching
  (`specs/fetch-title-from-url/requirements.md`) have the query return an error
  message for sites that cannot be reached. The failure is stored and answered as
  an empty title.

Seen in the models without a property of their own: `handleCreateTag` sets the
chips from the render in which it was sent, so chips picked or removed meanwhile
are undone, and a pending tag whose chip was removed is added again
(`TagInput.tsx:55`); a name entered while a rename is in flight selects a tag that
bears it only until the rename fails, and stays selected; `--skip-index` or `--skip-wrangler` alone skips nothing, as
the generator tests them with `||` (`generator.ts:249`); two features whose names
differ in a hyphen share a class and, in the resolvers, its files.

The two servers differ in what an exit leaves behind. In `SingleServer` the
connections end and close their handles, so the distribution of a live session
never dies (`OutputReachesAll`); in `MuxServer` the entries stay, which is what
`RespawnLosesNothing` shows.

## 6. Plan

Done, in order of importance: the channel map with its abstract specification,
refinement and proofs; the durable object with its runs and the proofs of all its
safety properties; the PTY session with the mux handler, its checkpoints, and the
single-session handler, with proofs of their invariants; the browser's side of the
terminal, with the proofs of its invariants; the library with its pages, those of
the tags included, and the proofs of their invariants; the page cache and the reader, with proofs of all their
properties; the generator, with the proofs of all its properties.

What is left, most useful first:

1. An abstract specification of the reconnect protocol of one pane (dead,
   opening, live) that `WormholeServer` implements as far as
   `ConnectedIffLive` allows.
2. The fetching of a page's metadata into the story form (`Library.tsx:357-384`),
   whose late answer may overwrite the fields of another address.

## 7. Not modelled

* Pasaport and authentication (Better Auth), login, the profile page, the CLI's
  login and API keys: calls of external services, without state of their own.
* Sandbox service and protocol: schemas and a thin adapter to the Cloudflare
  sandbox SDK; the behaviour is that of external containers.
* `KeyValueStore`, tracing and the RPC serialization of Spellbook and Spellcaster:
  a typed view of storage and glue. The migrations, the order of calls and
  restarts are in `PageCache`.
* GraphQL: node lookup, the health and user queries, and tagging mutations that
  no page sends, but whose handlers `Library` has. `proxyImage`, a stateless
  proxy.
* Files generated by the Relay compiler (`__generated__`), layout and styles,
  the CLI's bootstrap and its animation.

Encodings (frames, JSON schemas) are identified with the messages they carry.
