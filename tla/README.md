# amule-remote-qt in TLA+

amule-remote-qt is a Qt client that controls a remote amuled over aMule's EC
protocol. This directory models the parts of it in which order, failure and
stale views matter, checks them with TLC, and proves the central ones with TLAPS.
Paths below are relative to the repository's root.

## The system

```
 UI thread                          worker thread                    network
 MainWindow ──slot calls (queued)──▶ EcWorker ──▶ queries ──▶ EcClient ──▶ amuled
  SearchPanel   ◀──signals (queued)──   timer       codec      socket
  PreferencesPanel
```

| Component | State | Operations | Hard about it | Must hold |
|---|---|---|---|---|
| EC worker `core/ec/worker.*` | `client_`, `refreshTimer_`, `sourceClients_`, `searching_`, `at100_` | slots, `onRefresh`, `teardown`, `shutdown` | failures in the middle of a slot, reconnecting over a live link, late replies, destruction | client, timer, search flag and announced status agree; no reply is taken for another's unnoticed; it always comes to an end |
| EC requests `core/ec/queries.*` | none (they fill `sourceClients_`) | `fetch*`, commands, `mergeClient` | incremental updates | the source map is complete |
| Socket, framing `core/ec/client.*` | `socket_` | `exchange`, `readPacket`, `readExactly`, `authenticate` | partial delivery, timeouts, compressed replies | one reply per request, in order; an exchange ends |
| Codec `core/ec/codec.cpp`, `packet.h`, `tag.h` | none | `encode`, `decodePayload` | length bookkeeping, integer boundaries, truncation | what is written is read back; what is cut is refused |
| Handshake `EcClient::authenticate`, `normalizePasswordMd5` | salt and digest of one attempt | `connectWithMd5`, `authenticate` | digests typed as passwords, daemons that answer anything | AUTH_OK and nothing else lets anyone in; who does its part gets it with the password or its digest |
| Transfers tab `app/mainwindow.cpp` | `lastQueue_`, `retainedCompleted_`, the table | `onDownloadsUpdated`, `onStatusChanged`, clear, delete | old snapshots, other clients, renumbered ids | rows are unique and current, finished downloads stay until cleared |
| Table models, source list `app/downloadtablemodel.*`, `app/sourcetablemodel.*` | rows, selection, `fileEcid_` | `setDownloads`, `setSources`, `onTransferSelectionChanged` | resets without a signal, current row against selection, EC ids | a selection stays with its downloads; the list is of the current row |
| Search tab `app/searchpanel.*` | `liveView_`, result tabs, progress bar | `onSearch`, `setResults`, `onTabClose` | results of an earlier search in flight | a tab shows its own search |
| Result filter, anchors `app/searchfilterproxy.*`, `app/searchresultmodel.*` | filter and anchors of each tab, one row of widgets for all | `setSearchFilter`, `setAnchored`, `onDownload`, `onResultContextMenu` | tabs that catch up when they come to the front, rows that leave the selection | Download fetches what was picked and is shown |
| Preferences tab `app/preferencespanel.*` | `current_`, widgets, enabled or not | `setPrefs`, `collect`, `onStatusChanged` | casts and ranges, concurrent changes, Apply before load | what is written is what the user typed, or else what the panel was filled with |
| Speed graph, settings `app/speedgraph.*`, `MainWindow` | samples, history file, remembered password | `addSample`, `clear`, `save`, `load`, `loadSettings`, `saveSettings` | order of clearing and loading, digests saved again, kills | histories and passwords survive a restart unmixed |
| Saved searches, formatting, dialogs | see `PROJECT.json` | | text only | not modelled |

The threads share nothing. The UI queues slot calls on the worker's event loop;
the worker emits signals that are queued for the UI. Every exchange with the
daemon blocks the worker; replies carry nothing that ties them to a request.
`PROJECT.json` lists the hazards of the code at their lines, and for each of them
the properties that would catch it.

## Modules

- **EcWorker** is the worker. A slot is a chain of steps, one per blocking
  exchange; `pc` names the exchange the running slot makes next. Commands that
  are one `runConnected` call are a family (`PlainOps`), every other slot has its
  own action: `BeginConnect`, `ConnectFails`, `ConnectSucceeds`, `FirstPrefs`
  (`connectToDaemon`), `Disconnect`, `Shutdown`, `StopSearch`, `FetchPrefs`,
  `ApplyPrefs` with `PrefsAgain`, `BeginSearch` with `SearchStart`, and
  `Tick`, `Fetch`, `FetchClientUpdate`, `FetchProgress`, `FetchResults` for
  `onRefresh`. `Teardown` is `teardown()`, signals included. The socket is
  `owed`, the queue of replies not read yet, and `framed`. A reply names the
  request it answers, so the model knows when the code reads a foreign one; the
  history variables `swallowed` and `strayed` count the timeouts this connection
  survived and remember whether the current search has seen one, or has been taken
  to another daemon: `ConnectSucceeds` may replace the link by one to the same
  daemon or to another (`OtherDaemon`), with `searching_` as it was.
- **ConnLifecycle** is what the worker promises about the connection: the order
  of `statusChanged` and when a socket may be held. `EcWorker` implements it
  (`Lifecycle`).
- **EcSocket** is `exchange`, `readPacket` and `readExactly` on a stream that TCP
  delivers in pieces of any size. **ReplyLine** is what `EcWorker` takes from it
  for granted: replies whole and in order, one more unread for each exchange that
  gave up. `EcSocket` implements `ReplyLine` (`RepliesInLine`). The mapping uses that
  requests are answered in order and none is skipped: what `ReplyLine` calls `owed`
  is an interval of request numbers, from that of the next cell to be read (`Oldest`)
  to the last one the wire can answer (`Newest`).
- **EcCodec** is the wire format: `encode`, `decodePayload` and all they call,
  over a byte of `Base` values, and a machine that encodes a packet, may cut the
  payload short, and decodes what is left. `Tags` are the tags that may be sent, at
  any depth; `Nesting` says of each how deep the tree below it is. What the code does
  by recursion (`tagLen`, `writeTag`, `readTag`) are recursive functions on `Tags`
  and on byte sequences. `readTags` is `readTag` in a loop, as both its callers have it.
- **SearchPanel** has the handlers of the Search tab; **SearchSystem** composes
  it with `EcWorker` over two queues, as `MainWindow::wireWorker` does.
- **Transfers** is the Transfers tab with a small worker and a daemon whose queue
  other clients change too.
- **TableView** is a table on one of the models: rows kept in place or reset, and
  what either does to selection and current row. **SourceTable** uses it for the
  download table, whose current row decides which sources are listed;
  **ResultTabs** uses it for the result tabs, each behind a filter proxy with
  anchored rows, and for what Download would ask for.
- **Preferences** is the Preferences tab with its widgets' casts and ranges, a
  small worker and a daemon others reconfigure.
- **EcHandshake** is the login: the text of the password field, its digest, both
  requests and every answer. **SpeedGraph** has the samples and their file.
  **Session** composes the two with the main window over several runs of the
  program, each closed or killed at any point.
- **MC_*** instantiate these for TLC and hold the statements of documents and
  comments that the code does not keep.
- **EcSocketProofs**, **EcCodecProofs**, **TransfersProofs**, **PreferencesProofs**,
  **SourceTableProofs**, **SessionProofs**, **ResultTabsProofs** and
  **SearchSystemProofs**, which has `EcWorker` first, hold the theorems.

The parts that are reduced to a small worker (`Transfers`, `Preferences`, `Session`,
`SourceTable`) take from `EcWorker` only what its own properties promise: signals in
the order emitted, and a status for every change of `client_`.

Operators whose comment begins with "Seeded fault" are plausible bugs of the
definition that follows them. They are used by no specification; `PROJECT.json`
pairs each with the property that finds it.

### What is abstracted

- Payloads: a reply is the request it answers, plus what a property tells apart
  (100% or not, whose results, what it says of each source). Log lines, labels
  and layout are left out.
- The TCP connection and the daemon are external: `PeerDies`, `ProgressMoves`,
  `Listed`, `SentAfter`, `Answer`, `Arrive`, `Die`. The daemon lists a source with
  every field first and with changes later (`EC_DETAIL_INC_UPDATE`), keeps its
  last search across connections, and does not give a source id anew within one
  connection. Searches on one daemon are this client's; another daemon may have any
  search as its last (`OtherDaemon`). What other clients search, on either, is not told
  apart from an earlier search or from none.
- A timeout is an outcome a live connection may always have. The twelve seconds
  of the grace period are a flag that time raises once the timer runs.
- A write that stalls is given up with the request in the socket's buffer, from
  where it still reaches the daemon. After a half-read reply the stream has no
  frames any more: the next header is whatever is there, its length any number up
  to `MaxBody`.
- In `EcWorker` the UI may queue any slot at any time, enabled button or not; in
  `SearchSystem` the rest of the UI connects, to the same or another daemon
  (`Elsewhere`; the theorems are for any set of slots).
- In `Transfers` and `Preferences` a snapshot is what the daemon has: a connection
  that runs behind is `EcWorker`'s subject. Connecting to another daemon is a
  restart, or a change of everything. Every download has a hash and an id. In
  `Preferences` one signal stands for the two statuses that disable the panel before
  a connection is up or has failed.
- In `EcCodec`, doubles are left out (no request carries one), strings have no NUL
  and opaque data is not empty: the format cannot carry the one, and reads the other
  back as `Empty`. Opcodes and type codes take one element of the frame whatever
  `Base` is. A `Cursor` is the bytes that remain.
- Qt is external. What the models take from it: a reset of the model empties
  selection and current row without `selectionChanged`; so does a proxy's
  `invalidate` with the rows it takes out; rows that leave the proxy because their
  values changed do send it. A click moves the current row before the selection, a
  key after it (`QItemSelectionModel::setCurrentIndex` selects first), and a right
  click inside the selection moves the current row alone. Closing the tab in front
  brings any of the others there. When rows leave the proxy in place, the handler
  makes it rebuild itself in the middle of the removal; `ResultTabs` takes the whole
  update as one step. A context menu is modal: while it is open the user does nothing
  else, but queued signals are delivered.
- MD5 is injective. A text or pattern of the filter is the set of names it matches.
  A password is its text and whether it looks like a digest. The host is not empty.
- A sample of the graph is named by the connection it was measured on.
- Which finished downloads are retained is `Transfers`' subject: in `SourceTable` any
  that some queue had may be shown behind the queue, hidden by it and shown again.
- `SourceTable` reads the next downloads only once the UI has taken the last
  snapshots: a bound, as the two parties have no other contact.

## Runs

| Run | Instance | Shows |
|---|---|---|
| `worker` | two searches, one source, a plain command, every fault, one queued slot, one timeout survived | timer, client, status, search flag and signals agree in every interleaving; replies run behind by exactly the timeouts survived; foreign replies and partly known sources only where explained; the results reported are of the last search; refinement of `ConnLifecycle` |
| `worker_live` | one search, late replies and lost links, fairness | a dead link is noticed, the destructor returns, a completed search ends |
| `search_system` | two searches, lost links, reconnects to the same or another daemon, undecodable replies, no timeouts | which results a tab shows, progress bar, closing the live tab |
| `transfers` | two downloads, two EC ids, a selection of one or two rows | the retained list against a changing daemon |
| `sources` | two downloads, two EC ids, one source, two runs of the daemon | which download's sources are listed; selections stay with their downloads |
| `results` | two tabs, two files of which one's sources change, three filters | what Download and the context menu ask for and when it is offered, which rows are pinned |
| `preferences` | two settings in three layouts of widgets | what the panel shows and what Apply makes of settings nobody edited |
| `session` | two passwords, one of which looks like a digest, two connections, two samples, a history that may be unreadable | who is let in, what is remembered, what becomes of the speed history |
| `codec` | bytes of two bits, every boundary value, tags three deep, every cut | round trip, truncation, lengths |
| `socket` | four exchanges, bodies of up to two cells | refinement of `ReplyLine`, every exchange ends |
| `doc_timeout`, `doc_clear` | smallest that suffice | the first two statements below, violated |

### Bounds

`InboxBound`, `CommandBound`, `SignalBound` and `UiBound` cap queues that Qt leaves
unbounded. The properties relate the worker to its next command or the UI to its
next signal. One command in flight and one being served already give every order
of two actors; `search_system` needs two, so that a stop and a new search can
overtake the results of the old one. Its states are compared without what is only
written (`Seen` in `MC_SearchSystem`: the last signals and histories no step and none
of its properties reads). In `session` one signal is on its way while the worker goes
on to the next step, which is enough to find a status that leaves its graph full. `LateBound` caps the timeouts one connection
survives; nothing in the code counts them, and `BehindByTimeouts` is proved for any
number. The theorems hold for any bound. Two searches, two downloads, two tabs and
two passwords are a pair of each: no handler treats a third one differently. Two
runs of the daemon (`RunBound`) are what two numberings need, and two connections
what a mixed graph needs; `MaxSamples = 2` makes the list drop its oldest.
`Base = 4` keeps each of the four integer widths and both sides of each boundary
within TLC's integers. `MaxBody = 2` has empty, single and split bodies; four
exchanges allow a timeout, a recovery from it and a second timeout.
`Samples = {1, 5}` in `Preferences` are a value every widget holds and one that no
spin box or combo box can show and that is negative as an `int`. The result `b` of
`results` has two records, so that a list taken in place can move a row out of the
filter and back.

### Fairness

`worker_live` assumes weak fairness of `Exchange`: every blocking wait of the client
has a timeout (`kTimeoutMs`), so each exchange ends one way or another. It assumes
strong fairness of `Slot` and of `Tick`: each pass of Qt's event loop delivers
posted events and then the timers that are due, so neither starves the other. And
it assumes that time passes (`GraceElapses`). The UI, the daemon and the network owe nothing.
`socket` assumes weak fairness of the client's own steps and nothing else.
A daemon that trickles single bytes can prolong an exchange, since each wait
restarts the timeout, but a reply has an end, so it can do so only finitely often.
The other runs check safety only and assume no fairness.

`SearchEnds` is about connections that survived no timeout. On one that runs
behind, progress and results are read from replies to other requests, and the model
has runs in which a search is never seen to end. For the same reason
`ResultsOfLastSearch` and `SettledTabShowsOwn` except a search during which a timeout
was survived, or on whose connection one had been before (`strayed`): enough of them,
about one for every exchange of a round, and a search is taken for accepted on a late
reply to something else. They except a search taken to another daemon as well, which
is then polled for that daemon's last search (below). The run `worker` has such
timeouts, `search_system` has none; both have the other daemon, and the theorems cover
all of it.

## Where documents and code differ

1. **A timeout does not always end the connection** (`doc_timeout`). ADR-0004 says
   it does. The `fetchPrefs` of `connectToDaemon` and `applyPrefs` ignores its
   error, so after a timeout the connection goes on, one reply behind.
2. **Cleared downloads come back** (`doc_clear`). Clear completed and Delete empty
   `retainedCompleted_` but not `lastQueue_`, from which the next snapshot retains
   them again.

Smaller ones, on which no run is spent:

- `worker.h:5-6` says the timer drives the refresh while connected. A second
  `connectToDaemon` that fails, reached with Enter in the password field, announces
  Error over a link that stays up and keeps refreshing (`StatusTellsClient` allows it).
- `searchpanel.h:95-96`: the live tab may not be the one in the daemon. A search
  that is ignored for want of a connection has taken the place of the tab whose
  results the daemon still has.
- `searchpanel.h:92-96` again: a connection made over a live one, with another host
  and Enter in the password field, leaves `searching_` up. The next refresh then reports
  the other daemon's last search into the live tab (`strayed` in `EcWorker`).
- `authenticate` takes an AUTH_OK in reply to AUTH_REQ, before any digest was sent.
  Whoever answers at that host is trusted (`LoginDecided` says so).
- A history file that cannot be opened or has another magic number loads as an empty
  graph (`speedgraph.cpp:81-88`), which the save on close puts in its place, even in a
  run that never connected (`loaded` in `SpeedGraph`).
- `sourcetablemodel.h:1-3` speaks of the currently selected download. After a move
  by keyboard the list is of the row just left, and after a reset of the table of a
  row no longer selected (`excuses` in `SourceTable`).
- `speedgraph.h:1-3` says there is no persistence; `save` and `load` are there.
- Anchored rows stay pinned after a filter or a reset has taken them out of the
  selection (`unseen` in `ResultTabs`).
- ADR-0005 says an incoming `EC_FLAG_ZLIB` is tolerated. `readPacket` reads such a
  reply to its end and refuses it, which a command survives and a refresh does not
  (`RefreshLost`).

## Proofs

Every theorem is for all values of the constants. Besides those below each module
has a `TypeCorrect` (`SysTypeCorrect` for `SearchSystem`, `CodecTypeCorrect` for `EcCodec`).

| Module | Theorem | States |
|---|---|---|
| `SearchSystemProofs`: `EcWorker` | `TimerFollows`, `StatusTells`, `SearchStates`, `Stops` | agreement of client, timer, status and search flag; the end of the worker |
| | `BehindByTimeouts`, `NoForeignReply`, `SourcesKnown` | what a connection may get wrong, and only after what |
| | `LastSearchReported` | results reported are of the last search |
| | `GraceIsEarned` | the action property `NotCutShort` |
| | `Refinement` | `EcWorker` implements `ConnLifecycle` |
| `SearchSystemProofs`: `SearchSystem` | `BarTrue`, `ClosedStops`, `ResultsNotLater`, `SettledTab` | the four properties of `search_system` |
| | `WorkerInSystem` | the worker in the system is `EcWorker`, with all its theorems |
| `EcSocketProofs` | `SocketIsALine` | `EcSocket` implements `ReplyLine` |
| `EcCodecProofs` | `CodecRoundTrip`, `CodecCutIsError` | what is written is read back; what is cut is an error, wherever it is cut |
| | `CodecHeaderMeasures`, `CodecLengthsSkip` | the lengths of frames and of tags are those of the bytes |
| `TransfersProofs` | `ShownOnce`, `ShownFinished`, `LiveShown`, `FinishedShown` | the four properties of `transfers` |
| `PreferencesProofs` | `PanelTrue`, `NothingUnasked` | both properties of `preferences` |
| `SourceTableProofs` | `CurrentRowListed`, `SourcesListed`, `SelectionKept` | the three properties of `sources` |
| `SessionProofs` | `LoginJustified`, `PasswordKept`, `HistoryKept`, `OneConnectionShown` | the four properties of `session` |
| `ResultTabsProofs` | `OnlyPicked`, `AnchorsFollow`, `Offered` | the three properties of `results` |

They rest on the named assumptions of the modules they are about: bounds are
natural numbers, searches are numbered from 1 (`TabsAreQueries`), there is a salt
(`SaltsAssumption`), EC ids are positive and downloads finitely many (`SourceIds`, `FilesAssumption`), an `int` fits its `quint64`
and a range its `int` (`WidthAssumption`), there is a filter (`FiltersAssumption`). Those of
`EcCodec` are the limits of the wire format. `TagsAssumption` and `PacketsAssumption`:
a name leaves room for its low bit and children are counted in two bytes, at any
depth. `LengthsAssumption`: lengths are written in four. `NestingAssumption`: trees
are finite, as vectors of tags by value are. Without the first two `static_cast<quint16>`
cuts names and counts off, without the third `quint32` wraps around, and
what is read back is something else.

Hardly any of the properties is inductive alone. What has to be added:

- `EcWorker`: `IInv` is `TypeOK` with `ControlInv`, what each `pc` presupposes (a slot
  in the middle of an exchange has a client; a round of polling has a search;
  `at100` was earned in this search; `shutdown` is the last command queued), and
  `WireInv`: the length of `owed` is the number of timeouts survived (`Behind`), a
  round in step has read only its own replies (`GenuineRound`), and a source the
  daemon has described is known in full (`SourcesTold`). Without the first,
  `teardown` and the refresh steps could start from states no slot reaches; a
  foreign reply is excluded by the emptiness of `owed`, that by counting timeouts.
  `OwnSearch` adds the search: one that has seen no timeout and was not taken to
  another daemon is, while it is polled, the one the daemon runs, and what was found
  and reported is its own.
- `EcSocket`: `IInv` adds to the types what each `pc` presupposes (`PhaseInv`), that
  the requests not answered yet are the last ones made (`LinkInv`), and `RowInv`, the
  frames. `Row`, the cells no exchange has used up, those in `header` and `got` first,
  is replies to consecutive requests laid end to end (`Framing`, `Ordered`), all of
  them to requests before the open ones (`Below`), and the last one is whole while the
  connection is up (`Whole`). A read or a header moves cells within the row and
  changes nothing of it; a packet takes off the first reply (`RowRest`), an answer
  adds one (`RowAppend`), a lost connection cuts off the end (`RowPrefix`). From that
  each exchange that ends is a step of `ReplyLine`, and every other step is none.
- `EcCodec`: `CodecInv`: the frame is the encoded packet, or a strict beginning of it
  that still has its header; what was decoded is the packet, or an error. It is
  inductive because of what `encode` and `decodePayload` compute. That is proved by
  induction over trees and over bytes: a tag takes what its parent is charged for it
  (`TagMeasured`), every value is read back (`ValueWritten`), so is a list of tags
  with whatever follows it (`WireReadBack`), no strict beginning of one is read
  (`WireTears`), and its length fields lead to its end (`WireSkips`).
- `SearchSystem`: `BarInv`, the last `searchingChanged` on its way, or else the bar,
  says what the UI was told last; `StopInv`, while no tab is live a `stopSearch` is
  queued with no `startSearch` behind it, or nothing is searched and nothing will be;
  `LaterInv`, nothing queued, asked, owed or on its way is of a search after the last
  one executed, which is the live tab's; `SettleInv`, when that search is the one the
  worker wanted last, the last result list on its way, or else the live tab, is empty
  or of that search. All four use `IInv` of the worker.
- `Transfers`: `ListsInv` says of every list (queued, last, retained, shown) that it
  has a download and an id once and calls finished only what was; without the
  queued ones the next snapshot could break it. `LiveInv` follows the last
  snapshot through the queue of signals to the table. `FinishedInv`: while all
  is of one daemon run every list has the daemon's ids, what is owed is retained, and
  what is retained is shown.
- `Preferences`: `PanelInv`: the last snapshot told is the daemon's; a widget nobody
  touched shows the snapshot the panel was filled with; what was edited and applied
  has another snapshot to come; an Apply on its way carries, for the settings left
  alone, what their widgets made of its base. The last snapshot told may have statuses
  queued behind it (`LastTold`).
- `SourceTable`: `GivenInv`: within one run an id belongs to one download, in the
  daemon, in the snapshots on their way, in the rows and in the sources alike.
- `Session`: `SettingsInv` (field and settings normalise to the same digest as the
  text they come from), `HistoryInv` (in a run that has read the history the samples
  are those on disk until a status has changed, and the first signal to come is a
  status) and `LineInv` (between samples
  of two connections, in the graph or on their way, lies a status that empties it).
- `ResultTabs`: `BarInv` and `TabsInv`: what each tab's selection was picked as, and
  what the tab in front owes to the widgets.

Each action has its lemma, split by conjunct; lemmas on the operators
(`ReceivedType`, `DisplayedType`, `CameToFront`, ...) are stated once.

Induction over data. The induction theorems of the TLAPS library take a predicate as
a parameter, which the provers cannot instantiate. `EcCodecProofs` has it with sets:
`MeasureInduction` says that a set which contains an element whenever it contains all
those of a smaller measure is everything; it follows from the least element of a
set of numbers. From it comes `Recursion`: a function defined by recursion exists when
each value needs only those at arguments of a smaller measure. Without that nothing
could be said of `tagLen[tag]`, which TLA+ defines by CHOOSE. The measures are the
length of a sequence, `Nesting`, and for `readTags`, which calls itself for the children
and again for the tags behind them, the length of what remains to be read (`Reader`):
a header takes seven bytes.

Only model-checked: liveness (`LossNoticed`, `CloseReturns`, `SearchEnds`,
`ExchangeEnds`), which needs ENABLED under fairness. Every other property of a
passing run is a theorem.

## Not modelled, and the plan

Never to be modelled: painting, formatting (`model.cpp`), dialogs, translations,
packaging, continuous integration. Not modelled either: saved searches, a list that
only its own three buttons change, one at a time, and whose one hazard is the text
of its file; the parsing of replies into value objects, which have no state; and
what a proxy does when it is rebuilt in the middle of its own row removal.

Two hazards need more of the daemon than this repository shows: the sentinel of
large tag counts, which the client advertises and does not read, and commands that
were queued for one daemon and are served by the next.

Order of further work: that the socket inside `EcWorker` (`owed`, `framed`) moves as
`ReplyLine` allows between one login and the next, so that the worker's theorems rest
on those of the socket by proof and not by resemblance.
