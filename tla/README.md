# EsmExplorer in TLA+

TLA+ models of EsmExplorer (a browser application and a command line tool that
read Bethesda plugin files and archives), the TLC configurations that check
them on small instances, and proofs, checked by TLAPS, of the safety
properties of the page cache everything else reads through, of how a plugin file
is cut into nodes and fields, of the workspace, of the Home page over it, of the
explorer and its details pane, of the model viewer, of the extractor and of the
color theme.

## 1. The system

EsmExplorer opens `.esm`/`.esp` plugins in the browser (Blazor WebAssembly),
shows their groups and records as a tree, decodes records, follows FormID
references between plugins, shows a hex dump, and previews models whose files
come from the game's data folder and its BSA archives. A separate command line
tool unpacks BSA archives. Everything in the browser runs on one thread; what
makes it concurrent is `async`/`await`: every file read is a suspension point,
and at each of them other handlers run.

| Component | State | Operations | Talks to |
|---|---|---|---|
| `IDataSource` (`IO/IDataSource.cs`, `DataSourceGuard.cs`) | a file's bytes and length | `ReadExactlyAsync`, `DisposeAsync` | file, array or browser blob |
| `CachingDataSource` | dictionary of pages, recency list, gate | the same, through a page cache | wraps an `IDataSource` |
| `PluginFile` | header, source | `OpenAsync`, tree navigation, `ReadRecordDataAsync`, `DisposeAsync` | reads its source |
| `FormIdIndex` | sorted ids and offsets | `BuildAsync`, `FindOffset` | walks a `PluginFile` |
| `PluginWorkspace` | list of plugins, index cache, index gate | `AddAsync`, `RemoveAsync`, `FindByName`, `ResolveAsync`, `DisposeAsync` | owns plugins, builds indexes |
| `PluginExplorerState` | active plugin, selection, tree state per plugin, busy message, pending scroll | add, remove, pick, select, toggle, go to reference, statistics, search | calls the workspace, renders through the `Changed` event |
| `NodeDetails`, `HexViewer` | what was read for the node shown | `OnParametersSetAsync`, paging | read records or bytes of the active plugin |
| `Home` page | `_loading` | register selected files, add them one after the other | `BlobDataSource`, `PluginExplorerState` |
| `BlobDataSource`, `fileAccess.ts` | registered files by number | register, read a slice, release | the input element, the browser |
| `GameDataService` | the folder's name, the index of archived paths, the imported module | `InitializeAsync`, `PickAsync`, `ResolveAsync` | JavaScript interop, BSA reader |
| `dataRoot.ts` | the granted folder, open files by number | pick a folder, list it, find, open, read and close files | the File System Access API |
| `ModelViewer` page, `ModelViewerState` | the path asked for, the path that waits for a folder, `_loading` | take a request, pick a folder, search for a model, render it | `GameDataService`, an external viewer |
| `ThemeService`, `theme.ts`, the script in `index.html` | the stored preference, the theme applied | read and set the preference, follow the operating system | `localStorage`, shared by all tabs |
| BSA reader core | headers, folder and file records | read an archive, read an entry | a stream |
| `ExtractionApplication`, `ArchiveExtractor` | files on disk, temporary file, counters | unpack a directory or an archive | BSA reader, file system |
| Format types, schema, decoder, display | none | pure functions | - |
| Layout, vendored bootstrap, `ui.ts` | presentation | - | - |

### What is hard

* **State read before an await and used after it.** `AddAsync` checks a name
  and then opens the file; `GetIndexAsync` builds an index of a plugin that may
  be removed meanwhile; `NodeDetails` and `HexViewer` store what they read when
  the selection has moved on; `GoToAsync` switches the plugin and finishes
  several reads later; `ToggleAsync` reads `ActivePlugin` while the click was on
  a node drawn before; the model viewer takes its request after an await, when
  another page may be the one it is meant for.
* **Pages that are left.** A Blazor page that is navigated away from goes on with
  what it was doing, and a new one starts beside it, with flags of its own.
* **Two scripts, several tabs.** The theme is computed twice from one storage that
  other tabs write, before and after the script that follows it is imported.
* **Gates.** Three `SemaphoreSlim(1, 1)` serialise page loads, index builds, and
  picking and reading the game folder. Each must be released after every
  outcome, and disposal takes none.
* **Limits.** The page cache at its capacity; the short last page of a file; node
  headers at the edge of the read window; XXXX sizes beyond 16 bits.
* **Files that lie.** Sizes in plugins and archives are what the file says:
  groups smaller than their header, nodes larger than their container, archives
  with equal hashes or names that do not match.
* **Partial failure.** A failed read, a failed archive among several, a failing
  clean-up in a `finally` block, Ctrl+C from another thread between any two
  steps, a crash.
* **Disposal with work in progress**, in particular an `await` inside a
  `foreach` over a list that others change.

`PROJECT.json` lists each hazard at its line, with the properties that cover it.

### What makes each component correct

* A read through the cache returns exactly the bytes of its range or fails; it
  behaves as the source it wraps. Its two lists agree, it evicts the least
  recently used page, loads a page only when it needs to, and never blocks.
* A plugin file is cut into nodes that nest and do not overlap; scans end
  whatever sizes it declares; the index holds the first occurrence of every form
  id, and what it finds can be revealed; fields partition the data of a record.
* The workspace has one plugin per name, disposes every source it owns exactly
  once, builds each index once, keeps indexes of loaded plugins only, resolves
  a reference to the right plugin and record, and every call returns.
* The explorer's active plugin is loaded, its selection and the children in its
  tree belong to the right plugin, a go-to shows what it leads to, and the busy
  message tells whether something runs.
* A pane shows what belongs to the node that is selected.
* A page adds its files one at a time, and a file is registered exactly as long as
  a plugin uses it.
* A path into the game folder resolves to the loose file, else to the bytes the
  last archive packed under that path; unusable archives do not matter to the
  others; no file stays open; every call ends.
* A model that is asked for by a link is searched for by the page that the link
  opened, and what is rendered is the first of its candidates that is found.
* Every tab shows the theme of the stored preference, clicks count in their order
  whenever they come, and no page flashes.
* The extractor never damages an existing file, writes nothing of a refused
  archive, stops at the next check after Ctrl+C and tells in its exit code what
  happened.

## 2. Modules

| Module | Models | Correspondence |
|---|---|---|
| `AsyncGate` | `SemaphoreSlim(1, 1)` (external) | `Take`/`Join` = `WaitAsync`, `Withdraw` = its cancellation, `PassOn` = `Release`, `ForgetWaiters` = `Dispose` |
| `DataSource` | the `IDataSource` contract | abstract: asks and exact or failed replies |
| `PageCache` | `CachingDataSource.cs` | `pagesByIndex`, `recency` = the fields; `pc`, `call`, `copied`, `dest`, `page` = the locals of the calls under way; one action per stretch of code between two awaits |
| `SequenceFacts` | - | lemmas about removing, prepending, appending and looking up elements of sequences, for the proofs |
| `PageCacheHistory` | - | `PageCache` with a history variable: `used`, every page obtained so far, last use first |
| `PageCacheProofs` | - | proofs about `PageCache`, with and without the history, and that it implements `DataSource` |
| `PluginNodes` | `PluginNode.cs`, the two headers | `file` = the headers read so far, by offset; a header is chosen when it is first read |
| `PluginTree` | navigation in `PluginFile.cs`, `FormIdIndex.cs` | `scan` = the locals of `ParseSiblingsAsync` (`at` = `position`, `from`..`to` = the window), `pending` = the stack of `WalkAsync`, the visitor takes the nodes of a run one by one, `op.seen` = what a visitor collects |
| `RecordFields` | `ReadRecordDataCoreAsync`, `Inflate`, `ParseFields`, `FromRecordData` | `reading` = the locals of `ParseFields` |
| `PluginFile` | `PluginFile.cs` as a whole | composes the two: `OpenAsync` reads the TES4 record, then requests and reads of records alternate |
| `PluginWalks` | - | what a walk or a descent has passed and what it has left, for the proofs: the inductive invariant `WalkInv` |
| `PluginFileProofs` | - | proofs about `PluginFile` |
| `PluginWorkspace` | `PluginWorkspace.cs`, with the parts of `PluginHeader`, `FormIdIndex` and `PluginFile` it calls | `loaded` = `_plugins`, `indexes` = the keys of `_indexes`; a task is one call |
| `ExplorerState` | `PluginExplorerState.cs` and the handlers of `Explorer.razor` | the fields by name; `shown` is the plugin whose tree was last rendered |
| `NodeDetails`, `HexViewer`, `DetailsPane` | the two halves of the details pane, and the pane | `recordReads`, `pageReads` = the reads not returned yet, oldest first; `DetailsPane` selects a node for both |
| `ExplorerProofs` | - | proofs about `ExplorerState` and about `DetailsPane` |
| `BsaArchive` | the BSA reader: `BsaContentReader`, `BsaArchive`, `GetPayload`, `BsaPayload` | functions of an archive given as a record; `is` and `at` of a file say what it was packed as, for the properties |
| `FileAccess` | `fileAccess.ts` | `files`, `nextId` by name |
| `HomePage` | `Home.razor`, `BlobDataSource.cs`, `AddSourcesAsync`, over `FileAccess` and `PluginWorkspace` | `handler` = the `OnFilesSelectedAsync` of each page and the sources it has not added yet (`_loading` while there is one); a source is a registered file |
| `WorkspaceProofs` | - | proofs about `PluginWorkspace`, and about `HomePage` on top of them |
| `DataRoot` | `dataRoot.ts` | the module's variables and functions by name; a folder is its list of entries |
| `AssetSource` | what `GameDataService` promises | abstract: calls that are answered at one moment from one folder |
| `GameData` | `GameDataService.cs`, the stream over `DataRoot` | the fields by name; a task is one call, and has the stream it reads |
| `ModelViewer` | `ModelViewer.razor`, `ModelViewerState.cs`, `ModelViewLink.razor`, over `AssetSource` | `request` = `RequestedModelPath`; of each page, `pending` = `_pendingPath`, `work` = what keeps `_loading` true |
| `ModelViewerProofs` | - | proofs about `ModelViewer` |
| `Theme` | `theme.ts`, `ThemeService.cs`, the toggle, the script in `index.html` | `stored` = the storage, `applied` = `data-bs-theme`, `awaited` = the interop calls of a tab in the order they are answered |
| `ThemeProofs` | - | proofs about `Theme` |
| `Extractor` | `ExtractionApplication.cs`, `ArchiveExtractor.cs` | `phase` = where the program is; a `finally` block is a phase |
| `ArchiveProofs` | - | proofs about `Extractor` and about `GameData`, the programs that read archives |
| `MC*` | - | instances for TLC |

`PageCache`, `PluginWorkspace` and `GameData` compose with `AsyncGate` (they
EXTEND it and share `holder` and `queue`). `PageCache` implements `DataSource`
under the refinement mapping `Source` (the pending reads are those whose `pc` is
not idle). `PluginFile` and `PluginWorkspace` use a source as that contract gives
it: a read that was started answers, a disposed source starts none; the index
build, whose steps are in `PluginTree`, is one long read in `PluginWorkspace`.
`HomePage` composes the page, the workspace and `FileAccess`: the handler of a page
is the task of the workspace whose `AddAsync` it awaits, and what the workspace
disposes is released in the browser in the same step. `ExplorerState` uses the
workspace as its list of plugins and an answer that may name any plugin.
`DetailsPane` composes `NodeDetails` and `HexViewer`, which the selection changes
together. `GameData` reads archives as `BsaArchive` says, through the files that
`DataRoot` opens, and implements `AssetSource` under the mapping `Assets` (a pick
whose folder is being indexed is "picked", whatever step it is at); `ModelViewer`
runs over `AssetSource` and so over anything that implements it.

What is abstracted: bytes are model values in `PageCache` and ranges or owners
elsewhere (a pane's content is the range or the record it was read from, a
resolved file is the range of the archive it was decoded from); form ids are
pairs; a path is a sequence of segments; file names, messages and layout are left
out. A plugin file is the headers found in it; the bytes of a record are chosen
while its fields are parsed.

In each module, operators introduced as "Mutant of ..." are not part of the
model: each is a plausible slip in the definition that follows it, kept beside
it to show that some property would catch it.

## 3. What TLC checks

Runs that pass:

| Run | Instance | Shows |
|---|---|---|
| `PageCache` | 2 readers, 5 bytes in pages of 2, 2 cached pages; ranges inside one page, across two, across all three, empty, too long | the inductive invariant of the proofs, single loads, eviction of the least recently used page, that the cache implements `DataSource`, and that reads return |
| `PluginFile` | headers of 2 bytes, window of 4, files of 1, 5 and 11 bytes made of 14 headers, true and false ones | the inductive invariant of the proofs, scans that read no header outside the window and shrink, an index that covers the file, right paths, searches and counts, fields that partition their record and lie in it |
| `Workspace` | 2 tasks; a master, a mod, a second file named like the master | ownership, one build per index, right resolution, complete disposal, calls that return |
| `HomePage` | 2 pages and 1 other call; 3 registered files of a master, a mod and a copy named like the master, selected in three ways | names stay unique unless two pages add at once; files are registered while they are used |
| `Explorer` | 2 calls that overlap freely, 2 plugins that share a group offset | how the active plugin and the selection can part, whose children a tree holds, that a go-to shows its record, and that the busy message ends |
| `DetailsPane` | a group of 3 pages, its twin in another plugin, two records; up to 3 reads of each kind under way, ending in any order | what is shown at the end is the selected node's, unless the newest read overtook an earlier one |
| `GameData` | 2 calls, 2 folders; archives that repeat a path, embed names, stand out of order, are damaged, have equal hashes, or are not supported; names that differ in case | the index is that of the folder, the service implements `AssetSource`, unusable archives are listed, nothing stays open, calls end |
| `ModelViewer` | 2 pages, 2 folders with a model at different places, a link and the path input | requests reach their page and are searched for; the first candidate found is rendered, also when the folder changes in between; no spinner stays |
| `Theme` | 2 tabs, 2 clicks, 2 changes of the color scheme, 1 reload | what is applied and what the toggle shows match the storage, the last click counts, no flash, the theme settles |
| `Extractor` | two good archives that share a path; one alone; a good one between one with a refused path and one with a duplicate path; three sets of existing files; Ctrl+C before and after every check | existing files intact, nothing of a refused archive, exit codes, cancellation, termination |

Runs that find a disagreement between the code and what it says of itself:

| Run | The text | What happens |
|---|---|---|
| `WorkspaceRemove` | removes a plugin and its index | a build in progress puts the index back |
| `DetailsStale` | details for the selected node | a late read is stored for the next node |

### Known limits of the code

Some properties hold only with an exception, stated in the property and needed by
it: TLC finds a counterexample as soon as it is left out.

* `NamesUniqueOnOnePage`: a page that is left while it adds files keeps adding,
  and the input of the next page is enabled. Two files of one name, added by two
  pages at once, are both loaded (`PluginWorkspace.cs:44`).
* `FilesInUse`: files stay registered for good when the import for a source fails
  (`BlobDataSource.cs:47`) or the plugin cannot be opened (`PluginWorkspace.cs:50`).
* `SettlesRight`: when the newest read returns before an earlier one, the earlier one
  overwrites it (`NodeDetails.razor:250`, `HexViewer.razor:92`); no data source
  promises an order. The histories `overtaken` and `pageOvertaken` mark exactly that.
  A go-to between two nodes of different plugins that have one offset and one size
  leaves the hex dump of the first (`HexViewer.razor:68`).
* `SelectionIsLive`: `AddAsync` of a loaded name finds the plugin, awaits the
  disposal of the new source and returns what it found (`PluginWorkspace.cs:44-48`),
  and `AddSourcesAsync` makes it active if none is (`PluginExplorerState.cs:59`);
  Remove stays enabled during an add (`Home.razor:91`), so this can be a plugin that
  was removed meanwhile. A go-to does the same with a target that was removed
  while it resolved. The property states that these are the only ways, and that the
  selection parts from the active plugin only while a `RevealAsync` runs.
* `GoToShows`: while a go-to runs, `Explorer.razor:37` disables nothing but the Go
  button. If the user picks another plugin, follows another reference, removes
  the target or closes a group that the go-to opened, it requests the scroll for a
  record that is not on the screen (`PluginExplorerState.cs:242`). The history
  `crossed` marks the go-tos to which that happened.
* `ChildrenOwn`: a go-to switches the plugin before anything is rendered; a group
  of the old tree that is clicked then is loaded into the tree of the new plugin
  (`PluginExplorerState.cs:138`).
* `BusyEnds` says that a busy message ends, not that it lasts: of two go-tos the first
  to end takes it away (`PluginExplorerState.cs:207`), though line 37 says that it is
  there while a long operation runs. It does not end either while a read of
  a removed plugin hangs.
* `OthersRemain`: an archive with two equal hashes in one folder ends the whole
  pick (`GameDataService.cs:71`), though `README.md:258` of the repository says that
  other archives remain available.
* `CancelStops`: the request comes from another thread. When it falls between a
  check and what follows it, that still happens: one archive is begun
  (`ExtractionApplication.cs:62-63`) or one entry completed
  (`ArchiveExtractor.cs:54-55`), and nothing after it.
* `ImplementsAssets`: in a folder that differs from another only in case, a loose
  file may be missed (`dataRoot.ts:123`); the archives are asked then.
* `RequestServed`: when a page is left before it is initialized, it takes the
  request that was meant for the next (`ModelViewer.razor:134`); and a path whose
  pick threw waits for another pick even if there is a folder (line 181). So does a
  path when the first folder is picked by another page, one that was left with its
  picker open.
* `FirstFound`: such a page can also change the folder during a search. Each candidate
  is then looked up in the folder of its moment (`ModelViewer.razor:212`): the one
  rendered may be in another folder than the one where an earlier candidate was missed.
* `ShowsResolved`, `LastClickCounts`: nothing tells a tab what another one stored.

### Bounds, and why they are enough

* Two tasks, calls or readers show every pairwise interleaving and a waiter
  behind the holder of a gate.
* `PageCache`: the file has a short last page and more pages than the cache, so
  every kind of read, hit, miss and eviction occurs. The bounds on readers,
  capacity, page size and file length fall away in the proofs.
* `PluginFile`: scale is the only difference to the code (24-byte headers, a
  window of 256 KiB, 31-bit limits). 11 bytes leave room for three nodes behind
  the shortest TES4 record: nested groups, an empty group, siblings, a duplicate
  id, a header that straddles the window. Sizes go from 0 (a group smaller than
  its header) to one above `MaxInt`. Fields have sizes 0, 1, 2 and 8. All
  properties of the run are also proved, for every scale and every length.
* `Workspace`, `Explorer`: two plugins suffice for "the wrong plugin"; the
  workspace has a third source for the duplicate name. Each source object is
  opened once, as in the code. Form ids lie within the master list. The number of
  calls, plugins, groups and records falls away in the proofs. `MayFail` says which
  groups of `Explorer` may fail to be read: that of one plugin, which leaves the
  other to show the good case; the proofs are for any.
* `DetailsPane`: `MaxReads` bounds the reads of each half under way; a stale
  answer needs two. This bound, the nodes and the pages fall away in the proofs.
* `HomePage`: two pages overlap, the third task removes and resolves. `MaxFiles` = 3
  registered files give one page two of them and the other a third, or both pages
  files of one name; a mod and its master are added in one selection. The proofs
  are for any pages, selections and `MaxFiles`.
* `GameData`: one folder of three archives, one of two; paths spelled with
  slashes, `data/` prefixes, case and `..`. `MaxOpens` bounds how many files are
  opened before no new call starts: a whole pick of the larger folder, or a resolve
  and the start of a pick. The folders, archives, paths, calls and `MaxOpens` fall away
  in the proofs.
* `ModelViewer`: two pages show a page and its successor, or a page and one that was
  left; pages are shown as often as `Pages` is long, calls and picks are unbounded.
  The proofs are for any `Pages`, paths, folders and answers.
* `Theme`: two tabs are a tab and the others; two clicks come before the script, one
  before and one after it, or one from each tab; `MaxChanges` = 2 lets the scheme
  change and change back, `MaxReloads` = 1 closes and opens a tab in any state. These
  bounds fall away in the proofs.
* `Extractor`: the selections cover good, refused, duplicate and a shared path; the
  proofs are for any archives and any existing files.

Deadlock is not checked where a system may really stop: after disposal of the
cache or the workspace, when all plugins are used up, when the program has ended.
In `PluginFile` a file that could not be opened stutters (`Dropped`).

### Fairness

Liveness is checked under weak fairness of the continuations of calls in
progress: the scheduler of the browser runs every continuation, and every browser
or disk read completes with data or with an error. In `GameData` and `ModelViewer`
the picker is closed sooner or later, with or without a folder. In `ModelViewer` the
answers of the service are strongly fair: an answer to a call is not possible while
another call holds the folder being indexed, and that may come again and again, but
the gate behind `AssetSource` is first come, first served, so a call that waits is
passed by none that came later (`CallsReturn` of `GameData` is the same fact, under
weak fairness, of the code itself). In `Explorer` a read of a plugin that was
removed need not end, nor a go-to that may wait for the index of one (`Answers`): a
disposed source promises nothing. Nobody has to call, cancel, click or dispose. For `Extractor` it is the fairness of the program itself; it
may crash at any step.

`PluginFile` has no liveness property: its instance chooses the bytes of a file as
it reads them and callers may ask for ever. That walks and descents end, whatever
the file declares, is `ScansAreSound`: within a run of siblings the position grows
and stays in the container, and every container found is a smaller part of the one
scanned.

## 4. What is proved

Each `*Proofs` module proves its component's theorems in the same way: an inductive
invariant (`IInv`, with its parts and what they are for stated in the component's
module), a lemma per action and part of it that the action can disturb, and the
properties from it. TLC has checked each inductive invariant on the instance of the
component's run, too; the runs `PageCache` and `PluginFile` list theirs. The only
assumptions are the named ones on constants and those stated with a theorem.

### The page cache

`PageCacheProofs`, for any set of readers, any file, page size, capacity and
requests, from the one assumption `CacheAssumption` (sizes are naturals, the page
size and the capacity positive, `NoOne` is not a reader):

* `InvariantHolds`: `Spec => []IInv`. `IInv` is the conjunction of `TypeOK`,
  `GateAgrees`, `ListsAgree`, `PagesCorrect`, `LoadsOnce`, `ReadsConsistent` and
  `NeverShort`. No part is inductive by itself:
  a load keeps the recency list free of duplicates only because the page is still
  uncached when it arrives (`LoadsOnce`), which holds because the gate has one
  holder (`GateAgrees`); a copy is right because the page a read was handed is the
  page of its position (`ReadsConsistent`), which rests on the cached pages being
  right (`PagesCorrect`); and a page is never short because the position is inside
  the file.
* From it: `TypeCorrect`, `GateCorrect`, `ListsCorrect`, `LoadsAreNeeded`,
  `ShortNeverReported`, `ReadsAreExact`.
* `CacheIsASource`: `Spec => ImplementsSource`. The initial state maps to the
  initial state of `DataSource`; a call maps to an ask, the step that ends a read
  to an answer (allowed because of `ExactRead` and `NeverShort`), and every other
  step to a stutter.
* `EvictsLeastRecentlyUsed`: `HistorySpec => []HoldsMostRecent`, about the cache with
  its history. A page is in the history once, at its last use (`UsedOnce`), the
  history begins with the recency list (`HistoryInv`), and so the page dropped when
  the list is full is the one whose last use is longest ago.

### Plugin files

`PluginFileProofs`, for files of any length with any headers in them, any window of
at least one header and any sizes of fields, from the assumptions
`PluginNodesAssumption`, `PluginTreeAssumption`, `RecordFieldsAssumption` and
`PluginFileAssumption` (sizes are naturals, a header is not empty, what a header
says is a natural, null is neither a number nor a node):

* `FileInvariant`: `Spec => []IInv`. `IInv` says that whatever sizes the headers
  declare, everything that is scanned, found, descended to or read lies in the
  file. Its parts need each other: the end of a
  run bounds the nodes found in it (`ScanOK`, kept by `NodeFits`), so the
  containers on the stack, which are the contents of such nodes, end in the file
  (`TreeInv`), so what is handed to a caller does, and so does a record that the
  caller hands back to be read (`ReadingInv`). Requests start from the TES4 record,
  which is in the file once the checks of `OpenAsync` have passed (`OpenInv`).
* From it, as a fact about one step: `SoundScans` (`ScansAreSound`).
* `RightFields` (`FieldsAreRight`), from two lemmas. `FieldsInRecord`:
  `FieldsLieInRecord` follows from `ReadingInv`. `FieldsPartition`:
  `FieldsPartitionData`, in a form without cardinalities (`EachByteOnce`) that is
  inductive together with `IInv`: an accepted field begins where the last one ended,
  its XXXX header included, so it covers no byte twice and leaves none out.
* `WalkInvariant`: `Spec => []WalkInv`, on top of `FileInvariant`. A file is a tree
  that nobody has built: it shows in what its headers say, and a walk holds no more of
  it than a stack of containers, a run of siblings and a position. `WalkInv` says what
  these are.
  Headers are looked at only where a node should begin (`TraceInv`), and the stack,
  the nodes not visited yet and the position are in the order of the file
  (`OrderInv`). While the index is built, some set of nodes has been visited that
  covers the file together with the regions still left (`IndexWalkInv`, with
  `Walked`): it nests, and wherever one of its nodes ends or begins its contents,
  another one begins, a container ends, or a region starts. So when no region is
  left the file is closed (`Closed`, kept as `IndexInv`), and the set is all nodes whose
  headers were ever looked at (`WalkedIsAll`, by the least one that would be missing).
  After that no scan can fail: each meets only headers that are known to
  fit. The nodes not in what is left are those a search has passed without a match
  and those that are counted (`CountInv`), the depth it hands on is the number of
  groups around (`DepthInv`), and a descent is in a container that holds the offset
  (`DescentInv`).
* From it: `CoversFile` (`IndexCoversFile`), `RightPath` (`PathIsRight`) and
  `RightWalks` (`WalksAreRight`). They are stated with sets of nodes and their cardinalities
  and not with a recursion over the file, so no induction over data is needed:
  the induction is that over the steps of the walk. TLC has checked `WalkInv` on the
  instance of the run.

### The workspace

`WorkspaceProofs`, for any number of calls and any plugins, masters, records
and references, from `WorkspaceAssumption` (the null values are not calls or
plugins, references come from plugins): `WorkspaceInvariant`, and from it

* `Ownership` (`OwnershipKept`). It needs that a plugin is in the list once, over a
  source that was opened, and that a source is being opened by one call
  (`EachOnce`): else a removal would leave a second entry over a disposed source.
* `IndexesBuiltOnce` (`BuiltOnce`), from `GateAgrees`: whoever builds is the holder
  of the gate. Disposal of the gate is no exception: it frees nobody.
* `Resolution` (`ResolvesRight`), which is about an answer several awaits after the
  plugin was picked: `Answers` says what each stage of a call in progress already
  knows. The theorem assumes `WellFormed`: no plugin lists itself as a master, and
  record ids lie within the master list. Otherwise an id resolved to the plugin
  itself has two spellings, and the code looks for one of them.
* `DisposalIsComplete` (`DisposalComplete`), from `PrefixDisposed`: what is before
  the cursor of the `foreach` is disposed as long as the list was not changed, and
  if it was, the enumerator throws and the disposal does not run to its end.

### The Home page

`WorkspaceProofs` too, for any pages, calls, selections and number of files, from
`HomeAssumption` (there is a page, a source is a registered file) and
`WorkspaceAssumption`. `HomeInvariant` is the composition: `HomeInv` includes the
`IInv` of the workspace, whose lemmas are reused for the workspace half of every
step, so all that is proved of the workspace holds with the pages as its callers.

* `OnePageKeepsNames` (`NamesUniqueOnOnePage`): without two pages adding at once,
  what is being opened has the name of nothing that is loaded (`OneByOne`); this is
  the gap between the check and the insertion in `AddAsync`.
* `RegisteredFiles` (`FilesInUse`), from `NumbersGivenOnce`: a number is in one place
  of one page's list, or given to one source, so a release takes nobody else's file.

### The explorer

`ExplorerProofs`, for any plugins, groups, path and calls, which may overlap in
every way, from `ExplorerAssumption` (the null values are neither plugins nor groups;
the groups on a path differ, as each lies in the one before): `ExplorerInvariant`, and
from it

* `LiveSelection` (`SelectionIsLive`). That there is an active plugin (`OneIsActive`) is
  an invariant although adds and removals overlap: whoever leaves none active is a
  removal, which is under way until it has looked for another. The other two parts
  are facts about one step.
* `OwnChildren` (`ChildrenOwn`). What a `RevealAsync` reads is of its own plugin
  (`ReadsOwn`), and the screen is behind the active plugin only while one runs
  (`ScreenIsRight`): else a click would load under another plugin's offsets unseen.
* `GoToArrives` (`GoToShows`). While a go-to reveals and nobody crossed it, its plugin is
  active, the tree state it fills is still in use, and every group down to the one being read
  is open (`Undisturbed`), which is what its last step shows. A call that disturbs one
  of these marks the go-to in `crossed` in the same step; every other step is shown to
  leave them alone.

### The details pane

`ExplorerProofs` too, for any nodes, windows, page size and number of reads, from
`NodeAssumption` and `HexAssumption` (records are not groups, null is not a node, the
page size is positive, each node has a plugin and a window that is not empty):
`PaneInvariant` and `PaneSettlesRight` (`SettlesRight`), for reads that end in any
order. The last of the reads under way is for the selected record, unless it has
returned already (`FieldsOfNode`); the last page under way is the current one, in a plugin
that has a node at this window (`BytesOfWindow`): the node shown, or a twin, as
`SetWindow` does not compare plugins. A read that returns overwrites what is shown, so
the last one to start decides as long as it also returns last; that it did not is
what `overtaken` and `pageOvertaken` record, and the run `DetailsStale` shows what
comes of it.

### The game data service

`ArchiveProofs`, for any folders, archives, requests and number of calls, from
`DataRootAssumption` and `GameDataAssumption`: a folder lists finitely many entries and
no name twice, what is listed as a folder is one, lower case of lower case changes
nothing, names have a place in filename order, a request is not empty, and the null
values differ from what they stand beside. `ServiceInvariant` is
`Spec => []ServiceInv`, with `ServiceInv` the conjunction of

* `TasksOK` and `GateOK`: what a call under way keeps, a stream exactly while it reads,
  and that one call is past the gate, with the module once it asks something of it;
* `StateOK`, `OpenWhileRead` and `IndexOK`, where `IndexOK` says of every indexed path
  which record of which archive it has (`RecordsKept`): that is needed to know what a
  resolve reads, several awaits after the index was made;
* `PicksOK`: the archives indexed, refused and left are those of the folder, apart and
  in filename order (`PlanOK`), and the file being read is the next of them;
* `ResolvesOK`: a resolve that looks into the index has found no loose file, and the
  file it reads is the one it looked for.

From it:

* `FilesOpenWhileRead` (`OpenWhileRead`), `OthersStayAvailable` (`OthersRemain`) and
  `IndexOfRoot` (`IndexIsOfRoot`). The last assumes `ArchivesDiffer`, that the names of
  the archives of one folder differ in more than case: the code lists names as they
  are spelled but opens an archive by its name in lower case, so of two that differ only
  in case it would index the same one twice.
* `AssetsImplemented` (`ImplementsAssets`), the refinement of `AssetSource`. Calls and
  refusals map to asks; the end of the folder picker to `PickFolder`; the end of a call
  to `PickNothing`, `FolderIndexed` or `Resolved`; everything else to a stutter. The
  abstract steps ask that no folder is being indexed, which is that one call is
  past the gate (`NotIndexing`). That a resolve ends with one of the `Answers` compares
  two descriptions of a lookup: the walk of `resolveFile`, entry by entry with the exact
  name first, and the set of folders that can be reached in whatever case. The walk
  is in that set, and is all of it where no two folders differ only in case (`WalkFacts`,
  `LooseFacts`). An archived answer is the whole payload of a record packed as that path
  (`PackedFacts`), which rests on `ArchivesReadRight`: what `ReadBsaArchive` finds under
  a path is such a record. It is a hypothesis here, as `ArchivesDiffer` is; TLC evaluates
  both on the instance.

### The model viewer

`ModelViewerProofs`, for any pages, paths, folders and answers of the service, from
`ViewerAssumption` (pages differ and each has two calls of its own; a path is a
sequence of candidates that is not empty; null is neither a folder nor a path, and
a failure is not a Boolean): `ViewerInvariant`, and from it

* `RequestIsServed` (`RequestServed`). `ViewerInv` says for each page what its calls
  under way are for (`CallsOK`), that a page has no folder before it is initialized and
  one while it searches (`FolderOK`), and what it has taken of the request
  (`RequestOK`).
* `RendersFirstFound` (`FirstFound`): a candidate that was passed over was missed in a
  folder of the search (`SearchOK`), although the answers come one by one and a
  page that was left may replace the folder before any of them. A folder that is picked
  joins the folders of every search under way in the same step (`MovedFacts`), so an
  answer is always from one of them.

### The color theme

`ThemeProofs`, for any number of tabs, clicks, changes of the color scheme and
reloads, from `ThemeAssumption` (the bounds are naturals, no choice is no
preference): `ThemeInvariant`, `ThemeTypes`, and from it

* `ThemeIsResolved` (`ShowsResolved`). It speaks of tabs whose listener has heard of
  the color scheme; it is not inductive, because the listener does nothing when the
  preference is not "auto". `FixedIsShown` covers that case (such a preference is
  what is shown).
* `LastClickWins` (`LastClickCounts`). A click before the import waits for it, one
  during it shares it, and the constructor's own read waits too. `InRounds` orders
  them: calls in progress go through import, read and write in rounds, no call is
  more than one round ahead, and the last call of the round under way is that of
  the last click; `LastIsStored` says that the last thing a tab has read or written is
  what is stored, as long as no other tab wrote.
* `NothingFlashes` (`NoFlash`): the step in which the script takes over.

### The extractor

`ArchiveProofs`, for any archives, refused paths and existing files, from
`ExtractorAssumption` (an archive is a sequence of paths; no exit code is not one of
the exit codes): `ExtractorInvariant`, and from it

* `PlanIsFirst` (`WholePlanFirst`) and `ExistingStayIntact` (`ExistingIntact`): what is
  on a path that nobody else put there is a complete entry meant for it
  (`OwnEntries`), and the archive being unpacked has a valid plan (`PartlyDone`),
  through the `finally` block, a crash and files that appear meanwhile.
* `ExitCodes` (`ExitCodeIsRight`): `CountsAreRight` ties the counters to the archives
  that were finished. With exit code 0 each path of each archive holds an entry of
  that archive or of a later one that has the path: an entry of a later archive
  replaces one with the same path, and nothing else does.
* `StopsOnCancel` (`CancelStops`), by `LateInv`: when the request comes, at most one archive
  or entry is past its check and not done; nothing passes a check after it.

### What is only model-checked

* The liveness properties: they need fairness and ENABLED, which are out of the
  prover's reach.
* `ArchivesReadRight`, the hypothesis of `AssetsImplemented` about `BsaArchive`: `Read`
  pairs the folders, files and names of an archive in the order they are stored, by
  sorting and flattening sequences, which is induction over data. TLC evaluates it on
  the archives of the instance, and on the instance the runs check the refinement itself.

## 5. Not modelled

* Pure conversions without state: signatures, flags, labels, display formats, the
  schema tables and the decoder's output, the hash function of archives.
* Statistics and search of the explorer: they fill a dialog with what the walks of
  `PluginTree` return.
* `scrollToId` of `ui.ts` and the import before it: best effort, after
  `ExplorerState` has let the request go; nothing depends on it.
* `DisposeAsync` of `GameDataService` and `ThemeService`, and a disconnected
  JavaScript runtime: in WebAssembly the services live as long as the page.
* A failing import of `theme.js`: the toggle fails with it, and the theme stays what
  the script of `index.html` made it.
* What the renderer of models does: it is an external package, and so are the
  dependencies it asks `GameDataService` for (more calls of the kind modelled).
* A granted folder that changes on disk while it is used: an archive that is gone or
  cannot be read is modelled, one that is replaced by another is not.
* A failing source below `PluginFile`: every operation hands the error on; what
  its callers do with it is in `PluginWorkspace` and `ExplorerState`.
* The decoders (zlib, LZ4), of which only the result matters; presentation,
  vendored code, packaging and build scripts.

## 6. Plan

1. Done: `PageCache` with `DataSource` and its proofs; `PluginFile` and its parts;
   `PluginWorkspace` and `HomePage`; `ExplorerState`; the details pane;
   `BsaArchive`, `DataRoot` and `GameData` with `AssetSource`; `ModelViewer`;
   `Theme`; `Extractor`.
2. Theorems: done for every safety property of the runs and for both refinements.
   Left: `ArchivesReadRight`, from a description of how an archive is packed, with the
   order of blocks and names as functions instead of sorted sequences.
3. Abstract specifications: a workspace whose calls are atomic, which
   `PluginWorkspace` refines without overlapping adds and removals; an extraction
   that writes whole entries, which `Extractor` refines.
