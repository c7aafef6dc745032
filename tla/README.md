# TLA+ for CS214-SPRING2019

The repository holds four programs of a systems course: `Asst0` (a pointer
sorter), `Asst1` (a malloc in a static array), `Asst2` (a Huffman compressor) and
`Asst3` (*Where's The File*, WTF: a small version control system with a threaded
server and a command-line client). This directory holds TLA+ models of them, TLC
configurations and TLAPS proofs. Asst3 carries nearly all of the state and all of
the concurrency, so it comes first; the allocator is second.

Run a model with `tlc -config X.cfg M`, a proof with `tlapm M.tla`. `PROJECT.json`
maps every definition to the lines it models.

## 1. Inventory

### Asst3: the WTF server

| component | state | operations | talks to |
|---|---|---|---|
| network loop (`server/network.c`, `common/netutil.c`, `server/main.c`) | the process's table of descriptors, a detached thread per connection with its buffers and the bytes written so far | accept, poll and read up to a watermark, poll and write, time out after 300 s, close; SIGINT | protocol, handlers |
| protocol (`common/protocol.c`) | none of its own | size field first, parse a request or a response, serialise one | network loop, client |
| project locks (`server/ds.c`) | a hash table from keys to rwlocks under `hashmap_mtx` | `get_rwlock_for_project`, rdlock, wrlock, unlock | handlers |
| handlers (`server/logic.c`, `server/serverutil.c`) | per project: `Currentversion`, a directory per version with `.Manifest`, `files.tar`, `.Commit`, and `Curr` | create, history, currentversion, destroy, rollback, checkout, update, upgrade, commit, push | disk, locks |

Hard: messages that arrive in any chunks; descriptors that are closed by one
thread while another gets the same number; clients that stop sending, go, or wait;
requests from many connections on one project; lookup of a lock and its
acquisition as two steps; handlers that change up to nine files in turn; the
process ending at any of these steps (`SIGINT` makes `main` return, `exit(0)` inside
handlers), or a call of them failing; no descriptor left to look for a project or
open a file; version numbers at 0, at -1 and after a rollback.

What makes it correct: a thread uses its own descriptors only; a request is served
as it was sent and answered with its own whole reply, or dropped; each descriptor
comes back; a writer excludes everybody from its project; projects do
not wait for one another; readers do not starve a writer; each request acts at
one instant on the sequence of a project's versions; no version is lost, and none
is shown by half; an answer of success means that the disk has what was asked
for, and a rollback's that the version is back; the server does not end itself; a
handler ends.

### Asst3: the WTF client

| component | state | operations |
|---|---|---|
| manifests and change lists (`common/util.c`) | sorted lists of (name, file version, hash) and of (code, name) | `compareManifest`, `proecessManifest_ByChangelist_Push`, read and write |
| `send_request` (`client/network.c`) | a connection, a response buffer | connect, write the request, read the reply up to its size, parse it |
| commands (`client/client.c`) | the working copy: files, `.Manifest`, `.Update`, `.Commit`, `.Server` | configure, create, destroy, add, remove, checkout, update, upgrade, commit, push, rollback, history, currentversion |

Hard: the commands of one client leave files for later ones, which may be stale
when read; several users; a reply lost after the server acted; version numbers
reused after a rollback; two sorted lists walked with two indices.

What makes it correct: a stored version is what its manifest says; a file version
names a content; `.Commit` says what a push changed; a push builds on what its
author has seen; upgrade brings a copy up to date and keeps what the user edited;
"Nothing to Update!" is true.

### The other programs

`Asst1/mymalloc.c`: an array of 4096 bytes with one- and two-byte block headers;
`mymalloc`, `myfree`. Hard: long sequences of calls, the boundary of the header
widths at 64 bytes, merging on both sides. Correct: blocks handed out are inside
the array and disjoint, headers tile it, freed memory can be used again whole.
`memgrind.c` only times random workloads.

`Asst2`, a Huffman compressor of token files. State: a search tree of counted
tokens, a min-heap of trees, the code book, the files. Operations: count, build the
tree, write the book, compress; in another run load the book, build a tree from
the codes, decompress. Sequential; hard: the heap's two-way sinking, equal counts
in any order, texts of no or one token, tokens the book does not have. Correct if
the heap stays a heap, codes are prefix-free and as short as any, and decompressing
undoes compressing.

`Asst0/pointersorter.c`: splits a string and sorts the pieces.

`hazards` in `PROJECT.json` lists what of this is hard to test, at its line.

## 2. Modules

```
Connections ---refines--> Exchange      ProjectLocks  <--- WTFServer ---refines--> Repository
     |                                       |                 |   (WTFServerRefinement)
ConnectionsProofs                       ProjectLocksProofs <-- WTFServerProofs <-- WTFRefinementProofs

Manifest <------- WTFSync          MyMalloc ---refines--> Heap        MinHeap <--- Huffman
    |                |                 |                                          |
ManifestProofs <-- WTFSyncProofs    MyMallocProofs                          HuffmanProofs
```

* **Connections** - the way of a request to the server and of the reply back, on
  both sides. `table` says what each descriptor of the server refers to: a connection,
  a file a handler has open, one that `readFile` has leaked, or nothing. `open` and
  `accept` take the lowest that is free, `close` frees a number whoever has it by
  then. `pc[c]` is where the thread of connection `c` is in
  `network_handler_thread`: `size` and `body` are the two `_poll_and_read` with their
  watermarks, `refuse` a `close` without an answer, `parse` is `parse_request`,
  `exists` and `found` are `project_exist`, which holds the directory while it looks,
  `load` reads a version, `store` and `stored` write a file (or look for the directory
  once more, in a destroy), `write` is `_poll_and_write`, `close` the last `close`. `cpc[c]` is the same
  of `send_request`. A read or a write acts on whatever connection `fd[c]` refers to
  at that moment. Bytes are counted; a buffer also has the set of connections whose
  bytes it holds, so that a message mixed from two streams shows. `Claims` is the size
  field of a request (0 for a destroy, which is never finalized), `ReplyClaims` that
  of a reply (0 for a push). A read takes any part of what is there and of what its
  buffer has room for, so that a size field may come in two reads; only of a status,
  which is one small write, it takes the whole, unless its request is among `Splits`.
  Where no descriptor is left (`OpenFails`) a project that is there counts as not found
  (`absent`: the answer is 999, finalized), a file is not written and the handler goes
  on, and `Load` ends the process. What a handler does to the disk is WTFServer's.
* **Exchange** - what a connection promises: idle, asked, served, answered; or
  dropped. `ExchangeStatus` in Connections is the mapping: a request is served when
  the thread's buffer is exactly what the client sent, and answered when the client's
  is exactly that thread's reply.
* **ProjectLocks** - `table` is the hash table, `nlocks` the rwlocks allocated,
  `pc[t]` where the thread of a connection is in `process_logic`: `lookup`
  (in `get_rwlock_for_project`, one step since it runs under `hashmap_mtx`),
  `got`, `wait` (inside `pthread_rwlock_*lock`; a writer counts as waiting from
  here), `crit`. The lock is the writer-preferring kind set in `ds.c:43`. The key
  a new lock is entered under is `strcpy`ed from the request (`ds.c:46`), where
  the project's name is not terminated: for a push the key runs into the bytes of
  the payload's size. The model has that as the key's `tail`. `settled[t]` is a
  history variable: the name was in the table when the request came.
* **WTFServer** - the ten handlers under these locks (it EXTENDS ProjectLocks).
  `disk[p]` is a project's directory; a file is abstracted to its *content*, the
  version its manifest states and the push it came with. Each call that changes
  the disk is a step; the readers (`History` to `Commit`) read in one. `Scripts` gives the steps of the writers in the order of
  the code, `Following` the next one. `writeFile(Currentversion)` is two steps
  (truncate, write) where `TornWrites` is TRUE. A child command, `system("rm -rf
  ...")`, is one step: the child goes on when the server dies. What is killed here is
  the server's process; a machine that stops in the middle of an `rm -rf` is not
  modelled. `life` says whether the process runs; `End("exit")` is an `exit(0)` of the code, `End("fault")` an
  undefined access that the build may not survive. `Kill` may come between any two
  steps, `Start` starts the server again with an empty lock table. `Failing` names
  the calls that may fail: create answers 2 or 3 and leaves what it has made
  (`CreateFails`); destroy, rollback and push look at no result and go on
  (`CallFails`); `NoArchive` is the extraction of an archive that could not be
  opened, whose handle is not set.
* **Repository** - what the server promises: a project is a sequence of contents,
  an operation acts at one instant between request and answer, and a death only
  takes outstanding requests with it. **WTFServerRefinement** has the mapping: the
  height of a project is `Currentversion`, except while a rollback has deleted
  something (it has taken effect already) or a push has truncated the file (it has
  not).
* **Manifest** - `compareManifest` (`Marks`), `writeChangeLogFile` (`Written`) and the
  merge of push (`PushItems`). A merge of two lists is a turn of its loop (`MergeTurn`,
  `PushTurn`: what it appends and which two indices it goes on to) and a recursive
  function on the pairs of indices that strings the turns together. `Filter` is one too:
  the library's `SelectSeq` is a RECURSIVE operator, which nothing can be proved about.
  The quirks are the code's: an entry is a pointer to an item, so two entries share
  a code (`CodeOf`); "modified by remote" points to the server's list at the
  *client's* index (`util.c:570`); the push merge copies `c[temp]` for an unknown
  deleted file (`util.c:716`). `Wild` and `PushFaults` are accesses behind a list:
  the command does not survive them, so it does not happen in `WTFSync`.
* **WTFSync** - several working copies against one project on the server. A
  command is one step: its only contact with the server is one request that acts
  at one instant, which is what `ImplementsRepository` says of the server. A lost
  reply makes push act on the server and not on the copy. Contents are small
  numbers and stand for their hashes (`0` is the hash "0" of an added file).
* **MyMalloc** - `hdr` maps the header positions to headers, `live` is what the
  program holds, `refused` the size just refused. Sizes are taken modulo 6 or 12
  bits as the bit-fields do. The array starts zeroed, which reads as 4096 unused
  one-byte blocks until the first request (`Fresh`). **Heap** is an allocator's
  promise.

* **MinHeap** - the heap of `Asst2/ds.c` on sequences: `Heapify` sinks to the left
  and then compares the right child with what came up, `Inserted` is `insertNode`. Both
  are recursive functions on pairs of an arrangement of the nodes and a place.
* **Huffman** - one run that counts, builds and compresses, and one that loads the
  book and decompresses. The book is what `Export` makes and `LoadBook` reads: that its
  delimiters are escaped and parted by tabs and newlines is left out, except for what the
  reader makes of an empty first code. A step is one token, one heap operation, one code or one bit.
  The search tree of nodes is the function `tally`, `qsort` any order of equal keys. A
  tree is a function from paths (sequences of bits) to the tokens at its leaves, for the
  tree that is merged as for `trie`, the one built from the codes: `Joined` puts two
  trees under a new root, and the code `TraverseTreePrefix` arrives with at a leaf is
  the leaf's path (`CodeIn`). `fault` is a null or foreign pointer that is used.

MC modules hold the symmetry sets and constants that a cfg cannot express.
Definitions marked `\* variant` are faulty versions of a neighbour, used to
see that the properties notice such a fault; no specification uses them.

## 3. Runs

### Runs that pass

| run | instance | shows |
|---|---|---|
| `connections` | 2 connections, 5 descriptors; a history or a push or a malformed request each, written and read in any chunks; pushes that find no descriptor for their file; clients that stop, leave a push, time out; fairness | `OwnDescriptor`: no thread uses or closes another's descriptor; `ImplementsExchange`; `Released`: each accepted connection is closed in the end; `Answered`: a client that waits has its reply in the end |
| `locks_safety` | 3 threads, 2 projects (one known), 1 restart | `SettledExclusion`: requests that found their project in the table exclude one another; `LocksNotShared` |
| `server_all` | 2 threads, all 10 operations, 2 versions, 2 pushes | `ImplementsRepository`, `NeverExits`; `RollbackRestores`: after a 400 the version asked for is whole, the last one on disk and the current one, and `Curr` has its files |
| `server_live` | 2 threads; create, push, rollback, destroy (whose `rm` may fail), history; 3 versions; fairness | `HandlersFinish`: scripts and rollback's loop end; `WriterNotStarved`: a waiting writer is followed by a writer inside |
| `server_crash` | 1 thread; readers and push; 3 versions; 2 restarts | `ImplementsRepository` and `NeverExits` with a kill between any two steps of push |
| `server_restart` | 1 thread; create (any call of it may fail), push, rollback, destroy, history, update; 2 restarts, exits and faults included | `VersionsWhole`: whatever a killed handler left, a version directory up to the current version is one push's, whole; `SuccessIsStored`: who is told that a project was created, a version pushed or a project destroyed finds on disk exactly that (rollback is in `server_all`) |
| `malloc` | 12-byte array, headers change width at 4 bytes, all sequences | `Tiled`, `NoAdjacentUnused`, `RefusedOnlyWhenFull`, `ImplementsHeap` |
| `sync_disciplined` | 2 clients, 2 files, 2 contents, 2 versions, 3 edits, lost replies | `StoredMatchesManifest`, `FileVersionNamesContent`, `CommitDescribesPush`, `CopyDerivesFromVersion`, `UpgradeKeepsEdits`, `NothingToUpdateIsCurrent`; `UpdateListsDifferences`: `compareManifest` against the set of differences, where the lists are aligned |
| `sync_mishaps` | 1 client, 2 files, 1 content, commands in any order, lost replies, rollbacks | `StoredMatchesManifest` even with a stale `.Commit` and `.Server`; `ManifestsStored` proves it with `readd`, and for any number of clients, files and contents |
| `huffman` | texts of up to 6 characters of 4 kinds, pairs of texts of up to 2, texts of 5 blocks of 1 to 4 delimiters; every order of equal counts | `HeapOrdered`, `PrefixFree`, `Optimal` (against the cheapest of all binary trees), `RoundTrip`, `FaultsOnlyWithoutChoice` |

### Runs that find a violation

Each checks one statement of the repository that the code does not keep; the
quotation is with the finding in `PROJECT.json`.

| run | property | what happens |
|---|---|---|
| `locks_cold` | `ProjectExclusion` | the first request for a project is a push: its key runs past the name, the next request misses and gets another lock, and both are inside |
| `sync_modified` | `UpgradeSyncs` | `.Update` has the hash "0" for a modified file, so upgrade always reports a conflict |

### Where the passing runs stop

The instances of the passing runs leave out what the code does not survive. Each
of these changes to a cfg makes TLC find a violation:

| run | change | what fails, and why |
|---|---|---|
| `connections` | `Late = {"history"}` | `OwnDescriptor`: a client goes while a reply larger than the socket's buffer is written; `_poll_and_write` closes the descriptor and `network.c:121` closes it again |
| `connections` | three connections, `Kinds = {"history"}`, `Late = {"history"}` | `ImplementsExchange`: the second close takes the descriptor of a connection accepted in between, and a third gets its number |
| `connections` | `Kinds = {"destroy"}`, `Late = {}` | `ImplementsExchange`: the size field is 0 (`client.c:263`) and the first chunk is taken for the request. `Answered`: the reply says that two payloads follow and ends there (`logic.c:103`) |
| `connections` | `Fds` of four descriptors (0 to 3) | `Answered`: `readFile` never closes what it opens (`util.c:147-169`); in the end the server exits. `OwnDescriptor` and `ImplementsExchange` hold with four and with three, where handlers also answer 999 |
| `connections` | `"push"` among `Splits` | `ImplementsExchange`: the reply to a push has size 0 (`logic.c:315-322`), and the client takes the first part of it for the whole |
| `connections` | fairness without `WF_vars(ClientRead(c))` | `Released`: `write` blocks without a time limit on a client that stays and does not read (`netutil.c:39`) |
| `server_all` | -1 among `Args` | `ServerTypeOK`: the check in rollback is `version > latest_version \|\| version == 0` (`logic.c:364`); every version is deleted and `Currentversion` becomes -1 |
| `server_all` | `Digits = {0}` | `ImplementsRepository`: rollback's payload is copied without its terminator (`logic.c:353-361`) |
| `server_crash` | `create` among `Ops` | `ImplementsRepository`, `NeverExits`: a project without `Currentversion`; the next push or history makes the server exit (`serverutil.c:27-30`) |
| `server_crash` | `TornWrites = TRUE` | `ImplementsRepository`: an empty `Currentversion`, and a version never initialised (`serverutil.c:31-33`) |
| `server_crash` | `update` among `Ops` | `ImplementsRepository`: `Curr/.Manifest` is replaced before `Currentversion` is written (`logic.c:303-318`) |
| `server_crash` | `rollback` among `Ops` | `ImplementsRepository`, `NeverExits`: killed between two deletions, `Currentversion` names a version that is gone (`logic.c:371-392`), and history and currentversion end the server (`logic.c:162-164`, `216-218`) |
| `server_restart` | the steps of push among `Failing` | `SuccessIsStored`, `VersionsWhole`: push looks at no result and answers 900 |
| `server_all` | the steps of rollback among `Failing` | `RollbackRestores`: rollback looks at no result either and answers 400 |
| `server_restart` | `RollbackRestores` as an invariant | versions 1 and 2 are pushed, a rollback to 1 is killed after it deleted 2, and after the restart a rollback to 2 is answered 400: `Currentversion` says 2, so there is "nothing to do" (`logic.c:367-369`), and version 2 is gone. Likewise a killed push leaves its directory, or its files in `Curr`, and a rollback to the current version is answered 400 and leaves them there |
| `sync_disciplined` | `"stale"` among `Mishaps` | `CommitDescribesPush`: push compares only the number of changes with `.Commit` (`client.c:569`). `UpgradeKeepsEdits`: an edit between update and upgrade of a file that `.Update` replaces |
| `sync_disciplined` | `"rollback"` among `Mishaps` | `CopyDerivesFromVersion`: an old copy whose number was used again counts as in sync (`logic.c:267`) |
| `sync_disciplined` | `"readd"` among `Mishaps` | `FileVersionNamesContent`: a file added again starts at file version 0 (`client.c:648`) |
| `sync_disciplined` | `UpdateListsDifferences` without its condition that the lists are aligned | the user pushes file 2, another adds file 1 and changes 2: update takes the server's item at the client's index (`util.c:570`) and lists 1 twice as modified. Upgrade fetches 1 and replaces `.Manifest` by the server's; 2 keeps its old content, counts as edited, and the next commit and push bring it back |
| `sync_mishaps` | `"readd"` among `Mishaps`, `SyncTypeOK` | a manifest that names a file twice is stored (`util.c:716`) |
| `huffman` | `Strangers <- MCStrangers` | `FaultsOnlyWithoutChoice`: a token that the book does not have is looked up and the null result dereferenced (`huffman.c:412`) |

The model also has, with no property about them: rollback deletes `curr`, not
`Curr`, so later files stay there (`logic.c:378`); the directory of version 0 is
never made (`logic.c:53`); a push whose reply was
lost leaves the copy with the old version number, so that update says "Nothing to
Update!" and commit and push say that it is out of sync, for good.

### Bounds, and why they are enough

* `connections`: `Header`, `Cap`, `Limit`, `SendBuffer` are the code's 8, 8192,
  `MAX_PACKET_SIZE` and the kernel's socket buffer, in this order of size, made small.
  A push is longer than a fresh buffer (4) or beyond the limit (5), a request with a
  name is short (3), a reply with files (4) is larger than the socket takes and a
  status (3) is not. Two connections show one taking the other's descriptor. Two
  requests can hold six descriptors with their leaks and files; with five a push may
  find none to write its files, while no project is missed and no version unread.
  `Late` names the requests whose clients may leave while they wait, `Splits` those whose
  replies arrive in parts: a history's, which carries files; a status is eleven bytes
  of one `write`, which a segment holds. The proofs cover any numbers.
* Two threads show any conflict between two handlers; the lock model has three, so
  that two readers can keep a writer out. One project is enough for handlers
  (nothing is shared between projects but the lock table, which has two).
* `Warm` is the projects whose name a former request entered. `server_all` starts
  warm: with a cold table two handlers can be inside together (`locks_cold`), and
  nothing else about them holds. The crash runs have one thread for the same
  reason: a restart empties the table.
* Three versions let rollback delete two, and a push follow each. `MaxVersion`
  bounds the version a push may state; `MaxLocks` the locks a process allocates,
  counting those that requests under way may need; `MaxRestarts` restarts;
  `TableSize` is the 10000 of `hcreate`, made small enough to fill up.
* `Failing` is every step of create in `server_restart`, destroy's in `server_live`
  (its target versions start at 1, as rollback refuses 0).
* `server_crash` leaves out create and rollback because a kill inside them breaks
  the promise; `server_restart` has them, with a weaker property. `Digits`, what may
  follow rollback's unterminated payload on the stack, is empty in all runs.
* The allocator's 12-byte array with a threshold of 4 has every case of 4096 and
  64: fresh, one-byte, two-byte, a header that grows, a rest of one byte, merging
  before, after and on both sides. The proofs cover the real numbers.
* `WTFSync`: two versions let a copy be behind; three edits let two users change
  two files and one of them again. `sync_mishaps` has one
  content, so that files come and go and do not change: what it is after is the
  merge of push with a `.Commit` that names other files than the manifest. `Mishaps` names what may happen: `lost` replies,
  `rollback`, `stale` (other commands between update and upgrade, or commit and
  push) and `readd` (adding a file the server has). Without `stale` the files no
  later command reads are forgotten, to keep the state space small.
  `sync_disciplined` has neither `stale`, `rollback` nor `readd`, because each of them
  breaks one of its properties, as the table above says.

* `huffman`: six characters allow four kinds of token with any counts, a word between
  delimiters and none; five blocks of 1 to 4 give even and uneven trees over five
  leaves. Which delimiter comes first does not matter.

### Fairness

In `connections` the listener accepts what waits, a thread that can take a step
takes one, and a client reads what has come and learns of a closed connection. The
300 s of `poll` run out, which makes `ReadFails` such a step. Nothing says that
a client sends, stays or leaves. In the server models a thread that can take a step takes it (`WF` of each thread's steps): the
scheduler runs threads, and a free lock is given to *some* waiter. Weak fairness
on taking a lock does not say which one: with the writer-preferring kind that is
enough for `WriterNotStarved`, with the default kind it is not. Nothing says that a client sends
a request, and nothing that a server that ended is started again: both liveness
properties allow the process to end.

## 4. Proofs

* **ProjectLocksProofs**, for any threads, projects, tails, table size and bounds:
  `TypeCorrect`, `NoLockShared`, `SettledRequestsExclude`. `SettledExclusion` is not
  inductive: nothing in it says that two settled requests hold *one* lock. `Inv`
  adds that the table gives each key a lock of its own (`TableOwned`), that a
  settled request finds and holds the lock under its name (`SettledFinds`), that
  held locks are allocated (`LocksKnown`) and that each rwlock does its work
  (`RWLocks`). Assumes `TailsAssumption` (a tail is not empty), `WarmAssumption`,
  `FiniteAssumption` and `BoundAssumption`.
* **WTFServerProofs**: `ServerExcludes`, the exclusion proved of the locks, in the
  server, whose steps are steps of the locks or leave them alone (`ServerUsesLocks`).
  The disk: `VersionsStayWhole` and `SuccessStored` (`VersionsWhole` and
  `SuccessIsStored`) for any threads, projects, pushes and version numbers. They
  assume `Stated`: requests for one project exclude one another (every name is in
  the table and nothing empties it, or there is one thread, with any number of deaths:
  `ServerExclusion`); only create's calls fail; rollback's number is read as it was
  sent; a server that may be started again does not die inside the write of
  `Currentversion`. Section 3 has what happens otherwise. `server_restart` satisfies
  `Stated`. The invariant `StorageInv` says of each project (`DirOK`) that its versions
  up to the current one are whole and that `Currentversion` is empty only while a writer
  is about to write it, and of each handler (`Progress`) what its script has done so
  far: `PushAt` has, step by step, which of the nine files hold the push. `PushMoves`,
  `CreateMoves` and `RollbackMoves` are the scripts as facts about a directory;
  `InsideStep` carries them over to the state, where the exclusion says that nobody else
  looks at the directory meanwhile. One lemma per action.
  The types: `ServerTypeCorrect` (`ServerTypeOK`), for any threads, projects,
  table, pushes and versions, any kills, torn writes, digits after rollback's payload
  and failing calls of the scripts. All it assumes (`Sensible`) is that no rollback asks for a
  negative version, for which the table above has a counterexample. The invariant
  `TypeInv` adds `Placed` to the types: a handler is at a step of its own script, a
  push makes the version after the one it read, and a rollback in its loop is above its
  target. Exclusion is not needed: what a handler counts with are its own locals.
* **WTFRefinementProofs**: `Implements` (`ImplementsRepository`) and `NeverEnds`
  (`NeverExits`), for any threads, projects, pushes and version numbers, all ten
  operations. They assume `Promised`: `Stated`; no call fails; rollback's number is not
  negative; and a server that may be killed serves only readers and pushes, and does not
  die inside the write of `Currentversion`. Each part is needed, as the table above shows
  for the second and third (`-1`, `create`, `rollback`, `update`, `TornWrites`); the
  instances of `server_all` and `server_crash` satisfy it. The invariant
  `RepoInv` (theorem `RepoInvariance`): each project is at `Rest`, that is, all versions
  up to the current one are there and whole and, if nothing is ever killed, the manifest
  of `Curr` is that of the top version; or one writer is `Busy` in it, and then `Doing`
  says what its script may rely on. In particular no reader ever meets a project without
  `Currentversion`, which is all that `NeverEnds` needs. For the refinement,
  `HeightAt` computes the height of a project from one handler's own progress, and
  `HeightSeen` says that this is the height the mapping chooses, since nobody else is
  inside with it. Then a step moves what is seen of no other project and of no other
  thread (`Unmoved`), and one lemma per operation (`CreateActs`, `PushActs`, ...) says at
  which step it acts: create and push with the write of `Currentversion`, rollback with
  its first deletion, destroy with its `rm`, the others with their read, or where they
  are refused. `KillActs` is why a push that died half-way has not happened: without
  its writer, the height is what `Currentversion` says.
  `RollbackGoesBack` (`RollbackRestores`) adds to `Promised` that nobody kills the server:
  `RepoInv` then says that `Curr` has the manifest, commit and files of the current
  version and that no later version is on disk; a rollback's script gets there step by
  step, and nobody else is inside until the answer has been sent.
* **ConnectionsProofs**, for any connections, descriptors, lengths and buffer sizes:
  `ConnTypeCorrect`, `DescriptorsOwned` and `ConnectionsKeepPromise` (`ConnSpec`
  implements `Exchange`). They assume `SizesAssumption`, `FdsAssumption`,
  `KindsAssumption`, `LateAssumption` of the module, and `Stated`: no destroy is sent
  (its size field is 0), no client of a history leaves a reply that may not fit into
  a socket (then `network.c:121` closes somebody else's descriptor), the reply to a
  push is read at once, and replies pass the client's limit. Without the first three the
  table above has counterexamples. Nothing is assumed of the number of descriptors:
  handlers that find none left are in it. The instance of `connections` satisfies `Stated`. The invariant
  `ConnInv` is the type, and for each connection: `Owns` (what its thread uses is its
  own; not inductive alone, since a thread that closes after a lost write would
  close another's number), `Asking` (the bytes sent are those in the stream and in the
  buffer, all of this connection, and a thread past `parse` has them all), `Answering`
  (likewise for the reply) and `Left` (who is gone before its reply was written had
  sent a part of its request, or may leave: so the reply fits into the socket and
  there is no second close). One lemma per action. That there is a lowest free
  descriptor (`LowestIsFree`) comes from the well-foundedness of `Nat`. The refinement
  needs that a step moves the status of one connection, along Exchange
  (`OwnMove`), and of no other (`OthersUnmoved`).
* **MyMallocProofs**, for any array and header sizes with
  `2 <= SMALL < ARENA <= LARGE` (the code's 64, 4096, 4096): `HeadersTile`,
  `FreedMerge`, `HeapTypeCorrect` and `AllocatorKeepsPromise` (`MallocSpec` implements
  `Heap`), and `RefusalsJustified` (`RefusedOnlyWhenFull`). The invariant `HeapInv`: the array is untouched, or its headers are `Good`
  (they tile it, unused blocks are not neighbours, each header has the width its
  block needs, and block 0 is not of size 0, so that it never reads as fresh) and
  `Agree` with `live` (the payloads of the used blocks are what the program holds).
  Without the widths, `End` would not be kept when a header grows; without the last
  part, the second initialisation of `mymalloc.c:147` would come back. For the refusals `RefusalStands` adds that the size refused fits
  into no unused block; a run of free bytes lies in one unused block, since every
  byte is in a block (`ByteInBlock`, a least-counterexample argument) and no two
  unused blocks are neighbours, and then the widths say that the block was large enough.

* **ManifestProofs**, what the merges return for lists of any length. `WalkExists`: a
  recursive definition is its equation, since each turn comes nearer to the end of both
  lists. `WalkInduction` is an induction over places without a predicate as parameter,
  which the provers cannot instantiate: of a set of places where something is wrong
  there is one nearest to the end, by the well-foundedness of `Nat` (`LeastNumber`).
  `MergeIsRight`: the marks are those of the differences of the two manifests, and of
  nothing else, with the wrong index of `util.c:570` in them. From it `ListedEntries`,
  `UpdateList` and `CommitList`: what `.Update` and `.Commit` list. `PushedItems`: what
  the push merge makes of a manifest and a `.Commit` that fits it. `PushedHashes`: what it
  makes of any manifest and any `.Commit` - the merge goes through all items of the
  manifest whatever `.Commit` lists (`PlacesFresh`), and unless it reads beyond the
  lists, each item it keeps has the hash of its file as it is then.
* **WTFSyncProofs**, all safety properties of `sync_disciplined`, for any clients, files,
  contents, versions and edits: `TypeCorrect`, `VersionsNameContents`,
  `CommitsDescribePushes`, `CopiesDerive`, `NothingMeansCurrent`,
  `UpdatesListDifferences`, `UpgradesKeepEdits`, which assume `Orderly`, and
  `ManifestsStored`, which does not. `Orderly`: users finish what they begin (no `stale`)
  and nobody rolls back. Replies may be lost, and users may add what the server has, except in
  `VersionsNameContents`. Section 3 has what happens otherwise; `sync_disciplined`
  satisfies `Orderly`. None of the properties is inductive: what a push stores
  depends on the merge it does, that on the `.Commit` a former
  command wrote, and that on the copy and the version the command compared. For the
  theorems with `Orderly` the invariant `SyncInv` has all of them: of each version that its manifest, its archive
  and its `.Commit` agree and how they differ from the version before (`History`); of each
  copy that its items are those of the version it states, or its own and never pushed
  (`Tracked`, `Fresh`); and, between two commands, that `.Update` or `.Commit` is what the
  merge of the copy *as it is now* with the version compared returns (`Updated`,
  `Committed`). The server may have moved on by then: a push whose number is no longer the
  next is refused, and an upgrade fetches the version compared. The heart is `SentFits`:
  the items push makes are those of the manifest with new hashes, and the file versions
  go up exactly where the hashes change.
  `ManifestsStored` says `StoredMatchesManifest` of every use: stale `.Commit` and `.Server`
  files, files added that the server has, versions rolled back, replies lost. Nothing is
  known then of how a `.Commit` relates to the copy, and manifests may name a file twice;
  the invariant `StoreInv` asks of copies only that `.Manifest` and `.Commit`
  are lists, and of every version that it is `Whole`: its archive has the files
  its manifest names, with their hashes. A push keeps it by `PushedHashes`: whatever the
  `.Commit` is, either the merge reads beyond its lists and nothing is stored, or all
  hashes it sends are those of the files it sends.

* **HuffmanProofs**, for any characters, delimiters and files: `HeapOrderedHolds`,
  `PrefixFreeHolds`, `RoundTripHolds`, `FaultsWithoutChoiceOnly` and `OptimalHolds`. They assume
  `HuffmanAssumption` (files are sequences of characters, delimiters are some of them);
  `FaultsWithoutChoiceOnly` also that no file is compressed with a book made of others (`Strangers = {}`,
  as in the run), since otherwise the table above has a counterexample. `RoundTripHolds`
  does not need that: what comes out at all is right. The invariant `HuffmanInv` has a
  conjunct for each phase.
  Counting: `Reached`, every token of every file is counted already or in what is still
  unread of it, which is why each token of the file has a code later.
  Merging: `Pool`. None of the parts of `HeapOrdered` is inductive alone: that a merged
  node counts its tokens needs that the two trees share none, and that no node is lost
  needs that the nodes of the heap are distinct, which they are because their trees are.
  `Forest` says so of the heap and the nodes taken, and that each is a tree: inner
  nodes nowhere at the end of a path, each token at one leaf only (`LeavesLast`). From
  the last tree follows `Readable`: paths to leaves are not prefixes of one another.
  Compressing: `Extends`, whatever bits stand for the unread part of the text, those
  written before them stand for the whole (`Written`: bits and text start with a token
  and its code, and so does what is left of them, to the end of both).
  Building: `Growing`, the tree has the tokens added at their codes and beside them
  only nodes on the way to a code, in whatever order they come.
  Decompressing: the decoder's path and its unread bits are the text it has not
  written, and no code is a prefix of the path; so one bit more is either on the way to
  the next code or at its leaf (`DecodedOn`), never beside the tree, and at the end of
  the bits nothing is left over.
  Below these are the operations of the heap at any size: `WithoutMinLeaves` and
  `InsertedAdds`. `Heapify` and `Inserted` are recursive functions on arrangements, so
  `SinksExist` and `SiftsExist` first build functions that satisfy the equations, place
  by place. `SinksDo` shows what one call of `heapify` does although it goes down twice:
  after the left side has been sunk the right child is compared with what came up,
  and `BothSides` is why the top is the least afterwards in either case. `Weight`, a fold
  over a set, is the sum of the counts in whatever order they are taken (`WeightTaken`,
  `WeightUnion`).
  `HuffmanInv` ranges over all texts and codes, which TLC cannot enumerate: the run
  checks the properties that follow from it.

  `OptimalHolds`: no binary tree over the tokens is cheaper than the code book, for any
  files and any order of equal counts. `Least(c, S)` is the cost of the cheapest tree over
  `S`, a recursive function on sets: the weight of `S` and, if it has more than one
  element, the least sum over all ways to split it in two. `BySize` is induction over
  finite sets with a *set* of those for which something holds in place of a predicate, and
  `LeastSplits` the equation as two facts: no split is cheaper, and one is as cheap.
  The classical argument is about trees; this one is about `Least` alone. What is left
  of a tree is the depth of its leaves: `Depths` says of numbers `dep` that to put
  an element `z` in the place of `i` makes the least cost of `S` at most
  `dep[i] * (c[z] - c[i])` higher (`Slope`), and that two elements are deepest. Every set
  has such depths (`DepthsThere`): they come from the cheaper halves, one deeper.
  `Together` is the exchange: if the cheapest split has the two rarest, `a` and `b`, on
  different sides, one side has two elements and with them a pair of deepest ones, and
  exchanging counts by the slopes (`Moved`, `Leverage`) gives a split that is no
  dearer and has both on one side. Going down by size, `Greedy`:
  `Least(c, S) = Least(c, Fused(S, a, b, m)) + c[m]`, where `m` stands for both.
  `Thrifty(N, c)` then says of the nodes `N` still to be merged that with the levels
  `d` the tokens have in their trees, `Least(tally)` is the least cost over `N` and the
  cost of those levels together. A leaf for each token is thrifty (`ThriftyPlanted`), `Greedy`
  keeps it so at each merge (`ThriftyMerged`), and of the last node the levels are the
  lengths of the codes (`ThriftyLast`). The invariant `ThriftInv` has this and `Aside`:
  the nodes taken from the heap count no more than those left in it, which the order
  of the heap gives and without which `Merge` would not merge the two rarest. TLC checks
  `Optimal` on every corpus of the run, for which `Least` is computed from its definition.

Only model-checked: liveness, since the prover has no fairness and no ENABLED (`Released`,
`Answered`, `HandlersFinish`, `WriterNotStarved`).

## 5. Not modelled, and why

* Failing `pthread_*`, `malloc` and `realloc`. Two places would deserve a property if
  such a failure could be provoked: `ds.c:44` returns with `hashmap_mtx` held, and a
  connection accepted without a descriptor starts a thread on -1, which ends after
  its time.
* Signals other than SIGINT (a write to a closed connection that raises SIGPIPE),
  and data that a reset takes from a socket before it is read.
* A machine that stops: the commands a handler starts (`rm`, `cp`) complete when the
  server is killed, and what was written is there.
* Text formats, base64, hashing, the escaping in the Huffman code book, path sanitising, the fields of a message after its
  size; the second list of `proecessManifest_ByChangelist_Update`, which its caller
  does not use.
* Projects whose directory is changed by hand (responses 301 and 601 outside a
  killed create).
* Negative sizes in `mymalloc` (no caller passes one).
* `configure`, `history`, `currentversion` and `destroy` of the client as commands on
  a copy: they leave nothing another command reads. `create` is the initial state.
* The walk over directories, the file names and the options of the Huffman program.
* Pointer sorter, `memgrind`, the stress harness, and the libraries (`tar`, base64,
  SHA-256, `hsearch`), which are modelled from how they are called.

## 6. Plan

Done: the modules and proofs above. What is left, for the model, is handlers
inside Connections: the composition of `Connections` and `WTFServer`, with a kill between a
push's last step and its reply.
