# A verification of the workspace server

`narl-workspace` (formerly `narl-diary`) is a private workspace for one user: a
tree of Markdown documents with the files they embed, a board per space, share
links, an SFTP view of the same tree, mails, and a mirror of everything on
Proton Drive. It is one Rust process (axum, tokio, sqlx over SQLite) with a
Svelte client. This directory holds TLA+ modules translated from that code, the
TLC configurations that check them and the proofs TLAPS checks.

Paths below are those of the repository below `src/`, so `src/src/routes/nodes.rs`
is the file the repository calls `src/routes/nodes.rs`.

The server has one user but many concurrent actors: every request is a task of
its own on a pool of SQLite connections, an SFTP session is another, the backup
loop and the notifier are two more, a browser may have several tabs, and
`backup-now` is a second process. Almost nothing runs inside a transaction and
a dropped connection drops the handler's future between two statements. That is
what the modules are about.

## 1. The system

| component | source | state it keeps | operations |
| --- | --- | --- | --- |
| node tree | `routes/nodes.rs`, `migrations/0006_nodes.sql` | tables `nodes`, `node_media` | `create`, `create_space`, `update`, `remove`, `move_node`; reads |
| media | `routes/media.rs` | table `media`, the uploads directory | `upload`, `remove`, `delete_media`, `link_to_node`, `exclusive_media` |
| backup loop | `backup/mod.rs`, `routes/backup.rs` | `dirty`, `wake`, `running`, `status` | `signal`, `run_now`, the loop of `spawn`, `POST /api/backup`, `backup-now` |
| mirror sync | `backup/sync.rs` | table `backup_files`, the device folder | snapshot, upload, record, prune |
| Proton session, device folders | `backup/session.rs`, `backup/proton.rs`, `backup/mod.rs` | the session file with its single-use refresh token; table `backup_state` | login, logout, resume, the refresh hook; `ensure_device`, `device_folders` |
| outbox | `mail/mod.rs` | table `notifications` | `enqueue`, `retry_due`, `send_pending` |
| notifier | `notify/mod.rs`, `migrations/0008_notifications.sql` | `notifications`, `login_events` | reminder, due cards, digest, `note_login`, the tick |
| login throttle | `throttle.rs`, `routes/session.rs` | `failures`, `next_allowed` | `check`, `record_failure`, `record_success` |
| boards | `routes/boards.rs`, `migrations/0007_boards.sql` | `board_lists`, `cards` | lists and cards: create, rename, move, remove |
| sharing | `routes/share.rs` | `nodes.share_token`, `share_key` | enable, rotate, disable, read |
| SFTP | `sftp/fs.rs`, `sftp/mod.rs` | open handles, the host key | open, write, close, rename, remove, mkdir, rmdir |
| import, export | `routes/import.rs`, `routes/export.rs` | none of their own | walk, plan, write; paths and links |
| client store | `web/src/lib/store.svelte.ts` | the open document, drafts in `localStorage` | touch, autosave, flush, open, restore |
| views, auth, CLI, config, static files | the rest | none that changes | rendering, HMAC, start-up |

How they meet. Every handler that writes calls `Backup::signal`, which sets
`dirty` and leaves a permit for the loop. The loop debounces, takes the lock
`running` and calls `sync::run`, which reads the same database and uploads
directory the handlers write. The notifier queues rows into `notifications` and
the same tick hands them to the relay. SFTP writes the same rows as the
handlers, with checks of its own. The client keeps text the server has not got
and sends whole bodies: the last writer wins.

What is hard:

* interleavings: a handler reads (the parent's kind, the free slug, the
  descendants, the exclusive files) and acts on it in a later statement;
* dying half way: a hang-up, a restart or an error between two statements, with
  a file on disk and a row in a table to keep together;
* flags and wake-ups: a change made while a run is under way, a run that fails,
  a wake-up that comes between the check and the wait;
* retries: a mail offered again, when, how often, and what is behind it;
* two stores without a common transaction: the database and the uploads
  directory, the database and the Drive;
* what a session remembers between two calls: an SFTP handle of a document that
  has moved, a refresh token that is good once, a folder that has been deleted;
* numbers: a shift that doubles a delay once too often, a day that is not 24
  hours long.

What makes each part correct is listed with the modules below; `PROJECT.json`
lists the hazards at their lines with the properties that watch them.

## 2. The modules

| module | models | composed of | checked by | proofs |
| --- | --- | --- | --- | --- |
| `TreeContract` | what the tree promises its clients | | (refined) | |
| `NodeTree` | node tree and media | implements `TreeContract` | the three below | `NodeTreeProofs` |
| `SftpFiles` | the SFTP view | extends `NodeTree` | `MCSftp`: `sftp`, `sftp_cycle` | `RouteProofs` |
| `Sharing` | share links | extends `NodeTree` | `MCSharing`: `sharing` | `RouteProofs` |
| `Import` | the import of a folder | extends `NodeTree` | `MCImport`: `import` | `RouteProofs` |
| `MirrorContract` | what the backup promises | | (refined) | |
| `BackupLoop` | when the mirror runs | implements `MirrorContract` | `MCBackup`: `backup` | `BackupLoopProofs` |
| `DriveSession` | session and folders of a run | the start of a run of `BackupLoop` | `MCDriveSession`: `session`, `session_device` | `DriveSessionProofs` |
| `MirrorSync` | what one run uploads | the rest of that run | `MCMirrorSync`: `mirror` | `MirrorSyncProofs` |
| `Notifier` | what is worth a mail, and when | feeds `Outbox` | `MCNotifier`: `notifier` | `NotifierProofs` |
| `Outbox` | queue, retries, the pass | | `MCOutbox`: `outbox` | `BackoffProofs` |
| `Boards` | lists and cards | | `MCBoards`: `boards` | `BoardsProofs` |
| `LoginThrottle` | the brake on logins | | `MCLoginThrottle`: `throttle` | `BackoffProofs` |

`SftpFiles`, `Sharing` and `Import` are compositions: their next-state relation is
that of `NodeTree`, with every handler of the web in it, and their own calls
beside it, over the same tables. That is where the interesting things happen, so
`NodeTree` has no instance of its own.

Operators that stand for a plausible mistake (a statement in another order, a
guard dropped) sit before the definition they vary, introduced as "a slip".
Nothing refers to them; `PROJECT.json` lists under "mutants" which property
refutes which.

### NodeTree

`nodes` is the table, a function from ids to rows; `nextId` is AUTOINCREMENT,
so an id is never used twice. `links` is `node_media`, `rows` is `media`,
`files` is the uploads directory, `listed` the ids a client can have seen and
so may put in a body. `dirty` is the backup's flag and `changed` says whether
the data differ from the last mirror.

A handler `h` is a process: `pc[h]` names the SQL statement it runs next,
`local[h]` what it has read so far. One action is one statement and the
synchronous code after it, so `move_node` is `MoveStart` (the target's kind),
`MoveCheck` (the recursive query), `MoveName`, `MoveSlug`, `MoveWrite`. The
transaction of `link_to_node` is one action. A constraint SQLite enforces is a
refusal of the statement: the foreign key on `parent_id` and on `node_media`, the
unique index on `(parent_id, slug)`, which treats two NULL parents as different.
`Abandon` is a handler that dies where it stands: the server stops, an error
returns early, or the client hangs up.

`TreeContract` is the promise to whoever only looks at the tree: it changes by whole
operations. A create adds one node with an id never used before, an import all of its
nodes, a removal takes a node with everything below it, a move puts a subtree in a place
outside of it. Between two such steps nothing of the shape changes. It knows no handlers
and no statements: what each of them read, and that it is still true when it writes, is
what the refinement is about. `Skeleton` is the mapping, the two columns `parent_id` and
`kind` of `nodes`, and `WholeOperations` the property. `SftpFiles` does not implement it:
`rename` moves a folder below itself.

Abstracted: a slug is a pair of what `slugify` made of the name and the suffix
`next_slug` added; a body is the set of uploads it embeds; positions, times,
excerpts, search and the read-only handlers are left out. A `DELETE` and its
cascade are one statement. An upload field is a file and then a row.

### SftpFiles

A session answers one call at a time, so it is a handler of `NodeTree`; what it
has besides is `held`, the handle it has open for writing, a copy of a text with
the id, the directory and the name it was opened under. Nothing reaches the
tables before `close`: `CloseKnown` writes the text back by id, into no row at all
if the document has gone, `CloseNew` and `CloseInsert` make a document that was not
there at open, and `CloseLink` is `link_to_node` with its error ignored. `rmdir`
and `remove` are `RemoveLook` and `Erase`; `Erase` cascades and, unlike the web's
`remove`, never deletes a file a document embedded. `Rename` looks only at the
kind of the target. A path is walked statement by statement and ends in an id, so
the walk is the choice of any entry there is.

`NoStrayFile` and `ChangesSignalled` are not checked here: the first is about
files on disk that have no row, which SFTP does not touch.

### Sharing

`share` is the two columns of `nodes`, present or absent together; tokens and keys
are numbers drawn one after another, as `random_secret` never repeats one. `enable`
is `ShareRead` and `ShareWrite`, `disable` one statement. `read` and `serve_media` are one
SELECT each and change nothing: they are the predicates `Opens` and `Serves`.
`given` is every link ever handed out, which readers keep.

### Import

`Plan` is what was uploaded, in the order `build` takes it: directories first, then
documents and files, with the links between them. `build` runs in one transaction,
the only handler that does. SQLite gives a deferred transaction in WAL mode its
snapshot at the first SELECT (`ImportBegin`) and the write lock at the first INSERT
(`ImportLock`), refused with SQLITE_BUSY_SNAPSHOT when anything was committed in
between; `fresh` says whose snapshot is still the newest. While the lock is held no
other handler writes the tables, so all the rows appear at `ImportCommit`. The files
do not wait for it: `ImportFile` puts them on disk one by one, `ImportUndo` sweeps
them up after a failure, `ImportCut` is a hang-up, after which nobody does. Where a
link points is a set of files, `Rewritten`; the algebra of relative paths, the zip
and the multipart body are left out. `SlugsOf` is every choice of slugs `next_slug` can
make in turn; that there may be none is one of the ways of `ImportFail`. A write to the
disk is all or nothing, here and in an upload: the part of a file that a full disk leaves
behind is not modelled. The transaction is modelled from how SQLite documents it and how
`build` uses it.

### BackupLoop

The data directory is a version number, the mirror another. A handler is
`Write` and later `Signal` (or `WriterLost`, when its future is dropped in
between). A run is `Lock`, `Snapshot`, then `Succeed` or `Fail`; who runs it is a
request or the loop. The loop is `Check`, `Woken`/`Tick`, `Disturbed`/`Quiet`, as
the two `select!`s of `spawn`. `permit` is the one permit `Notify` can hold.
`Hangup` drops the future of a request; `Restart` forgets everything `Backup`
keeps in memory. `dropped` remembers that a future was dropped since a run last
began: until the next run the flag and the status may then be wrong, and
`NoChangeForgotten` and `StatusTruthful` say so. The loop is modelled as it runs
when a session is stored at start-up; without one `spawn` waits for nothing and
does nothing. `backup-now`, a second process with a lock of its own, is not
modelled.

`MirrorContract` is the promise: the mirror holds a version the data had, never
goes back, and catches up. `MirrorAdvances` checks, and `MirrorRefines` proves,
that `BackupLoop` implements its safety part.

### DriveSession

What every run does before it uploads. `file` is the stored session, `current` the
refresh token Proton would take for each login, `client` the session a run holds in
memory. A refresh token is good once: `Rotate` spends it and `Persist`, the refresh
hook, writes the new one; the two are separate because the server may stop between
them, and `lost` remembers that it did, or that the write failed. `proton-login` and
`proton-logout` are processes of their own and come at any time.

`device_folders` is `Root`, `EnsureDevice`, `SetName`, `SetRoot`, then for `data` and
for `uploads` a `Folder` and a `SetFolder`. Every `state_set` is a statement of its own.
`drive` is what the account holds, `there` what has not been deleted from it. `torn`
remembers that a run stopped between remembering a new device and remembering its
folders. The SDK is modelled from how the code uses it: `create_folder_path` finds a
folder before it makes one, and nodes are listed as soon as they exist.

### MirrorSync

One run at a time, which `OneRunAtATime` of `BackupLoop` gives. `tracked` is the
table `backup_files`, `drive` the nodes in the device folder, each with the file
it is a copy of and what it holds. A run goes `Begin`, `TakeSnapshot` (`VACUUM
INTO`), `NewRevision` or `NewFile`, `Record`, `ListMedia`, then `UploadMedia` or
`SkipMedia` for each row it read, `MediaDone`, and with pruning on `FindOrphans`,
`Trash`, `Forget`. Between any two of these the handlers edit, upload and delete,
the owner may delete a file in the Drive UI (`Discard`), and the run may be cut
short (`Break`).

The hash of a snapshot is the snapshot. It contains `backup_files`, and with it
the row about the previous copy of `diary.db`; `edition` stands for that row. So a
snapshot never equals the one recorded, and every run uploads a new revision even
when nobody wrote anything, where `sync.rs:9` speaks of one revision per change.
The Drive is modelled from how `sync.rs` uses its client. It is taken to accept a
second file of the same name, which is what the code counts on after a stop
between upload and record.

### Notifier

Time is a number of units (`now`); `Wall` says what the clock on the wall shows at
each, and may skip an hour or show one twice. `LocalInstant`, `DayBounds` and
`TimeReached` are the functions of the same name over it. A sweep takes the time once
(`at`) and asks its questions in order: `SweepReminder` counts and `Remind` queues, in two
statements; `SweepCards` selects, `SweepCard` queues one card after another;
`SweepDigest`. Between them users write, edit cards and log in, and the clock moves
on. `SweepFail` is an error, which ends the sweep and not the notifier. `queue` is the
set of keys, as INSERT OR IGNORE makes it. `record_login` is `Login` and `LoginMail`;
`LoginLost` is a stop between the two.

### Outbox

`queue` is the table in the order of `created_at`; `sent`, `attempts` and `age`
(minutes since `last_attempt_at`, counted up to the longest wait) are its
columns. A pass is `Select` (the query and the filter `retry_due`), then for each
row `Send` and `RecordSent` or `RecordRefused`. `Refused` are mails the relay
never takes; an outage refuses a good mail, or takes it and loses the answer.
The relay is modelled from how `Mailer::send` uses it.

### Boards

A handler is a process as in `NodeTree`. `list_space` is `FindList` and
`FindBoard` (the check in `board_space`), after which each handler goes to its own
statements; `move_card` passes there twice, for the list of the card and for the
target. Its transaction is one action, `MoveCard`: the first statement in it takes
the write lock. `reordered` and the dense rewriting of positions are stated by
counting: the place of a card is the number of cards before it. `Seed` is one
`INSERT` of `ensure_lists`. The migration gave the space older than boards its
lists (`Oldest`); `Switch` and `RemoveSpace` are what `routes/nodes.rs` does to the
node behind a board, with the cascade from lists to cards. `Serves` says which
requests a handler may be asked.

`Backup::signal` is left out here: every handler that writes calls it last, and
nothing on a board reads it. `ensure_lists` is the exception, it writes and does
not signal.

### LoginThrottle

Two's complement integers of `Width` bits, wrapping as a release build does.
`Check` and the recording of the outcome are two actions of a login in flight.
`Bit[k]` is a one shifted k places, a recursive function so that it can be reasoned
about. With `Width` 6 instead of 64 the sign bit is six doublings away; `MaxCount` 8,
where the saturating counter stops in the run (`u32::MAX` in the code), leaves room on
both sides of it. `Doubling` says that no failure has reached the sign bit yet; the
three properties are about what happens until then, and the theorems about what happens
after. The clock stands still at `MaxClock`.

## 3. The runs

| run | instance | shows |
| --- | --- | --- |
| `import` | an import of two nested directories with a document and two files, beside uploads; the other handler moves and removes nodes and files; any of them may die at any statement | a failed import leaves no file, what it brought is owned, a row in `media` has its file, `TreeContract` is implemented |
| `sharing` | one author of documents; both handlers publish and withdraw, the other deletes files; all run to their end | dead links stay dead, only documents are shared, no picture blinks during a save, no stray files, links match bodies, changes are signalled, shared files survive |
| `sftp` | a session that edits, erases, makes and renames; a browser that creates, moves and deletes | nothing below a document, only spaces in the root, a late close touches a body and nothing else |
| `backup` | a request, the loop, handlers and requests dropped, two failures, a restart, the interval set | no change forgotten, the status true, `MirrorContract` implemented, every change mirrored in the end |
| `session` | two logins with two rotations each, two names of the device, three renamings and deletions, runs that fail anywhere | the stored token is alive, nothing is made twice, folders lie in each other |
| `mirror` | two uploads, one edit, pruning on, one run cut short or call refused, one file deleted in the Drive UI | records true, the newest copy never gives way to an older one, a finished run can be restored from, copies accounted for, everything gets there in the end |
| `outbox` | three mails, one refused for ever, an outage, a crash | nothing lost, taken more than once only for a loss, waits kept, good mail leaves |
| `notifier` | two days and the start of a third in half hours, three hours to a day; the first skips an hour, over the reminder's and the digest's time, the second shows one twice; one card, one browser, two events | a quiet day has its reminder, a digest day its digest, no reminder undeserved, open cards chased |
| `boards` | two spaces, two lists, two cards; one handler removes lists and cards, the other makes and patches them, both move | cards keep their board, moves land and keep the order, a board keeps a list, a patch keeps what it leaves out |
| `throttle` | two logins in flight, failures up to the sign bit and past it | below it: waits not shortened by stragglers and no longer than `MAX_DELAY`, parallel guessing pays |

The bounds. The tree instances are small because a handler is five statements
long: two handlers and three or four nodes already give every pair of statements
in both orders, in up to a few million states. `MaxSuffix` 2 lets `next_slug` run
out, which the code answers with an error. Ids stop at `MaxNodes` (and at
`MaxLists`, `MaxCards`): an insert beyond it is not taken, an import needs three at
once. `MaxSecrets` 4 is a link, a rotation and a second window's token and key.
`import` treats upload ids as symmetric, since they are drawn at random, and leaves
`dirty` and `changed` out of its view, since none of its guards and properties reads
them. Two names are what a device needs to be renamed away and back. Six nodes in
the Drive are two devices and the folders of both. In half hours with days of three
hours a skipped or repeated hour is a third of a day and meets every configured
time. Two uploads are one listed and one that comes or goes while a run is under
way; one loss and one deletion in the Drive UI meet every statement of a run. Two
lists are what a stale source list, a deleted target and a foreign board need.
Three mails and a batch of two are the least in which one mail can be behind
others. `throttle` goes one failure past the one that shifts into the sign bit.

Some of what holds only holds because the instance keeps two of a kind apart, and
says so where the property is stated: `WholeOperations` in `import` with one mover,
`LinksMatchBody` and `SharedFilesSurvive` in `sharing` with one author,
`KeepsOneList` and `LeftOutKept` in `boards` with one remover and one patcher,
`GoodMailLeaves` in `outbox` with fewer abandoned mails than a batch has places.

Findings, each a run that TLC must refute:

| run | what the code does |
| --- | --- |
| `sftp_cycle` | `rename` over SFTP puts a folder below itself: `move_node` checks against that, `rename` does not. Nothing reaches the subtree again, and every recursive query that enters it runs for ever |
| `session_device` | a run that stops after `device_name` was stored and before the folders were leaves the next run writing into the old device's folders |

Found with the modules, with no run of their own here; what to change to see them:

* two crossing moves make a cycle (`nodes.rs:597`): give h1 of `MCImport` "move" as
  well and check `Rooted` or `WholeOperations`;
* a document moved out of a subtree while `remove` works on it stays and loses its files,
  which were listed before the move (`nodes.rs:553`): give h2 of `MCSharing` "move" as
  well and check `SharedFilesSurvive`;
* a document that embeds a file while another that embeds it is being deleted loses
  the file (`nodes.rs:553`): give h2 of `MCSharing` "update" as well and check
  `SharedFilesSurvive`; the same instance refutes `LinksMatchBody`;
* a batch full of abandoned mails blocks every later one (`mail/mod.rs:136`): two
  `Refused` keys and `Batch` 2 in `outbox`, `GoodMailLeaves`;
* the 67th failure in a row shifts into the sign bit (`throttle.rs:29`): the wait it sets
  is negative, and a second later `check`'s subtraction wraps around to the longest wait
  there is. From then on not even the right password is compared until the server
  restarts, where `throttle.rs:9` wants the owner never locked out. `SignBitReached` and
  `LockedForGood` prove it; drop `Doubling` from `NeverLockedOut` to see it in `throttle`;
* an upload deleted in the Drive UI is skipped by every later run on the word of its
  record (`sync.rs:138`): `DeletedComesBack` in `mirror`.

Seen while reading: two spaces created together share a slug, since the unique
index ignores NULL parents; `move_node` accepts a space below another node;
reordering a document can change its slug, and a move can write the slug of a name
the node no longer has; an SFTP client that saves a file under the name of a folder's
slug makes `x-2`, `x-3` with each save; `remove` and `rmdir` over SFTP leave the files a
document embedded in `media`, and `rmdir` takes along what was put into the directory
since it looked; closing a handle of a deleted document says Ok; `enable` on a document
deleted meanwhile returns a link that never opens; links an import rewrites start with
the slugs the target had before the upload was read; updating an imported folder
rewrites its links from a body it does not have and so detaches the files it owns; a
hang-up during an import leaves its files on disk; a refresh hook that fires after
`proton-logout` writes the session back; a stop between the upsert and the mail of a
new browser loses the mail; a reminder time that is skipped comes an hour after the
naive time, where the comment at `notify/mod.rs:421` speaks of the moment the clock
jumped, and in the last hour of a day it does not come that day; without the interval a
failed manual run is not tried again until the next change; `backup-now` and the server
can upload at the same time, over the same `.diary-backup.db`; a stop after the relay's
yes sends a mail twice; ten attempts take about four hours, where the comment speaks of
a day.

### Fairness

`BackupLoop` assumes weak fairness for the tasks of the runtime (tokio polls a
task that is ready, timers fire, an upload ends one way or the other) and strong
fairness for the loop's turn at the lock, since tokio's mutex is first come,
first served. Requests and users owe nothing. `MirrorSync` assumes that a run is
started again and again, which the timer of `BackupLoop` sees to, and that it goes
on. `Outbox` assumes that the minute comes round, that a tick with something to
send starts a pass, and that a pass under way goes on. Failures, outages, crashes and
restarts are bounded: the liveness properties say what happens once they stop.
`Notifier` assumes nothing: `NothingForgotten` is about days in which a sweep ran to
its end at every instant, and `missed` says which those are not.

## 4. The proofs

TLAPS proves the theorems below for every value of the constants that meets the
modules' `ASSUME`s: any number of handlers, files, cards, runs and losses. Each follows
from an invariant that every step keeps, mostly a stronger one than the property. What
that adds is what a handler knows between two statements. Where a theorem has a
hypothesis of its own the property fails without it, and the text says how.

`NodeTreeProofs`, the tree and its files:

| theorem | property | holds because |
| --- | --- | --- |
| `TypeCorrect` | | inductive as it stands |
| `IdsForEver` | | AUTOINCREMENT, and no handler writes a kind |
| `LeavesAreLeaves` | `DocumentsAreLeaves` | `LeafInv`: what was read about a parent several statements ago is still true when it is used, since kinds never change and ids are never used again; a parent that has gone is refused by the foreign key |
| `RowsAlwaysHaveFiles` | `RowsHaveFiles` | `FileInv`: a file about to be unlinked has no row and gets none, because an upload id is never issued twice |
| `NothingStrays` | `NoStrayFile` | `StrayInv`: only a handler between the two halves of an upload or of a deletion holds a file |
| `EveryChangeSignalled` | `ChangesSignalled` | `SignalInv`: a change not signalled is owed, by the deletion under way or by the save whose node still exists. A save whose node goes returns without the signal, and then the deletion owes it |
| `LinksFollowBody` | `LinksMatchBody` | `BodyInv`: the body in the row is the one whose links are still to be written |
| `OthersKeepTheirFiles` | `SharedFilesSurvive` | `RemovalsForeseen`: the subtree a removal read is still below it when it deletes, and the files it found exclusive are still linked to nothing outside |
| `NothingCutLoose` | `Rooted` | `RootInv`: what the recursive query of `move_node` found is true until the write |
| `HandlersActWhole` | `WholeOperations` | the refinement of `TreeContract`: each of the five statements that write `nodes` is one operation of the contract, by `TargetsFit` (the kind of the parent), `MovesClear` (no cycle) and `CreatesFit` (no space below anything); every other statement is a stutter |
| `ContractKeepsTree`, `HandlersKeepTree` | | whatever the contract allows leaves a tree a tree (a graft, a cut and a move each keep every node below a root), hence the handlers do |

`NothingStrays`, `EveryChangeSignalled` and `LinksFollowBody` assume that no handler dies
half way (`~Cancellation`): one that does leaves exactly that behind. `EveryChangeSignalled`
also assumes that nobody uploads, because an upload of two files whose second fails stores
the first and does not signal. `LinksFollowBody` assumes one handler that saves (`OneSaver`)
and a database that starts with matching links (`SeedMatches`), `OthersKeepTheirFiles` one
that saves, creates, moves or removes (`OneAuthor`), `NothingCutLoose` one that moves
(`OneMover`) and a rooted start (`SeedRooted`), and so do the refinements; all the others may do whatever else there
is. Rootedness is about reachability of any length: `NothingCutLoose` argues with the least
fixed point `Below` through the four things a step can do to the shape of a tree, and no
theorem needs a bound on its depth.

`RouteProofs` puts other handlers beside those. One module, since the three share the
results above and each other's lemmas on what leaves the tree alone:

| theorem | property | holds because |
| --- | --- | --- |
| `FsTypeCorrect`, `FsIdsForEver` | | carried over from `NodeTreeProofs`; no run repeats them |
| `FsLeavesAreLeaves`, `RootsAreSpaces` | `DocumentsAreLeaves`, `RootHoldsSpaces` | `ShapeInv`: `LeafInv`, the same about what SFTP calls and handles found (`CallsFit`), and that the root holds spaces; every action of web and SFTP changes the table in one of a few ways, and each keeps it |
| `LateCloses` | `LateCloseKeepsShape` | the action |
| `ShareTypeCorrect`, `DeadForGood` | `DeadLinksStayDead` | `KeysDrawn`: a key is stored only as it is drawn, so a link that stopped opening cannot be written again |
| `SharesAreDocuments` | `OnlyDocumentsShared` | `PublishersFit`: what `enable` looked at is a document or gone |
| `NothingBlanks` | `PicturesStay` | `LinksApart`: a link names one document; with `BodyInv`, only a deletion or a save without the file takes it away. `OneSaver`, `SeedMatches` |
| `SharingStraysNothing`, `SharingSignals`, `SharedLinksFollowBody`, `SharedFilesStay` | as in the tree | `enable` and `disable` leave the tree's tables alone, signal, and come between two statements of the others |
| `ImportTypeCorrect` | | `ImportInv`: who writes holds the lock and its target exists (`LockHeld`), only an import that is writing or failing holds files (`LandedHeld`), the target is a directory or has gone (`ImportsFit`) |
| `ImportedRowsHaveFiles`, `FailedImportsSwept` | `RowsHaveFiles`, `FailedImportLeavesNothing` | `LandedApart`: what an import wrote and did not commit has no row, so no deletion touches it; no upload draws its id; and no two imports hold one file |
| `ImportsAreOwned` | `ImportedFilesOwned` | `TreeGrafted`: every node a commit adds is below the target, since the first that was not would hang below one made before it, which is |
| `SharingActsWhole`, `ImportsActWhole` | `WholeOperations` | `enable` and `disable` stutter; the nodes a commit makes are one graft at its target (`CommitIsWhole`), and before the commit no other handler sees one |
| `ImportsCutNothingLoose` | `Rooted` | grafting keeps a rooted tree rooted, and the lock keeps the target there from the first INSERT to the commit. `OneMover`, `SeedRooted` |

`BackupLoopProofs`. `OneRun` needs that whoever is past `lock` is the holder;
`NothingForgotten` (`NoChangeForgotten`) that a snapshot is never older than the last clear
of the flag; `StatusIsTrue` (`StatusTruthful`) the same `LockHeld`: whoever clears the lock
clears the status, but for a dropped request. `MirrorRefines` (`MirrorAdvances`) needs that
nobody's snapshot is older than the mirror (`SnapFresh`), and then each step is a step of
`MirrorContract` or leaves it alone.

`MirrorSyncProofs`. `RecordsAreTrue` and `PruningSpares` need that a recorded node, while it
exists, is a copy of the file it is recorded for, that a file in hand that was sent has its
node, and that an orphan stays one because upload ids never come back. `DriveNeverGoesBack`
(`CopyNeverOlder`) needs `Ordered`: a snapshot on its way up is no older than any copy of the
database on the Drive, since one run at a time takes it; so a revision replaces an older one
or an equal one, and a trash takes no copy of the database. `CopyCanBeRestored`
(`RestoreComplete`) needs the order of a run (`Staged`), that a snapshot names only listed
files (`SnapshotsKnown`), and `Covered`: of what the recorded copy of the database names and
the workspace still has, the run that listed the files after it has sent, is sending or will
send each one. `CopiesCounted` (`CopiesExplained`) gives each file a `Home`, the node just
written or the one recorded, and counts the others: each was left by a loss of its own
(`StraysCounted`). It is a statement about cardinalities for any number of losses.

`BackoffProofs`, the two places that wait longer after each failure. Of the outbox:
`NoMailLost`, `RefusedLeftAlone`, `OneRowEach`, `SentOnceEach` and the types,
from one invariant about the row the pass is at. `SentOnceEach` counts: a row still to be
sent has been taken no more often than there were losses. `RefusedWait` (`BackoffKept`) needs
`DueInv`: what was due when it was selected stays due until it is offered, since a pass offers
each row once and a wait is never longer than the clock of a row counts.

Of the throttle: `GuessingTakesTime` (`GuessesTakeTime`), `OwnerOnlySlowed`
(`NeverLockedOut`) and `NoWaitForgiven` (`OnlySuccessForgives`) from `ThrottleInv`, for any
number of logins in flight. Its parts: the wait that runs is no longer than the last failure
imposed (`WaitImposed`), and the failures past the free ones, together with the logins in
flight, are at most one round ahead of the seconds (`RoundsPaid`, counted in `Credit`), and not
ahead at all when the next round may begin. `SignBitReached` is the arithmetic of the failure
after: minus half the range, for every width. `LockedForGood` says that what it sets no step
undoes. All of them need that `Bit` doubles, and TLAPS does not take a recursive definition at
its word: `BitRecursion` shows that a function with that recursion exists, from the least place
for which none would, and that two of them agree.

`BoardsProofs`. `CardsStay` needs what a move has learnt from statement to statement
(`MoveKnows`): if its card and lists are still there, their boards are the ones it read.
`LeftOutIsKept` needs that a patch writes back the date that is in the row (`PatchFresh`), for
one handler that patches (`OnePatcher`): of two, the later puts back what the earlier
changed. `OneListStays` needs that the second list a removal counted is still there
(`RemovalInv`), for one handler that removes lists (`OneRemover`): two remove the last two.
`MovesLand` rests on lemmas about rank: position and id order the cards of a list strictly,
with repeated positions and holes, so the ranks of n cards are 0 to n - 1, and rewriting the
positions without the moved card keeps the order of all others.

`NotifierProofs`. `NoDayForgotten` needs `AskInv`: an instant on a day that was swept has
asked about its day (`DaysAsked`, `NowAsked`, and `SweepAsked` for the sweep under way), and
entries are not from the future. `RemindersDeserved` needs that what is written between the
count and the mail is not earlier than the sweep (`RemindJust`); `EveryCardChased` that an
open due card is selected, selected still or queued (`ChaseInv`). All three need a clock that
is not set back across midnight (`DaysInOrder`), so that a day, once over, is over. The first
and the last need that a clock that is set back shows again what it has shown
(`TimesRepeat`), so that the least instant of a local time is the first; the second that a
day begins where the code looks for it (`DaysBegin`). Summer and winter time meet them, and
so does the clock of `MCNotifier`, which TLC evaluates (`ClocksOfTheProofs`). A zone that
sets its clock back across midnight is outside.

`DriveSessionProofs`. `StoredSessionStaysGood` needs `TokenInv`: what the hook is about to
save is what Proton would take. `NamesUnique` is inductive. `ChainOfFolders` needs `ChainInv`:
what was made lies where it was asked for (`TreeInv`, `KindInv`), what is remembered fits
together unless torn (`FitInv`), and so does what runs used.

Only model-checked: all liveness (`EveryChangeMirrored`, `CopyCatchesUp`, `GoodMailLeaves`),
which is beyond the prover, as are fairness and ENABLED. Every other property of a passing run
is also a theorem. Only proved, because no run has room to repeat them: types and identity of
the tree with SFTP beside it, and the theorems without a property above.

The theorems are about the models. That a handler is cut into the right statements is what
the map in `PROJECT.json` lets a reader check against the source.

## 5. Not modelled

* The web client (`store.svelte.ts`): drafts in `localStorage`, autosave, answers that
  arrive late, two tabs. It would be a module of its own over versions of one
  document, with the server's last writer wins as its environment.
* `backup-now`, a process with a lock of its own beside the server's: two instances of
  `MirrorSync` and `DriveSession` over one database.
* `rename_list` and the text of cards; reads, searches, excerpts and listings,
  which change nothing.
* The export, and with it the algebra of paths and links it shares with the import.
* Rendering and key bindings, the mime table, the HTTP plumbing, the SSH transport,
  password hashing and HMAC (library calls), start-up and configuration.

What would come next: the client, then `backup-now` beside the server; then the
export, and a disk that is full in the middle of a write.
