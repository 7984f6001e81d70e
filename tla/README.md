# Verification of cpp-build-system

TLA+ specifications of the parts of this repository whose correctness depends on
order, interruption, sharing or arithmetic: the utilities that every generated project
gets (`support/`, namespace `fifthgrid::utils`) and the shell scripts that create,
update, configure and clean a project. Paths below are relative to the root of the
repository; "line" numbers refer to the commit these modules were written from.

`PROJECT.json` lists the components, the runs, which definition translates which
lines, the hazards with the properties that watch them, and the theorems.

To repeat a check: `tlc -workers 2 -config MCThreadFile.cfg MCThreadFile`; to repeat
the proofs: `tlapm ThreadFileProofs.tla`.

## 1. The system

The repository has two halves that hardly touch. The C++ half is a library of
utilities, compiled into each project. The shell half downloads third-party archives
and stamps projects out of templates; it decides which of the utilities exist in a
project, since most of them are behind a `PROJECT_ENABLE_<library>` switch.

### 1.1 C++ utilities with state

**thread_file** (`support/src/utils/file_thread_file.cpp`). Wraps an `i_file`; every
operation is put as an `io_item` into `actions_`, and one thread, started by the first
call, runs them on the wrapped file.
State: `actions_`, `stop_requested_`, `mtx_`/`notify_`, `io_thread_`, and per item
`complete`, `success`, a mutex and a condition.
Operations: `do_io` (behind read, write, truncate, flush, move_to, copy_to, remove,
size), `close`, the destructor; `thread_func`, `run_actions`.
Hard: callers race each other and `close()`; the actions capture the caller's locals
by reference; `stop_requested_` and `complete` are looked at without their lock.
Correct when: queued operations run once and in order, none after its caller has left,
no caller is left waiting, results are those of the operation, the destructor ends.

**timeout** (`support/src/utils/timeout.cpp`). A one-shot timer with a thread.
State: `timeout_killed_`, `timeout_thread_`, the mutex and its condition.
Operations: constructor, `reset`, `disable`, destructor, and the timer's thread.
Hard: cancelling races expiring; two cancellations race for the thread to join; a
wakeup that is no notification.
Correct when: a callback is never run after it was cancelled, never early, never after
the destructor, and otherwise is run.

**encrypting_reader** (`support/src/utils/encrypting_reader.cpp`). Presents a file as
its encrypted form, to libcurl or to a stream, chunk by chunk.
State: `read_offset_`, `chunk_buffers_`, the header, the sizes computed at the start.
Operations: `reader_function`, `set_read_position`, the size functions.
Hard: requests that begin and end anywhere, a failing read of the source, a stop.
Correct when: what is handed out is the encrypted file, gapless, from the position.

**encryption** (`support/src/utils/encryption.cpp`). `read_encrypted_range` fetches the
encrypted chunks that cover a range, decrypts them and cuts the range out. No state
beyond a call. Hard: the short last chunk, the optional header, partial failure.

**enc_file** (`support/src/utils/file_enc_file.cpp`). An `i_file` over an encrypted one;
its `read` is a range read, its `truncate` decrypts and rewrites the chunk of the cut.
State is the wrapped file. Hard: a failure between the cut and the rewriting; another
object that truncates the file while a read goes on with the size it began with.
Correct when: a read delivers a beginning of its range, a cut costs nothing before it.

**atomic** (`support/include/utils/atomic.hpp`). A value with a mutex. Hard:
operations on two atomics at once; comparison holds one mutex while taking the other.

**ttl_cache** (`support/include/utils/ttl_cache.hpp`). A map of expiring entries whose
values are atomics shared with whoever asked for them. Hard: holders outlive the entry;
expiry races use; `set` takes two locks.
Correct when: a handle stays its entry until the key is removed, a purge takes what is
due and nothing else, and nobody waits for ever.

**file** (`support/src/utils/file_file.cpp`). A path plus, perhaps, a stdio stream; some
operations use the one, some the other, and several objects may be on one file.
Hard: every step may fail half-way; the stream buffers; the path may name another file.

**directory** (`support/src/utils/file_directory.cpp`). Recursive copy, move and removal,
counting and listing, over a tree that others change, with a stop flag. State: `path_`,
and the disk. Hard: every test of the tree is stale by the time something is done about
it; a traversal may be cut short; a move is a copy and a removal.
Correct when: a move loses no file, success means complete, two removals finish the work
between them.

**sqlite** (`support/src/utils/db/sqlite/`, `support/include/utils/db/sqlite/`). Builders
of select, update and delete with nested groups of conditions, and `db_result`, whose
copies share one statement but not one result code. Hard: values and placeholders are
kept apart and numbered at different times; a copy reads on what another has stepped.
Correct when: every comparison meets its own value, a statement that changes rows runs
once, reading to the end gives the rows that were asked for.

**file functions** (`support/src/utils/file.cpp`). `read_all`, `read_json_file` and
`write_json_file` over `file`, and single system calls. Hard: a write empties the file
first; a crash may fall anywhere. Correct when: what was written whole is read back.

**smb file and directory** (`file_smb_file.cpp`, `file_smb_directory.cpp`). The same
interfaces over libdsm. What can go wrong is in libdsm's sessions; not modelled.

**common** (`common.cpp`), **path/string/collection**, **hash/time**, **error**,
**platform** (`unix.cpp`, `windows.cpp`). Functions with no or very little state. Of
`common.cpp`, `divide_with_ceiling`, `calculate_read_size` and `retry_action` are modelled
where they are used.

Interaction: `thread_file` and `enc_file` own another `i_file` and call it;
`encrypting_reader` reads one; `enc_file` calls `read_encrypted_range` with a callback
into the file it wraps. `timeout` calls back into its user. `ttl_cache` holds `atomic`s
and hands them to its callers. The JSON functions go through `file`; `directory` copies
and removes through it. There is no messaging, and no persistence beyond the files.

### 1.2 Scripts

**package_scripts** (`grab_packages.sh`, `clean_packages.sh`, `scripts/common.sh`,
`src/scripts/libraries.sh`, `src/scripts/versions.sh`). Download each archive next to
its committed `.sha256`, validate it, remove it when it does not match.
State: the archives in `support/3rd_party/`.

**project_scripts** (`create_project.sh`, `update_project.sh`, `common.sh`,
`src/scripts/env.sh`, `cleanup.sh`, `make_unix.sh`). State: the project's directory -
archives, cmake files, lists of libraries - and `config.sh`, which its owner edits.
Hard: each script is a series of commands and can be interrupted at any of them, and the
repository can change while it copies; the cleanup strikes libraries out of the very
lists it goes by; the dependency rules of `env.sh` are applied once, in order.

**build_scripts**, **cmake / docker / templates**: command lines and declarations; which
target depends on which is in `LibraryTable`, and a build is the one action `Compile`.

Left aside entirely: third-party archives' patches, generated and vendored files.

## 2. Modules

| module | models | builds on |
|---|---|---|
| `ThreadFile` | thread_file, every interleaving of its threads | - |
| `SerialFile` | what a thread_file promises: a serial file | - |
| `Timeout` | timeout | - |
| `ChunkLayout` | sizes and offsets of the encrypted format | - |
| `EncryptingReader` | encrypting_reader | `ChunkLayout` |
| `EncryptedRange` | read_encrypted_range | `ChunkLayout` |
| `EncFile` | enc_file: size, truncate, write, read | `EncryptedRange` |
| `AtomicValue` | atomic | - |
| `TtlCache` | ttl_cache, whose values are atomics | `AtomicValue` |
| `FileHandle` | file | - |
| `JsonFile` | read_all, read_json_file, write_json_file | `FileHandle` |
| `DirectoryTree` | directory: copy_to, move_to, remove, remove_recursively | - |
| `QueryText` | conditions: what dump() writes of one, how SQLite takes it | - |
| `SqliteQuery` | builders, go() and db_result | `QueryText` |
| `LibraryTable` | rules of env.sh, dependencies of the cmake targets | - |
| `PackageStore` | the archives in the repository | `LibraryTable` |
| `BuildSystem` | projects and the scripts on them | `PackageStore` |
| `MC*` | model values, small trees and symmetry for TLC | the module named |
| `*Proofs` | inductive invariants and theorems (section 5) | the module named; `UtilsProofs`: `Timeout` and `SqliteQuery` |

`EncryptedRange`, `AtomicValue` and `PackageStore` have no run of their own: they are
checked inside `EncFile`, `TtlCache` and `BuildSystem`, where others interfere with them.

Names follow the source where TLA+ lets them. A definition whose name has a suffix after
an underscore (`Push_NoNotify`) is a faulty variant of the definition before the
underscore; nothing uses it, it is there to show that a property notices the fault.
(`Mutant:` in a comment announces one.)

### 2.1 ThreadFile

An item `<<c, n>>` is the n-th call of caller c and stands for its `io_item`.

| code | model |
|---|---|
| `do_io` up to the test of `stop_requested_` | `Call`, then `Reject` or `Admit` |
| starting the thread, keeping `mtx_` | `Admit` (`pc = "admitted"` is holding `mtx_`) |
| `emplace_back`, `notify_all`, unlock | `Push` |
| `io_item::wait`: first look, without the lock | `PeekComplete`, `PeekPending` |
| `wait` under the item's mutex | `WaitComplete`, `WaitSleep`, `SpuriousWake` |
| `thread_func`: loop test, wait, batch | `IoCheck`, `IoSleep`, `IoTake` |
| the run after the loop | `IoDrain` |
| `run_actions`, one item | `IoRun`, `IoComplete`, `IoPublish`, then `IoBatchDone` |
| destructor: `close()`, join | `Destroy`, `Join` |

`done()` is two steps because `wait` looks at `complete` without the lock, and `success`
is read without one too: that race is a choice between the two values a reader may see.
The wrapped file is reduced to whether it is open: `read` and `write` cannot succeed on
a closed file, an operation on the path may leave it closed, `close` closes it; `flush`
always answers true and `size` takes the size of the path when there is no handle. What a
call tells is in `ret`: what `do_io` returns, and for `size` the value its action left in
the local that it captured (`Told`); `flush` and `close` keep it to themselves.

`SerialFile` is what a user counts on: each call is answered, takes effect in one step
between call and return, and after the close none does; what it is told is a success only
when its operation had one. Its variables are obtained from ThreadFile's by the mapping
`Serial`: a call has taken effect once its item is in `ran`, and `answer` is the last
call's `ret`, a rejection being a failure like any other.

### 2.2 Timeout

`upc` is where each user is, `tpc` where the timer's thread is. `disable()` has a section
under the mutex (`Disable`), releases it (`Unlock`) and joins (`Join`); the thread's
`wait_for` ends in `Expire`, in a notification (`NotifyAll`) or spuriously, and only then
gets the mutex back, which is where `Fire` and `GiveUp` part. The callback is external.

### 2.3 The encrypted format

`ChunkLayout` has the sizes: a source of n bytes is cut in chunks of `DataChunk`, each of
which grows by `Overhead`; a header of `kdf` bytes may come first. The cipher is ideal: a
byte of ciphertext is its place (`Cipher`), and a chunk decrypts when it is exactly the
bytes of that chunk and was not damaged. Contents of files are offsets, so "the right
byte" is visible in every property.

`EncryptingReader` runs `reader_function` as `Start` (everything before the loop), one
action per turn of the loop, and its end; the source may fail once at any read.
`EncryptedRange` is one call: the tests at the top, then one action per chunk.
`EncFile` is the file under it: which bytes it holds and which chunks are damaged. A
truncation or a write by another object is one step, so it falls between two chunks of a
read. `cut` tells whether the file has changed since the read began.

### 2.4 AtomicValue and TtlCache

In `AtomicValue` a comparison is three steps (take the left mutex, load the right value,
compare and release) and an assignment two. `seen` is a history: the truth values the
comparison could have reported at some instant of the call. Loads, stores: one step each.

In `TtlCache` an operation of the cache that waits for nothing once it has `mutex_` is one
step; `set` of a key that has an entry is three (`SetOld`, `SetStore`, `SetRenew`), since it
keeps `mutex_` while it waits for the value. Clients load, store, assign and compare
through what `get` returned at any time, also when the entry is gone. Cells are the heap
objects; `FreshCell` is what `make_shared` returns.

### 2.5 FileHandle, JsonFile

In `FileHandle` each member function is one action whose disk accesses may each fail.
A stream is the file it is on, its mode, its sticky error indicator, and the bytes
`fwrite` accepted that did not reach the file. Windows branches are not modelled.

`JsonFile` puts the three functions together from those actions, a step for each call they
make on their object: `BeginWrite`, `WriteTruncates`, `WriteFills` or `DumpThrows`,
`Leaves`; `BeginRead`, `ReadsOn` per buffer, `Leaves`. A `Crash` takes the streams with it.
One writer at a time is assumed, readers are not restrained. `BufferSize` is the buffer of
`read_all`; documents may be longer. Which documents a read may give is the history `may`.

### 2.6 DirectoryTree

A worker is a program counter (`at`), its locals (`job`) and the directories it has open
with what `readdir` has still to return (`todo`). Each system call that tests or changes
the tree is a step: `exists()` in `Unlink` and the `unlink` itself in `Unlinking` are two,
and anything may happen between. `move_to` runs `copy_to` and then `remove_recursively`
with the same locals, and becomes the destination (`moved`) where the code assigns
`path_`. `Retry` is `retry_action`. The destination is two places, since `copy_to` puts
the files under the source's own name when the destination exists; neither is inside the
source, nor the source in them. A move to the directory's own path (`stay`) is the one
exception: it returns true at once, and changes nothing. Other processes add
and remove entries (`Appear`, `Vanish`), and somebody sets the flag (`RequestStop`). Any
system call may fail (`Fault`); a `readdir()` that does is taken for the end of the
directory, as in the code, and the entries it had still to return are not seen.

### 2.7 SqliteQuery

The builder's calls append to `actions`, one list per group index, and to `values`;
`Go` writes the lists out, which gives the placeholders their numbers, and binds the
values in the order of the calls. `meant` is a history: the text of each group that is
open as the caller means it, with the values in it.

A text is a sequence of tokens - comparison with a placeholder, `AND`, `OR`, bracket -
and column names and wording are left out. `DumpOf` is `dump()`: of every list, the first
k actions written with the counter at n, a group being the whole of its list between
brackets. It is a function that is equal to what one step makes of it (`DumpStep`), so
that it can be reasoned about. `Bind` puts the values in. What SQLite makes of the text is
external: which texts are conditions (`WellFormed`), in which rows they hold (`Holds`), and
a statement that turns to the next selected row, starts from the top when it is stepped
after its end, and may fail. `res` is the result code each copy of a `db_result` has.

### 2.8 The scripts

`PackageStore` has one state per archive: none, bad (partial, or not what its `.sha256`
says) or good. A grab goes through the archives in any order (bash does not order the
keys of an array) and skips, or downloads and verifies, each; an interrupt leaves what is
there, and the history `interrupted` keeps which archive that was. `clean_packages.sh`
removes them one by one.
`BuildSystem` gives a project: its archives, and for each of nine places (cmake lists,
options, hashes, versions, the cleanup's own list, ...) the libraries mentioned there. A
script is a program counter over its commands, in their order; `StrikeOut` goes through
the places in the order of the `sed` calls in `cleanup.sh`. `Interrupt` ends the script
that runs, after any command.
`LibraryTable` holds the twelve rules of `env.sh` in order, `Resolve` goes through them
once, `TargetsNeeded` is read off the cmake files. The libraries a cleanup has yet to look
at are the set `left`, taken in the order of their array (`First`).
`synced`, `spared`, `cleaned` and `through` are histories: how the last create or update
went, which of the archives it found good the cleanups since then had a use for, whether
the run has cleaned up, and which libraries its cleanup found in its list.

## 3. Runs

Distinct states reached, on two workers:

| run | states | seconds |
|---|---|---|
| thread_file | 61,627 | 26 |
| timeout_three_users | 2,560 | 2 |
| encrypting_reader_streams | 155,021 | 5 |
| enc_file | 35,280 | 5 |
| ttl_cache | 225,712 | 60 |
| file_handles | 258,454 | 40 |
| directory_tree | 587,261 | 146 |
| sqlite_query | 3,882,424 | 80 |
| build_system | 3,248,143 | 71 |

The three runs that end in a violation do so within seconds.

**thread_file** (`MCThreadFile`, passes). An owner and another caller with a call each of
any kind, then the destructor's `close()`, in every interleaving with the I/O thread.
- `InOrderExactlyOnce`: what was pushed is what has run, is in the batch, is queued.
- `CapturesAlive`: nothing runs after its caller left `wait` - no dangling reference.
- `NobodyStranded`: an item that waits is complete, running or going to be run.
- `NoInventedSuccess`, `ClosedForGood`: results are real, nothing after a close runs.
- `ImplementsSerialFile`: it refines `SerialFile`: order, effects and what callers are
  told, and that every call is answered.
- `DestructorTerminates`: under the fairness below.

*Bounds.* One ordinary call each and the close is the smallest instance with a push that
races a close, a batch of two, an item left for the final drain and a rejected call; the
safety part is proved for every number of callers and calls (section 5).

**thread_file_stale_result** (violated). `CallReportsOutcome`: see section 6.

**timeout_three_users** (`Timeout`, passes). Three users with two calls each of `disable`
and `reset`, one spurious wakeup, then the destructor. `CancelledNeverFires`,
`NothingAfterDestroy`, `FiresAfterFullWait`, `DisableReturns`, `FiresUnlessDisabled`.
*Bounds.* Two users make `disable()` race itself (one joins, one returns at once); the
third adds a reset at the same time. One spurious wakeup is one more unasked wait.

**encrypting_reader_streams** (`EncryptingReader`, passes). Sources of none to three
chunks of two bytes, ending inside and at the end of a chunk, with and without a header,
requests that are smaller than, as large as and larger than a chunk and the file, three
calls or seeks, one failing read, a stop at any time. `DeliversTheCipher`: every byte is
that of the encrypted file at its place. `ReadsAllThatIsLeft`: a call that succeeds stops
short of what was asked for at the end of the file only.
*Bounds.* A chunk can be first, middle and last; three calls are enough to leave a chunk,
come back to it and go on.

**encrypting_reader_retry** (violated). `SuccessIsCipher`: see section 6.

**enc_file** (`EncFile`, passes). Files of 0..6 bytes in chunks of two, with a header and
without, none or one chunk damaged; every range with ends in 0..7, a fetch failing at any
point, and two truncations or writes between its chunks, each of which may fail at any
inner step. `DeliversARunOfTheRange`, `DeliversTheWholeRange`, `WholeChunkDecrypts` for the
reads, `TruncateIsExact` and `FailedTruncateSparesTheRest` for the cuts.
*Bounds.* All alignments of both ends with three chunks occur; a fourth would be read as
the second is. Two cuts make a file short and shorter below one read.

**ttl_cache** (`MCTtlCache`, passes). Two threads with three calls between them, two keys,
three values, lifetimes of one and two and a clock of 0..1: an entry can be renewed, outlive
a change of the ttl, be removed while it is held or compared, and be set again. Seven cells
are one more than there can be pointers. It starts from any filling of the cache, with the
handles given out or not.
- `HandleIsTheEntry`: holder and cache see each other's stores until the key is removed.
- `AnswersForOneInstant`: a comparison reports what was true at some moment of the call,
  whatever is stored and set meanwhile (linearizability of `==`).
- `PurgeIsExact`: a purge takes what was not used for its whole lifetime, nothing else.
- `EveryCallReturns`: no deadlock between comparisons, and sets that keep the cache locked
  while they wait for a value. It needs `ComparedKeys` to go one way (section 6).

*Bounds.* A comparison and two stores change both of its sides while it runs.

**file_handles** (`MCFileHandle`, passes; symmetry in objects, which are only compared).
Two objects, two paths, five inodes, files of up to two bytes, five calls with a fault
possible at every one of their disk accesses - or five calls of the JSON functions on three
documents, with faults, crashes and exceptions between any two of their steps.
`OnlyRejectedBytesLinger`, `StaysOnItsFile`, `NamesTheSameFile`, `ReadsWhatWasWritten`.
*Bounds.* Five calls cover open, write, move by the other object, and two more; a long
document, a shorter one over it cut short, and a reader beside each. A buffer of one byte
and documents of one or two make reads of one buffer and of several.

**directory_tree** (`MCDirectoryTree`, passes). A source with a file, a link `exists()`
denies and a subdirectory with a file. One worker copies or moves it, or moves it to where
it is; another one removes it, two attempts per system call, one system call that fails or
entry that comes or goes by itself, a stop at any moment.
- `MoveLosesNothing`: each file of the top level is in the source or whole in the
  destination at every moment of a move, whatever else fails and whoever stops it; a file
  that a failed `readdir()` hid from the copy is not among them (section 6).
- `CopyIsComplete`: a copy that reports success has brought those files over, with stops.
- `SuccessMeansGone`: a removal, or a move to another place, that reports success has
  left no directory.
- `RemovalsFinish`: a move and a removal that run into each other leave nothing behind.
- `CallsReturn`: no call goes on for ever.

*Bounds.* One call for each worker: a second call of the same worker adds no interleaving
the other worker's does not. Two attempts are a retry and giving up. The tree has an entry
of each kind at the top, and recursion into a directory that is not empty.

**sqlite_query** (`SqliteQuery`, passes). Every sequence of up to six builder calls - columns
set, comparisons, `and`, `or`, groups in groups - for the three kinds of query, on a table
of three rows, one of them with a column neither INTEGER nor TEXT; three reads through two
copies of the result, one step that fails.
- `QueryIsTheOneMeant`: the text that is prepared is the condition as it was built, each
  comparison in it with its own value; a well-formed one, or none at all, is accepted.
- `RunsOnce`: a statement that changes rows runs once, a select again only for a copy that
  missed the end.
- `AnswersTheQuestion`: when a copy comes to the end, the copies together have handed out
  the rows that meet the condition, once and in order, since the last start.

*Bounds.* Six calls are enough for a group with a comparison, a second one behind it and one
more inside; three reads come to an end and past it.

**build_system** (`BuildSystem`, passes). Boost, of which there are two archives, and
libbitcoin, which decides between them; two runs in the repository, four on the project
and one interrupt, at any command of any script.
- `InUseStaysWhole`: an archive that the last create or update brought whole and every
  cleanup had a use for is there for the build, and its library mentioned everywhere.
- `CleanupIsComplete`: a build that cleaned up finds no archive of what is off, and no
  mention of a library its cleanup went through - after an update that was cut short, too.
  A library that an earlier, interrupted cleanup struck from the list has no include,
  option or entry; this much is not promised after an update that was cut short.
- `GrabKeepsOnlyGoodArchives`: a bad archive is one a grab was interrupted at.
- `DependenciesAreOn`: over all configurations of the libraries the rules name.

*Bounds.* Four scripts are: create, a cleanup cut short, an update, a build. Boost and
libbitcoin are the only libraries that share archives; any other is like one of them.

**build_system_needed** (violated). `CleanupKeepsWhatIsNeeded`: see section 6.

Deadlock is checked in the runs of `MCThreadFile` and `Timeout`, where a destroyed object
is the one place to stop. The others really may stop - a sequence of calls that is over, a
project nobody works on - and say `CHECK_DEADLOCK FALSE`; that no call gets stuck there is
what `EveryCallReturns` and `CallsReturn` say.

Every property of a passing run is accompanied, in `PROJECT.json`, by a fault in the
mapped code under which it fails: a dropped test, a missing reset or notification, an
off-by-one, a swapped order.

## 4. Fairness

`ThreadFile`: weak fairness of each caller inside `do_io`, of the I/O thread and of the
join - the threads are scheduled. Whether to call or to destroy is nobody's obligation.
Weak fairness is enough since `mtx_` is held by a caller only from `Admit` to `Push`, and
nothing there can block.

`Timeout`: weak fairness of the timer's thread (its waits end, and so does the callback:
`std::condition_variable::wait_for` has a finite duration), of giving the mutex up, and of
joining a thread that has exited.

`TtlCache`: weak fairness of each thread inside a call. Calls are started at will, and a
thread that holds a mutex gives it up after finitely many of its own steps.

`DirectoryTree`: weak fairness of each worker inside a call: system calls return.

The other specifications state safety only and assume no fairness: their code is
sequential, or a script that its user may leave.

## 5. Proofs

Eight modules prove theorems for every value of the constants, from the `ASSUME`s of the
modules they extend and nothing else. Each has an inductive invariant; its lemmas go action
by action.

**ThreadFileProofs** - any `Callers`, `Owner` in it, natural `MaxCalls`. `Inductive`
(`Spec => []IInv`), `TypeCorrect`, `QueueOrder`, `NoDanglingCapture`, `NoCallerStranded`,
`SuccessIsReal`, `CloseIsFinal`, and `Refines` (`Spec => Serial!SafeSpec`).
None of the properties is inductive. That a caller is never stranded depends on what the
I/O thread knows at its final drain: nobody is between the test of `stop_requested_` and
the push, because the drain takes `mtx_` and the flag was set before (`LoopInv`). That
captures are alive depends on an item being in one place only (`DistinctInv`) and on
`complete` being set after the action (`CapturesAlive` itself, for the item just run). That
a queued item is still waiting depends on items being numbered by the calls of their caller
(`CallInv`). That results are real depends on the order in `done()` (`ResultInv`), and that
a close is final on the flag being set before the close can be answered (`CloseInv`,
`LateInv`). `IInv` is their conjunction with the type invariant; it is stated beside the
proofs.
`Refines` is by step simulation: entering `do_io` is `Invoke`, a rejection is `Refuse`, the
action being run is `TakeEffect`, leaving `wait` is `Return`, the join is `Destroyed`, and
nothing else can be seen. Leaving `wait` gives an answer `Return` allows because a success
that is told is of an action that had it (`ResultInv`). It adds to `IInv` that what is complete is what has run
(`RanInv`) and that the destructor is alone (`DestroyInv`).

**UtilsProofs**, the timer - any users, calls and wakeups. `CancelIsFinal`, `DestroyLeavesNothing`,
`WholeWaitFirst`. `TimerInv` adds that a running thread belongs to the object or to a
`disable()` that has yet to join it (`ThreadIsOwned`), that a cancelled timer is killed
before its thread can get to the callback (`FiringInv`), and what the thread knows of its
wait (`WaitInv`).

**UtilsProofs**, the queries - any values, table, handles and numbers of calls, reads and
failures. `OnlyWhatWasMeant`, `StatementsRunOnce`, `ReadersGetTheAnswer`.
`BuilderInv` is about the builder between two calls. The indexes of the open groups grow
inwards, and every list but perhaps the innermost is there (`OpenInv`); the lists are
numbered without a gap, a group comes after the list it is in, and no list has a group
that is still open (`ListsInv`). There is a function that satisfies the equation of
`dump()`, and by it each open group, written from where the one around it stops, binds to
what the caller means by it, the innermost stopping at the last value (`TextInv`). A call
extends that function by one action of one list (`ExtendDump`), which no text but those
of that list and of the groups around it can see; the values that were there keep their numbers
(`BindSame`), and a group that closes has its text between the brackets (`BuilderGroupEnd`).
When `go()` comes, the function is the one `DumpOf` chooses, since groups only point to
later lists: two that differ would differ first at some action of a last list
(`DumpIsUnique`). What an empty group does is seen in `ListsInv`: its index goes to the
next one, and one list then stands for two groups.
`RunsInv` says that nothing is read before `go()` or of a statement that changes rows, and
that without a copy a result code of SQLITE_ROW means a row; `ReadInv` that, on a row, what
was handed out or left is what the query selects before it. `QueryIInv` puts these together
with `QueryInv`, that the query selects the rows the caller wants, on which
`ReadersGetTheAnswer` rests: it speaks of the copies of a result together, and of each
reader only where there are no copies.
`Holds` is a recursive function too, but nothing has to be known of it: text and meaning
are the same sequence.

**EncryptingReaderProofs** - any source, chunk, overhead, header and requests.
`HandsOutTheCipher`, `ReadsAll`. `ReaderInv` says that the cache holds sealed chunks but for
those whose read failed (`CacheInv`), that what was handed out ends where the next read
begins (`DestInv`), and that chunk, offset and rest in the loop agree with `read_offset_`
(`LoopInv`). The lemmas before it are about division. `WantInv`, under which `ReadsAll`
holds, is that what was handed out and what remains make up what was asked for or is left.

**EncFileProofs** - any file, damage, chunk, header, range and truncations. `ReadIsARun`,
`ReadIsWhole`, `WholeChunksDecrypt`, `TruncatesExactly`, `FailedTruncateSpares`.
`EncFileInv` is that the file is a beginning of the encrypted form (`FileInv`) and that a
read has delivered what it has passed (`RangeInv`). What is true of whole chunks needs
`WholeInv` besides: the file is always as long as the encrypted form of something, whatever
a failed truncation left (`LengthInv`), and is of the size the read was told unless it has
been cut since (`UncutInv`). The two about truncation are action properties; they follow
from it by arithmetic about where the last chunk ends.

**TtlCacheProofs** - any finite keys, threads and cells with more cells than pointers, which
is what makes `make_shared` always succeed. `HandleIsShared`, `PurgeExact`,
`ComparisonIsOfOneInstant`. `CellInv` says that different entries have different cells
(`Separate`), what handles point to while their key is there (`Attached`) and after
(`Detached`), and what assignments and sets in progress will store (`Assigning`,
`Setting`). `CompareInv` says what a comparison has seen at each of its steps; its left side
cannot change between its last two because it holds that mutex.

**FileHandleProofs** - any inodes, lengths and calls, any finite objects, paths and
documents. `RejectedBytesOnly`, `ReopensTheSame`: `HandleInv` has the shape of the tables
(`Tables`) and that bytes linger only in streams whose error indicator is set
(`Lingering`). `MoveKeepsTrack` is about one call whose steps may each fail; of other
objects' calls between them nothing is said, since a call is one action.
`DocumentsReadBack`, for documents none of which begins another, as no JSON object does,
and a buffer of any size. `JsonInv` adds to `HandleInv` what a call
can rely on between its steps. A stream is on the file, keeps nothing back, and its error
ends the call (`StreamInv`). There is one writer, who has an empty file in front of it once
it has truncated, and the last document written whole is there until the next write begins
(`WriterInv`). A reader has nothing or all of that document if no write has met it
(`Alone`); if one has, and the old one fits in one buffer, it has nothing or all of the old
one as long as that is there, and then a beginning of the new one or something that begins
with the old one (`MetByOne`), of which only whole documents parse. After two writes, or
between two buffers of a longer document, it may have anything (`ReaderInv`).
`JsonInv` holds of the JSON calls only; where the single operations are called at will,
it asks for `HandleInv` alone.

**DirectoryTreeProofs** - any tree, workers, retries, calls and trouble. `SuccessIsReal`; and
`NothingIsLost` and `ReportedCopies` from the assumption `OneCopier`, that one worker only
copies or moves (section 6 says why), of the files that no failed `readdir()` hid.
`TreeInv` says, for each worker, which call it can be in at each place (`Phases`), that what it has to bring over is ahead of its traversal or
copied (`Safe`), and what a reported copy means (`Reported`).
`RemovalsFinishTogether` is without that assumption, for any number of workers. Of each it
needs that what it has open is the path from the root to where it is (`Sound`), that no
entry of an open directory has been passed over (`Covers`), that a directory read to its
end is empty (`Empties`), and that what it has found is there until somebody else takes it
(`Fresh`). `FinishInv` puts them together in `Pursued`: while the root is there, somebody
is removing it whom nobody has overtaken. Whoever removes an entry is that somebody
from then on, so the last one to return has removed the root.

**BuildSystemProofs** - any libraries of the table, any number of runs and interrupts.
`GrabbedArchivesAreGood`, `BuildsFindTheirLibraries`, `CleanupLeavesNothing`,
`EnabledWithWhatItNeeds`. `StoreInv`: a bad archive is the one the grab is at, or one an
interrupted grab was at. `ProjectInv`: what a sync has brought so far (`SyncInv`),
that a cleanup strikes out only what is off (`CleanInv`), and that what is spared is there
in all places (`SparedInv`). `CleanupInv` adds what makes a cleanup complete although it
can be broken off after any command: a library is known to the cleanup for as long as an
archive, an include or an option of it is there (`GoneInv`), since its own entry and its
place in the list go after those; the one at hand is struck from the places passed
(`StruckInv`); what is off is still to come or not listed (`LeftInv`); and what this cleanup
has been through is mentioned nowhere (`ThroughInv`). `EnabledWithWhatItNeeds` is about all
configurations and needs no invariant: the rules are followed one by one, and for each
library, whatever can turn it on comes before a rule that turns on what it needs or brings
that along itself - but for wxWidgets and Curl - and only fmt, which nothing needs, is ever
turned off.

All safety properties that the passing runs check are proved. Model-checked only:

- All liveness: `DestructorTerminates`, `DisableReturns`, `FiresUnlessDisabled`,
  `EveryCallReturns`, `CallsReturn`, and in `ImplementsSerialFile` that every call is
  answered. It depends on fairness and `ENABLED`, which the prover does not handle.

## 6. What the checks found

Three statements of the repository are not true of the code, and a run shows each:

1. *A call can report failure for an operation that succeeded*
   (`file_thread_file.cpp:50-56`). `done()` assigns `complete` before `success`, and
   `wait()` returns on `complete` without the lock. `NoInventedSuccess` shows, and
   `SuccessIsReal` proves, that the opposite never happens.
2. *After a failed read, a retry delivers zeroes as ciphertext*
   (`encrypting_reader.cpp:656`). The buffer enters `chunk_buffers_` before it is filled.
3. *wxWidgets alone loses OpenSSL* (`src/scripts/env.sh:133`). The rule by which wxWidgets
   turns Curl on comes after the one by which Curl turns OpenSSL on, and the rules are
   applied once. `DependenciesAreOn`, proved for every configuration, says this
   is the only such case.

Met while reading, and visible in the models, without a run of their own:

- `a == b` in one thread and `b == a` in another lock in opposite orders and wait for each
  other for ever (`atomic.hpp:84`): with both orders in `ComparedKeys`,
  `EveryCallReturns` fails. No comment promises otherwise.
- `file::write` returns true when its last `fflush` failed (`file_file.cpp:536`): the
  bytes never reach the file (glibc drops what a failing flush could not write, and so does
  the model).
- `fopen` failing in `open()` is not noticed (`file_file.cpp:134`); the object stays closed.
- `move_to` of a closed object renames the file and returns false (`file_file.cpp:290`).
- A read error during `sha256` is taken for the end of the file (`file_file.cpp:383`).
- `enc_file::write` truncates a file that is to grow, to the number of bytes it would grow
  by, and then returns false (`file_enc_file.cpp:170`). Its `truncate` ends in the same
  `write`, so a cut inside a chunk always fails, after the chunk is lost.
- An encrypting_reader over an empty source answers a request longer than its header with
  `error_return_`, having copied the header (`encrypting_reader.cpp:651`); and its cache is
  only trimmed when the next chunk is found in it (line 673), so reading a file once, in
  requests of one chunk each, keeps all of it in memory.
- `README.md:159` says the cleanup runs after the first successful build; `make_unix.sh`
  runs it, and removes `cleanup.sh`, before that build and whether or not it succeeds.
- `README.md:57` says all packages are downloaded and validated; DTL, LIBBITCOIN_SYSTEM and
  TPL have no entry in `PROJECT_DOWNLOADS` (`NotDownloaded` in `LibraryTable`).
- `README.md:172` calls `update_project.sh` with one path; the script takes a name and the
  directory that contains the project. Its test for the directory comes after `mkdir -p`.
- A cleanup interrupted after a library was struck from `scripts/libraries.sh` leaves its
  hashes, versions and cmake file for good (`cleanup.sh:24-32`); nothing includes them any
  more, as `CleanupIsComplete` says, which asks for all nine places only of what the
  cleanup at hand went through.
- An update interrupted between `cmake/` and `scripts/` (`common.sh:105`) brings back the
  includes of libraries that a cleanup had struck from the old list; the next cleanup does
  not know them and leaves the includes.
- An archive whose download was interrupted is never validated again (`grab_packages.sh:12`):
  `GrabKeepsOnlyGoodArchives` says that these are the only bad ones.
- A create or update that runs beside a grab copies what is there, whole or not
  (`common.sh:114`), and reports success; `InUseStaysWhole` is about what arrived whole.

Of directories, and the reason for the assumption that one worker only copies or moves:

- `move_to` makes the destination itself, and its `copy_to` then finds it existing and goes
  on to a directory of the source's name inside, which nobody makes (`file_directory.cpp:466`
  and `:129`). So a move of a directory with files fails, unless `readdir` returns a
  subdirectory first; the same holds of a copy into an existing directory. After such a
  failure the destination exists, and each retry of the move is refused (line 448). After a
  success `path_` names the outer directory and the files are in the inner one.
- Subdirectories are made in the destination, but their files are not copied, and a move
  then removes them; so it does with a file added between the copy and the removal.
  `MoveLosesNothing` is about the files of the top level that were there at the start.
- A `readdir()` that fails is taken for the end of the directory (`file_directory.cpp:88`):
  `copy_to` then reports success for an incomplete copy, and `move_to` goes on to remove
  what was not copied. `MoveLosesNothing` and `CopyIsComplete` leave the files out that were
  hidden so.
- `move_to` to the directory's own path reports success, with the directory where it was
  (lines 444-446).
- When the destination cannot be made and the source has no files at its top, `move_to`
  reports true with the directory gone.
- On Linux the directories found by a traversal have no stop flag (line 95), so a stop does
  not reach into them.
- `file::remove` of a broken link, or of one to a directory, returns true and leaves it
  (`file_file.cpp:440`); `rmdir` of its directory then fails for as long as it is retried.
  `RemovalsFinish` is about trees without one.
- Two concurrent moves of one source to one destination can lose a file between them: each
  removes what the other one has taken for copied.

Of queries:

- An empty group leaves its index to the next group, which then takes over its values'
  places: some comparison is silently made with NULL (`db_where_t.hpp:198-203`).
- Text is bound without a copy of it (`db_select.cpp:163`); going on with the builder while a
  result is being read moves the text the statement reads (`loose` in the model).
- `where_data` owns the base, which owns the context, which owns `where_data`: a cycle that
  is never freed.
- A copy of a `db_result` whose code is stale restarts a statement that had ended, or hands
  out the row the other copy is on (`AnswersTheQuestion`, `RunsOnce` say how far that goes).
- A column that is neither INTEGER nor TEXT throws before the step, so the reader stays on
  that row until it calls `next_row` (`db_common.cpp:103`).

Of JSON files:

- `write_json_file` empties the file first (`file.cpp:458`): a crash, a fault or an exception
  of `dump()` leaves an empty file, and `read_json_file` takes that for a success and leaves
  its argument as it was. `ReadsWhatWasWritten` says that nothing worse can be read.
- It reports what `write` does, so success even if the last flush lost the bytes.
- Two writers at once, or a writer between two buffers of a reader, can mix documents. The
  model has one writer; of a read of a document longer than one buffer of `read_all` (64 KiB)
  that a write meets `ReadsWhatWasWritten` promises nothing.

Of the others: `ttl_cache::set` keeps the whole cache locked while it waits for the mutex of
one value (`ttl_cache.hpp:82`); and a read of an `enc_file` that is truncated below it
delivers a beginning of its range and fails.

Smaller points that a test can settle and no module is for: overflow of a duration added
to the clock in `ttl_cache` and `time.cpp`; the cache of `find_program_in_path`, never
invalidated; `retry_action`, which sleeps once more after the last attempt;
`get_next_available_port`, whose port is free only when it looked; a failing download in
`create_packages.sh`, after the `.sha256` was already removed; NULL columns in `db_column`.

## 7. Not modelled, and what is left

*Moving a thread_file, its accessors that bypass the queue, copies of an
encrypting_reader, moves of an atomic*: they are only defined while nobody else uses the
object. *count, size and the listing functions of directory*: they read. *insert, order,
limit and column lists of queries*: they add text and no state of interest. *JSON files with
a password*: encryption of a whole buffer, outside of the steps the properties are about.

*smb*: how libdsm's sessions fail decides everything, and that is not in the repository.
*platform, path, string, collection, hash, time, error*: functions of their arguments, or
one system call each; tests reach them. *build_scripts, cmake, docker, templates*: straight
command lines. *Windows branches, SQLite itself, libsodium, cmake*: external.
*Renaming in the utility sources, git, `.cmd` twins, MinGW tool archives*: the state they
change is not looked at by anything that is modelled.

Most lines under `support/` are headers of vendored software (`3rd_party/`, `backward.hpp`,
`fzf.c`), tests and the code above; what has state, order or sharing is in section 2.

What could come next, in this order:

1. `create_packages.sh` in `PackageStore`: a download that fails after the `.sha256` is gone.
2. A thread_file over a failing `FileHandle`, in place of the file that is open or not.
3. `DirectoryTree` with several workers that copy, once `copy_to` and `move_to` agree on
   where the files go.
4. What a query with an empty group comes to, which `hollow` sets apart so far.
