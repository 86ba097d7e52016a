# A model of tag_filesystem

tag_filesystem mounts a flat *target directory* as a file system in which a
directory path is a set of tags: `mnt/animal/mechant/f` is the file `f` of the
target directory, if it carries both tags. This directory holds TLA+ modules
of the program, TLC configurations that check small instances of them, and
TLAPS proofs that hold for any instance. All paths below are relative to
`src/`.

    tlc -workers 2 -config MCTagFs_careful.cfg MCTagFs      model-check a run
    tlapm LowlevelProofs.tla                                check the proofs of a module

`PROJECT.json` lists the runs, a mutation of the model for every checked
property (which the property must detect), the source lines of every
definition, the hazards, the findings and the theorems.

## 1. Inventory

The repository has three variants of the daemon, each with its own copy of the
same layers, and a shared library.

### fuse/: tags on the fly (the reference variant)

| part | state | operations |
|---|---|---|
| tags, `tag.c` | the table `tags` (name -> struct), the list `tagl`; per struct: `value`, `in_use`, `ref_count`, its files | `tag_get`, `tag_get_or_create__`, `tag_remove`, `compute_selected_tags`, `free_selected_tags`, `tag_file`, `untag_file`, `parse_tags`, `tag_db_dump` |
| files, `file.c` | the table of struct file; per file: its tags, its open descriptors | `file_get_or_create`, `file_add_tag`, `file_remove_tag`, `file_add_descriptor`, `notify_descriptors_poll` |
| paths, `path.c` | a struct path per request: real path, last component, selected tags | `path_create` (looks up or *creates* the tags, counts a reference), `path_delete` (gives them back) |
| handles, `file_descriptor.c` | an open file or directory with its struct path, poll handle, pending events | `fd_open`, `fd_close` |
| requests, `tagfs.c` | none of its own | getattr, open, opendir, release, readdir, link, unlink, rename, ioctl, poll, mkdir and rmdir (which do nothing), and data requests passed to the real file |
| database, `tagfs.c`, `tag.c` | `.tags`, `.tags.new` | read at start, dumped at normal exit |

How they interact. Every request builds a path, which may create tags; it may
move files in and out of tags; deleting the path may remove tags. The relation
between files and tags is stored **twice** (a file's table of tags, a tag's
table of files), by separate calls. A handle keeps its path, so it keeps
pointers to tag structs for as long as a client keeps it open. The kernel
sends lookups (getattr) before it sends a request, and may answer them from
its own cache.

What is hard: requests of several clients in any order, with open handles in
between; a tag removed and created again under an open handle; a lookup that
is stale when the request it was made for arrives; a reference count that only
counts some references; two indexes that must agree; repeated components in a
path; tags saved only at normal exit, to a file nobody reads; without `-s`,
all of that in several threads.

What makes it correct: the two indexes agree and hold only live structs; each
request changes the relation as its name says and nothing else does; a tag
some file carries is listed, a tag no file carries any more is not; no struct is used
after it was freed; a listing of an open directory is a listing of what is
there now; a change wakes every client that polls the file; what is dumped is
what was there.

### fuse_lowlevel/: the same on the low-level API

State: inodes (number, `nlookup`, selected tags, or a file), the number -> inode
and file tables, the tags, the handles. Operations: lookup, forget, getattr,
open, opendir, readdir, release, link, unlink, mkdir, rmdir, rename, mknod,
ioctl. Hard: the lookup count must equal what the kernel will forget, each
request must be answered exactly once, an inode must live as long as the kernel
or a handle refers to it; `readdir` modifies a table inside an iteration over
it. Correct: an inode the kernel can name exists; counts never go below zero;
one reply per request; a removed tag is not referenced by an inode.

### fuse_sqlite3/: tags in a database

State: tables file, tag, tag_file in SQLite and a cache of tag structs in memory.
Operations: as in fuse/, with the relation in SQL. Hard: cache and
database are updated separately, a rename unlinks before it links, rows of removed tags
stay, path components are dereferenced unchecked. Correct: a row never speaks of
another tag than the one it was made for, queries by counting and by joins
answer for the tags of now, the relation is that of `TagRelation`.

### cutil/

`hash_table.c` is a table with a read-write lock, held during iteration
(callbacks run under it). Correct: no callback of an iteration asks for the
write lock of its own table; no two threads wait for each other's tables.
`list.c` is a doubly linked list with a cached cursor, which the program fills
first and reads from one end to the other afterwards. `string2.c` splits paths,
`error.c` prints. `uthash.h`, `queue.h` are vendored.

### Others

`kmod/` is an unfinished copy of fuse_lowlevel towards a kernel module; it does
not compile. `ls_tags`, `print_tags`, `poll_files` are small clients of the
ioctl and of poll. `tests/`, `scripts/`, `images/` are data and scripts: the
tests state what the program is expected to do, and the findings quote them.

## 2. The modules

| module | models | proofs |
|---|---|---|
| `TagRelation` | the abstract specification: a relation between files and tags | |
| `TagFs` | fuse/: tag tables, paths, handles and requests, one request at a time; refines `TagRelation` | `TagFsProofs`, `TagFsCareful` |
| `Threads` | fuse/ without `-s`: lookups, links and unlinks below one tag and listings of the root, one table operation or counter access at a time | `ThreadsProofs` |
| `Poll` | fuse/: events, poll handles, clients that poll, the kernel's wait queues | `PollProofs` |
| `TagsDb` | fuse/: the text of `.tags`: parse, dump, interrupted dump, restarts, reads in chunks | `TagsDbProofs` |
| `Lowlevel` | fuse_lowlevel/: inodes, lookup counts, requests, the kernel that counts and forgets; refines `TagRelation` | `LowlevelProofs` |
| `SqliteTags` | fuse_sqlite3/: the table of structs, the rows, queries, requests; refines `TagRelation` | `SqliteProofs` |
| `FileData` | the three daemons: open, read, write, truncate, chmod, mknod, release, on real files, in several threads | `FileDataProofs` |

`MC*` modules give TLC their instances. The modules meet in the abstract
relation: three of them show that their requests change it in the same way, and
what `Poll` is told ("a tag was added to f"), what `TagsDb` dumps and what
`FileData` looks up are its steps and its values. They are not composed into
one state machine: the tag tables, the events, the text and the data are each
changed by one of them only.

The three daemons are near-identical copies in places. Where a definition holds
for several of them, `PROJECT.json` maps it to the copy it was written from.

What is left to do: in `Threads`, paths of several tags and rename, which take
the steps of the present requests for each of their tags, and listings below a tag.

## 3. The core: TagFs

### State

`tags[x]` is everything that concerns one tag **name** `x`, because tags of
different names never touch each other's state:

| model | code |
|---|---|
| `tags[x].cur` | the entry of the table `tags` under `x` (`tag.c:13`); `tagl` always has the same elements |
| `tags[x].obj[g]` | one `struct tag` of that name: allocated or freed, `in_use`, `ref_count`, `files` |
| `tags[x].at[f]` | the entry under `x` in the table of `struct file` `f` (`file.h:15-21`) |
| `tags[x].bad` | a freed struct has been read or written: undefined behaviour |
| `fds[h]` | a handle: what it is on, the path `dir`, and the struct `sel[x]` its path holds per component |
| `dentry` | a positive lookup the kernel may still answer from its cache (one slot) |

A struct of a name needs an identity: after `tag_remove` the table forgets a
struct that handles and files may still point to, and a new one of the same
name may be created. `Structs` is a set of slots; a slot is used again when
nothing points to it. In C the address is reused by `malloc` at its own
discretion, and earlier; where that could matter, a freed struct is still
pointed to, which is what `bad` records.

A directory path is a bag of tags: the order of components only matters for
`opendir` (the last component decides), repeated components are counted and
given back as often as they occur.

### Actions

One action per request, each one the whole handler, from `path_create` to
`path_delete`: `tag_getattr`, `tag_open_file`, `tag_open_dir`,
`tag_open_fails`, `tag_release_generic`, `tag_readdir`, `tag_fgetattr`,
`tag_link` (with the call of `tag_mkdir` on the directory of its target),
`tag_unlink`, `tag_rename`, `tag_rename_refused`, and `Restart`, a stop of the
daemon of any kind followed by a start. The requests mkdir and rmdir are
answered with 0 and change nothing (`fuse/tagfs.c:202-205,226-229`, registered
at 696 and 699), so they have no action; `tag_rmdir` is never called. Requests
are atomic, which is what the `-s` option gives; the interleaving is that of
requests. After `bad` the model allows only `Restart`: nothing is claimed about
a daemon after undefined behaviour.

Guards come from the code's early returns and from what the kernel does before
it sends a request: `Resolves(d, f)` says that `f` was found below `d`, just now or in the
cache.

### The three modes

Three constants say what the environment may do; each adds real behaviours,
and each one breaks some of the properties, which is why it is a parameter:

- `CacheEntries`: lookups may be answered from the kernel's cache, so that a
  request may arrive for a file that lost its tags meanwhile;
- `StrayHandles`: a directory may be opened through a tag that does not exist
  (`tag_open` checks the last component only, `file_descriptor.c:5-45`), so
  that a handle holds a tag that is not in use;
- `MovesDirs`: clients rename what is not a file; `getattr` answers for any
  name, so the rename is accepted and tags a phantom file of that name.

### The abstract specification

`TagRelation` has one variable, the set of pairs file/tag, and the steps link
(adds the tags of a path), unlink (removes them), rename (one tag for another)
and reload. `TagFs!ImplementsRelation` maps the relation to the files' own
tables, which is where getattr, the ioctl and the dump read it.

## 4. The other modules

### Threads

The unit of atomicity is one operation of `hash_table.c`, which takes and gives
back the lock of one table, and one load or store of `ref_count`. Each thread
has a `pc` that says between which two such operations it is. The steps of a
request follow `path_create` (`get`, `get2`, `add`, `inc`), the struct of the file
(`fget`, `fadd`), the body of the request, and `path_delete` (`del`, `collect`,
`unlock`, `strip`, `pop`, `dec`). A decrement is stored, then tested by a second read
of the field or, if the compiler kept the value, by what was stored (`Tests` allows
both); then the name is taken from the table once more and the struct freed
(`test`, `zero`, `free`; `tag.c:20-29`). A listing of the root lists the structs under the lock
of the table (`list`) and reads them after it (`see`), then looks up each file (`next`).

`readers` are the threads inside `ht_for_each` on the files of a struct; a write
of that table waits for them. `table` is a sequence because uthash keeps two
entries of one name, the newer first. The same happens to struct file: `files[f]` counts
the structs added under the name `f`, `FileStructs` are the pairs of a name and a number,
and the last one is found. A lookup stands for any request that makes a path and deletes it
later; an open handle is one that takes long. The kernel serialises link and
unlink in one directory (it holds the lock of the directory), not lookups.

Rename, mkdir, rmdir, paths of several tags, listings below a tag, getxattr and the dump
are not in the model as requests of other threads. Those that are meet in four races, all of
them in the code:

- *tag added twice*: two structs of a tag under one name (`tag.c:46-53`);
- *file added twice*: two structs of a file under one name (`file.c:57-66`);
- *removed in use*: a struct removed that a file or a link has, that a path has found
  and not counted yet (`tag.c:119-128,141-146`), or that a listing of the root is
  going to read (`tagfs.c:284-290`);
- *count changed*: a `ref_count` that another thread changes between two accesses
  of one increment or decrement, or before the free these lead to (`tag.c:22-25,31`).

The history variable `raced` names those that have occurred; the properties say what
the daemon keeps in spite of them and what only they can break.

### Poll

`revents[f]` is per file, the poll handle per descriptor. A client runs
`poll_files`: it polls its files in order, and the kernel's `poll` puts it in a
wait queue during the first pass, up to the first file with an event. `owed` is
a history of the events a descriptor was not told yet. Actions: the three kinds of
notification (link, unlink, rename), `tag_poll`, and the client's and kernel's
steps `Opens`, `Quits`, `PassEnds`, `Wakes`, `check_event`.

### TagsDb

A text is a sequence of lines, and a name is one line of less than `MAX_LENGTH`. What is
dumped is not read as it was written (`fuse/tag.c:188-201,230-232`): a file name ends at
its first `]`, so that `photo[1].jpg` comes back as `photo[1`; of a tag, leading blanks
are left out, and what remains is a comment if it starts with `#`, and names the file of
the tags that follow if it starts with `[`. `ReadFile` and `ReadTag` say this name by
name: the file or the line that the parser reads in each. The loops of the code are
functions of how far they have come: `parse_tags_db2(text)[i]` is what the parser has
after `i` lines, and `dumped(T, l)[i]` the text after `i` files, in the order that
`ht_to_list` gives (the insertion order, reversed). `Interrupted` is a dump that stops
at any line or within one, where the name is cut short. `Starts(db)` and `Starts(new)`
are a start from the old text or from the dump that the user has moved into its place. A
client reads the `.tags` of the mount `Chunk` lines at a time, each read from a new
dump.

### Lowlevel

`ino[n]` is the inode a number stands for: a file, or a directory with its path
and the structs of its tags as it was made (`live`, `freed` since, or
`invalid`). `nlookup` counts modulo `W`, as a `uint64_t` does. `kernel[n]` are
the entries the kernel knows, those in replies under way, and those in forgets
under way: `KernelEntry`, `KernelForget` and `tag_forget` move them. Requests
that the code answers with a crash (a freed struct read, a second reply) or
never (a write lock asked for under one's own read lock) end in `status`
`crashed` or `hung`, from where only `Restart` goes on. `uncounted` is a history
of the inodes whose entries link, mkdir and mknod reply without counting: for
those nothing is claimed.

### SqliteTags

`tags` maps a name to the id of its struct, `tag` and `tag_file` are the tables
of the database. The SQL queries are set expressions over the rows, with their
counts and joins. A name is put into a query between quotes as it is
(`fuse_sqlite3/db.c:131`): `Sql` says what name is asked for then, or that the text is no query.
In that case it is not prepared, each step of it is a misuse, and the directory lists no tag
(`Prepares`; `db.c:234-241`). `tag_rmdir` removes the struct and leaves the rows. The
kernel resolves a directory path when each of its components is found, or
from its cache `dentries`, and a handle keeps the structs of its path: a
request that dereferences one that is not there ends in `crashed`.

### FileData

The target directory (`dir`, `inode`) is shared with others, who make and remove files.
A data request is `Starts` (the request is taken in), `lseek`, then `fd_read` or
`fd_write`, then `Answered`; between these steps the other threads run. `answered` says
what a read replies: what was read, or, in fuse_lowlevel/, what `reply_buf_limited`
leaves of it. `.tags` is read from the dump, and refused to `write` and to `truncate` of
the path `/.tags`. `dentry` is the kernel's cached lookup. A rename changes tags and
compares no names: afterwards the kernel has the file under the new name, and what it
asks for by that name goes to whatever file has it in the target directory. `tag_rename`
records the name in `renamed`, and `BelowTag` says when `.tags` can be found below a
tag: once it carries one, or a file has been renamed to it. There the test of
`truncate`, on the whole path, does not see it. In fuse_sqlite3/ a rename may make known
a name that has no struct file (`MayLack`). Which daemon runs is chosen in `Init`
(`front`). Tags are not in this module: a lookup below a tag finds the file or does not.

## 5. Runs

States are distinct states (of `lowlevel` about that many: its symmetry and view make
the count depend on the order of the search), times are for two workers on a busy machine.

| run | instance | states | time |
|---|---|---|---|
| `careful` | `TagFs`, 2 files, 2 tags, paths `/ x y xy xx`, 1 handle, modes off | 39 838 | 97 s |
| `hostile` | `TagFs`, 1 file, 2 tags, paths `/ x xy`, 1 handle, modes on | 351 835 | 202 s |
| `lowlevel` | 2 files (one made by mknod), 2 tags, 5 inode numbers, counts modulo 4, 2 entries in the kernel, paths of 2 tags | 1.28 million | 173 s |
| `sqlite` | 2 files, 2 tags, one with an apostrophe in its name, all paths, 3 ids, 1 handle, a name in `.tags` that is no file, renamed directories | 176 774 | 20 s |
| `poll` | 2 clients, one with both files, one with the second | 92 372 | 67 s |
| `threads` | 2 threads, 2 files, 1 tag, 4 requests between restarts, 3 structs of the tag, 2 of each file | 570 880 | 117 s |
| `tagsdb` | 2 files, one read as the other; 4 tags, one read as another, one as a comment, one as a file; a text with tags before any file and a file twice, reads of 2 lines, 2 changes per start | 854 770 | 102 s |
| `data` | 3 daemons, 2 threads, 2 handles, `.tags` and a file, 3 inodes, files of up to 2 units, 7 calls | 1.43 million | 41 s |
| `unlink`, `lowlevel_listing`, `sqlite_rename`, `lowlevel_read` | small instances of the same modules | | |

### What the properties say

fuse/, one request at a time (`careful`, `hostile`):

- `TagIndexConsistent`: a file's table holds the struct the tag table holds,
  and that struct holds exactly those files.
- `EveryTagIsListed`, `ListedTagHasFiles`: the root lists a tag if and only if
  some file carries it. (No request makes an empty tag last: mkdir does
  nothing, and link gives the tag it creates a file.)
- `NoUseAfterFree`: no handle holds a freed struct and none is ever touched.
- `FreshHandleListing`: while the tags of an open directory were not removed
  in between, the tags it lists are those its files have.
- `FileTagsAllocated`, `EntriesSound`: no file holds a freed tag, or one
  a later lookup would free; this is what makes a stale request harmless for
  the relation.
- `RequestsKeepWord`: link, unlink and rename change exactly the pairs named
  by their paths; lookups, refused renames and closes change none although
  they create and remove tags. `ImplementsRelation`: the refinement.

Threads (`threads`): `FileTagsAllocated` (no file has a freed tag as long as
no count changes under a thread's hands and the tag has one struct, even if one was
removed in use and whatever structs files have), `FreedOnlyAfterRace` (no freed struct is
touched but after one of the four races), `AgreeWithoutRace` (without them the two
indexes agree whenever no link or unlink is under way), `EveryRequestEnds` (no thread
waits for good, for another or for itself).

Poll (`poll`): `NobodySleepsOnEvents` (no lost wakeup), `NoEventIsDropped` and
`AloneIsTold` (for a file that one client polls, first), `SomebodyIsTold` (an
event recorded is told to somebody while one client that has the file open goes
on, whoever else comes and goes).

The text (`tagsdb`): `DumpReadsBack` (where the tags of a whole dump come back: at the file
that is read in the name of theirs, unless another tag of the same file is read as a file,
and nowhere else; names that are read as they are come back as they were),
`TornSaveOnlyLoses` (a dump that stops early gives no file a tag that the
whole would not, but for one name cut short), `ReadsWholeText`.

fuse_lowlevel/ (`lowlevel`): `KernelInodesExist` and `NoInodeLeaks` (an inode
lives as long as the kernel holds or is about to hold an entry of it, and no
longer), `IndexesAgree`, `ImplementsRelation`.

fuse_sqlite3/ (`sqlite`): `IdsSound`, `CountIsConjunction`, `ListingsCover` (the root
lists every tag; a directory lists every tag its files have, as long as no tag was made
again and the names of its own tags are read between quotes as they are),
`SurvivesUntilRmdir` (what must have happened before a dangling path component is
dereferenced), `ImplementsRelation`.

Data (`data`): `ReadsAnswer` and `WritesLand`, for a request that was alone on
its descriptor; `DatabaseKept`, until `.tags` carries a tag or a file was renamed to
`.tags`, and in fuse_lowlevel/ always.

### Bounds

`TagFs`. `MaxStructs` structs of one name that are still pointed to (table,
files, handles): with one handle and no stray ones two suffice, one in the table and
one kept; with stray handles three. `MaxRef` bounds the reference count: a
request that would pass it is disabled; since the count of a tag in use only
grows, each behaviour has at most that many lookups of a tag before it is
removed or the daemon restarts; 3 and 4 are enough for a handle, a double component
and a request on top of the reference from `.tags`. One cached lookup stands
for many: a request uses one. `MCView` identifies states that differ only in
structs nothing points to. No action reads those, and only `TypeOK` and the
conjunct on all structs in `EntriesSound` mention them; both are proved for all
states, and are checked in `hostile`, where handles keep most structs reachable.
Deadlock is checked: `Restart` is always possible, so that check says little.

`Threads`. Two threads, because each race has two sides; each of the four is reached
without the others. Four requests are a link or an unlink, or one after the other, with lookups
and listings beside them. That the tag has one struct is a condition of `FileTagsAllocated` for
the sake of more threads: with five of them a second struct may have the name while an unlink
of one that is not in use gives back two counts (`tag.c:100-107,141-146`) and so frees what
a link then gives to a file. The two threads of this run never get there; the theorem is
about any number. `MaxStructs` 3: the table's, and those that threads still point to; a
thread that would need one more waits for a slot, and `EveryRequestEnds` shows that
none does for good. `MaxCopies` 2: two threads that both miss a file add one struct each.

`Poll`. Two clients that share a file, one of them with a file before it: a
client alone on a file, one that competes for it, an event on a file not yet
polled and on one already polled in the same pass. Nothing counts, so there is no other bound.

`TagsDb`. `MaxChanges` 2 after each start, over any number of restarts: a tag
removed and given back, or a file looked up before or after a change. Every way a name
can be misread is that of one name of the instance. Two lines per read
make up to four reads of a text, and cut sections in the middle.

`Lowlevel`. `MaxKnown` 2 entries (3 after link) are an entry known, one being
replied and one being given back of the same inode. Modulo 4 the count wraps
below zero in a few steps, as the real one does when an uncounted entry is given
back; `open` does not count up to where both would meet, which in the program
takes 2^63 opens. Five numbers: the root, two files and two directories, so that
a listing may make one while another is in use. `Room` counts the entries that are
known, coming or going anywhere, the root's aside. Numbers that no one knows any
more are used again; the program never does.

`SqliteTags`. Three ids: a tag of `.tags`, one more, and one of the two made
again. Paths are sets: a component that occurs twice is not found.

`FileData`. Seven calls: a file appears, is looked up and opened twice, and
three data requests overlap; or a mknod, a chmod or a truncation stands between
them. Files of two units have an inside, an end and a hole; one unit is written at
a time, a longer one is one `write` at one position like it. `CHECK_DEADLOCK FALSE` in its
two runs: the calls are bounded, so the model stops.

Symmetry (`lowlevel`: tags, `sqlite`: files, `data`: threads and handles) is
used in runs without liveness properties only, over values that the
configuration does not tell apart.

### Fairness

- `Poll`: weak fairness of each client's own steps, `WF_vars(Runs(c))`: a client
  that can go on does, and the daemon answers its poll. This is the kernel's
  scheduling of a process and of the daemon's single loop. Nothing is assumed of
  those who tag files, or of clients coming and going: `Opens` and `Quits` are not in it.
- `Threads`: weak fairness of each thread's steps inside a request,
  `WF_vars(Goes_on(i))`: threads are scheduled, and a read-write lock that stays
  free is given. It is not assumed that requests come or that the daemon restarts.
- No other module has anything that must happen later: handlers run to their
  end, and a data request to its answer.

### Findings

- `unlink`: `rm` through several tags removes all of them
  (`fuse/tagfs.c:175-182`); `tests/check_modifs.sh:15,40-42` expects them kept.
- `lowlevel_listing`: `readdir` of two tags waits for its own read lock as soon
  as a file has one of them only (`fuse_lowlevel/fuse_callback.c:388-403`);
  `tests/check_ls.sh:11,45` expects an answer.
- `sqlite_rename`: rename takes the file from its old tag and then does not find
  it there, so the new tag is not added (`fuse_sqlite3/tagfs.c:387`);
  `tests/check_modifs.sh:12,33-34` expects it.
- `lowlevel_read`: a read at an offset skips that much of what it has read
  there (`fuse_lowlevel/fuse_callback.c:549`), against the comment at line 523.

Three more things that the model contains, each of which is why some property is
claimed under a condition only:

- `getattr` of fuse/ never says that a name does not exist: it answers that it is
  a directory (`fuse/tagfs.c:69`). `tests/check_ls.sh:14` expects otherwise.
- With `StrayHandles`: a client opens a directory through a tag that does not
  exist; a lookup below it removes the tag that the handle created; a link
  creates it again; closing the handle takes the new tag out of the table, by
  name (`fuse/tag.c:105`), though a file carries it.
- A directory kept open while its tag is emptied and made again lists the new
  files but the remaining tags of the old struct (`fuse/tagfs.c:310`).

## 6. Proofs

Each theorem is proved for all values of the constants that satisfy the named
assumptions of its module.

### TagFsProofs

For any `Files`, `Tags`, `Dirs`, `Handles` and bounds, in **every** mode.
The assumptions of `TagFs`: the root is a path and paths are
bags of tags; `.tags` names files and tags; names are finitely many and at
most `MaxRef`; there is at least one struct and one reference; the values that
mark closed handles, directories and empty cache slots are not files or
lookups.

The inductive invariant is `IInv == TypeOK /\ EntriesSound`. What one would
like to say, that files hold live tags (`FileTagsAllocated`), is not inductive:
`free_selected_tags` frees a struct that is not in use, and nothing in
`FileTagsAllocated` says that a struct not in use has no files in *its* table, nor
that a file's entry is mirrored in the struct. `EntrySound` adds exactly that:
a file's entry points to a struct that holds the file; a struct with files is
live and in use; a live struct has a positive count (so that removing it for
one path frees it only if it was the last one); a freed struct is empty. The
count itself need not be the number of pointers, and is not: that is why
handles may dangle, and why nothing about handles is claimed in every mode.

The proof goes bottom up: for each per-tag operator a lemma says that it
keeps an entry `Good` (typed and sound) and what it does to the files' column
`at` (`Gains`, `Loses` or nothing); for each request a lemma combines them,
one tag name at a time; `NextIInv` has one step per action. Theorems
`TypeCorrect`, `EntriesAlwaysSound`, `FilesHoldLiveTags`.

Its second part turns the effect on the column into the effect on the
relation (`UnlinkedRel`, `LinkedRel`, `RenamedRel`), and concludes
`RequestsDoWhatTheySay` and `TablesImplementRelation`, the refinement: the
start states map to start states, and each step to a step or a stutter.

### TagFsCareful

What handles keep and what the root lists, which the environment can break. Each
theorem says which of the three modes of section 3 it needs off, and TLC finds it
violated with any one of these on (two files, two tags and one handle are enough; for
`MovesDirs` and the listing of an open directory it takes three tags):

| theorem | property | stale lookups | stray handles | renamed directories |
|---|---|---|---|---|
| `IndexesAgree` | `TagIndexConsistent` | off | off | |
| `CarriedTagsListed` | `EveryTagIsListed` | off | off | |
| `ListedTagsCarried` | `ListedTagHasFiles` | off | | off |
| `HandlesKeepLiveTags` | `NoUseAfterFree` | off | off | off |
| `OpenDirectoryListsFresh` | `FreshHandleListing` | off | off | off |

The run `careful` is an instance of all five. `ListedTagsCarried` and
`OpenDirectoryListsFresh` need `DbIsCurrent` too: `.tags` names files that are
there, since a tag of a file that is not stays listed, with nothing in it.

One would expect to have to count the pointers to a struct. It is not so: a
handle on what exists keeps structs in use (`KeptInUse`), and the count of a struct
in use never goes to zero, because the lookup that made it counted it and
`free_selected_tags` gives nothing back for a tag in use (`tag.c:141-146`). The invariant
`CareInv` adds to `IInv`, per tag name (`Sane`): a file's entry is the struct of the table
and is mirrored there (`Agree`, an equivalence where `EntrySound` has one direction);
what handles keep is allocated and in use. A rename of what has not the tag it is taken
from keeps that, although it may use a struct it has just freed; so that the daemon stays
`Alive` is a step of its own (`NextAlive`).

That a listed tag has files needs none of it. `NeatInv` speaks of the struct in the table
only: in use it has files (`Tidy`), and they have the tag, under whichever struct
(`Mirrored`). What left the table never comes back to it, so handles may keep what
they like. `Tidy` is not kept within a request (a link makes a tag in use before a file
has it) but at its end, unless the file that was looked up is gone, which is why stale
lookups are excluded.

### LowlevelProofs

Theorems `LowlevelIndexesAgree` and `LowlevelImplementsRelation`, from
`.tags` naming known files and tags (`DbAssumption`). Their invariant only types
the relation and says that both indexes are one, over tags of the table: the
handlers find the struct they change in the tag table, not through an inode,
so nothing about inodes, counts or the kernel is needed, however stale these
are. `Looks` gathers the actions that leave the tables alone.

Theorems `LowlevelTypes`, `InodesOutliveEntries` and `DirectoriesAreFreed` are about
the counts. The invariant `CInv` is one statement per number (`Accounted`): unless an
entry was replied without counting, `nlookup` of a directory **is** the number of its
entries, known, coming and going, and is not zero; that of a file is at least that
number, by the opens, which count and give nothing back; what is not an inode has no
entry. Neither property is inductive without that equation, and the entries on their way
are in it because a forget may be overtaken by a reply. The equation is one of a counter
modulo `W`, hence `WidthAssumption`: the kernel has never more entries than half of what
the counter reaches (2^63 for the `uint64_t` of the code), and `open` never passes the
other half. The numbers are finitely many (`NumsAssumption`), so that entries can be
counted.

### SqliteProofs

Theorems `IdsNeverReused`, `CountDecidesMembership`, `SqliteImplementsRelation`,
`SqliteTypes`, from: tag names are finitely many and no file names; a name between
quotes asks for a name or for none (`SqlAssumption`), whichever; INVALID_TAG is no id;
the bound on ids is large enough for the tags of `.tags`. The invariant is `TypeOK /\
IdsSound`: every id in a struct or a row is below `next_id`, structs of different names
have different ids, and a row of an id that a struct has is of that name. The last part
is what makes the rows of removed tags harmless: a tag made again gets an id no row has.
`CountDecidesMembership` is an argument about cardinalities: the rows of a file over the
ids of a path map one to one into the path's tags, and are as many only if they are all
there.

`DirectoriesListTags` adds `NamesListed`: the insertion of a row for a tag made
again fails, so what is kept is that the *name* is in some row. Of the quotes it needs only the condition
of the property, that the directory's own tags are read as they are (`Quotable`): its query
then is prepared, and asks for its tags. `NoCrashBeforeRmdir`
adds `Remembered`: until an id is without a struct or a row without a file, every path
in the kernel's cache resolves and every open handle has its structs. Both conditions
stay true once they are, since ids are not reused and rows not deleted.

### PollProofs

Theorems `PollTypes` and `NoLostWakeup`, from each client polling at least one file.
That nobody sleeps on events depends on the whole pass: `QueuedWherePolled` (having found
nothing, a client is in the queue of every file it has polled),
`QueuedHasHandle` (and has a poll handle there, so that a notification wakes
it), `PolledIsQuiet` (so a file it has polled has no event unless it was woken),
`WaitsAtTheEnd` (and it sleeps only when it has polled them all).

Theorem `EventsAreKept`, with two more: a client at its first file has found
nothing yet (`FirstFindsNothing`), so that it is put in the queue there; so that file
has a poll handle from its first poll on (`FirstHasHandle`), and a notification, which drops
events of descriptors without one, drops none of it.

### FileDataProofs

Theorems `DatabaseIsKept`, `ReadsWhatWasAsked`, `WritesWhereAsked`, for any set
of daemons, threads, open files, names and data. The invariant: `.tags` has an
inode that no other name and no other descriptor has (`DbIsApart`), a request
under way is on an open file and of the kind its step says (`ServesOpenFile`),
and a request that has been alone on its descriptor is the only one there,
with the position where its `lseek` has put it (`AloneIsApart`). The last is
the reason why requests on different descriptors do not meet; it is not
inductive without `ServesOpenFile`, since a descriptor might be released and opened
again under a request. `Shaped` says which of the variables are functions and
records, as assignments to parts of them need. `RepliesBy` finds the action behind
an answer.

Theorem `OpenFilesHaveStructs` (`TypeOK`): an open file has an inode and, where
fuse/ dereferences it, a struct file although the kernel may open a name from its cache,
because what it has cached was looked up, and a lookup makes a struct that stays
(`KnownHaveStructs`). A rename makes the kernel know a name as well; it has a struct
in fuse/, where the lookup of any name makes one, and may have none in fuse_sqlite3/
(`MayLack`), which follows no such pointer. That
data stays within `MaxLen` needs the bounds of what is asked (`AsksWithinBounds`) and, in
`DataAssumption`, of the texts given.

### ThreadsProofs

Four theorems for any number of threads, files, structs and requests, from `DbFiles` being
finitely many files and `MaxRef` being what `.tags` and two counts for each request make.
`Steps(i)` are the steps of thread `i` that use no freed struct; `StepsOnly` says what such a step
does to the thread's own record (`Follows`), `StepsObjects` what it does to counts.
`Shape` is what a thread's record looks like, whatever the others do.

- `ThreadsTypes`. The invariant `AInv`: types and `Shape`, and that counts stay `Within`
  bounds. A count together with the increments that requests have yet to make (`ToInc`)
  is at most what `.tags` and two for each request make; less the decrements that they
  have yet to make (`ToDec`), it is at least what two for each request take away. Counts
  may be lost, so it may fall below zero. A thread stores one more or less than it has
  loaded, which may be old, but what it has loaded is within the same bounds
  (`CountsBounded`).
- `FreedAfterRaces`, `IndexesAgreeWithoutRaces`. What holds without races cannot be
  separated: `Clean` has, per struct, a count for each request that owes one and one
  more while the tag is in use or about to be (`Backed`); per thread, what it relies on
  at each place (`ThreadClean`); that one thread at a time is between the store and the
  end of a decrement of a struct (`OneGivesBack`); that only the first struct of a file
  has tags (`OnlyFirst`); per file and struct, that the indexes agree but for the one
  link or unlink under way (`PairClean`). `SInv` is what holds with races as well: one
  link or unlink at a time, and a freed struct has no count and is not in use, one with
  files is. `NobodyUsesFreed` concludes from `Backed`: a struct that a thread looks into
  is in the table, in use, owed a count by that thread, or one whose removal would be a
  race (`Uses`: about to be counted, or listed).
- `FileTagsStayAllocated`. A struct may be removed in use and a file may have several
  structs, so `Backed`, `OneGivesBack` and `OnlyFirst` fail. `Keeps` says instead that a
  struct is `Gone` (no name, no file and no link leads to it) or its count covers those
  who owe one, and one more while a file or a link has it (`Covered`). A struct stays
  gone until its slot is used for a new one. An unlink that gives back a count it does
  not owe (`GivesBack`) does so only of a struct that is gone (`DecOfGone`): it is not
  in use, and a struct that files have is in use (`InUseAt`). That no count changes
  under a thread is what makes a store one more or less than the count, and the test one
  of the count as it is. The condition that the tag has one struct is needed too: see
  `Threads` under Bounds.

### TagsDbProofs

Theorems `DatabaseTypes`, `DumpsAreReadBack`, `TornDumpsOnlyLose`, `ReadersGetAll`, for
texts and tables of any length, any number of lines per read and any number of restarts.
The assumptions: a name cut short and the mark for no file are names of their own
(`NamesAssumption`); the name of a file is read as some name of a file, that of a tag as
a line of a tag or a file or as nothing, whichever (`ReadingAssumption`); the first text
is one of lines and names nothing cut short (`TextAssumption`); a read gets at least one
line (`BoundsAssumption`).

What the loops compute is proved by induction on how far they have come. `UptoInd` is
that induction: the set of the `i` up to which a statement holds is a set of numbers, and
one that is not all of them has a least number outside. (`NatInduction` takes the
statement as an operator, which the provers cannot instantiate; a set they can.)

- `Says(text)` is what a text says, without a parser: a pair of a file and a tag for
  each line that is read as a tag, the file being that of the last line before it that is
  read as a file (`Under`). `ParseSays`: the parser makes of a text just the relation it says.
- `DumpSays`: what is dumped of tables whose list of files names each file that has tags
  (`Listed`) says what `DumpReadsBack` claims is read back of the relation of the tables (`SaysOf`). A
  section says what it says wherever it stands, because it begins with the line of its file,
  and whatever its tags are read as, since the next begins with one too. `DumpReadsBack` is
  the two together.
- `CutSays`: a text that ends early says no more than the whole, since nothing a line
  says depends on the lines after it; with its last line cut short it says one pair more,
  at most (`TornSays`). A name cut short is no file's (`FilesOnly`).
- `ReadGoesOn`: what a client has got, while nothing changes, is the beginning of the
  text, as long as what it has got says, and a read that comes out short is its end.

The invariant `IInv` is `TypeOK`, that the tables are `Listed` and that tables and texts
give tags to files only (`NamesSound`), what the reader has got (`ReaderSound`), and
`TornSaveOnlyLoses`. The last does not hold by itself of the next dump: that says no more
than its tables only if these name every file that has tags, which comes from the
parser and from `tag_file`, which creates the file it tags.

### Only model-checked

Liveness (`AloneIsTold`, `SomebodyIsTold`, `EveryRequestEnds`): the prover has no fairness
or ENABLED. Every other property of the passing runs is stated by a theorem.

## 7. Not modelled

- `kmod` does not compile (userland calls, a misspelt typedef): no program to be
  faithful to.
- `uthash.h`, `queue.h` are third-party headers, taken as maps and lists;
  `error.c` prints. The list functions other than `list_add` and reading from
  one end have no caller.
- `ls_tags`, `print_tags` read the tags of a file through the ioctl and have no
  state. Tests and scripts are taken as statements of what is expected.
- getxattr, access, utime, chown and the ioctl change no state of the daemon;
  chown and utime go the way of chmod to the real file. fuse_lowlevel/ answers a
  truncation without doing it.
- The table of struct file in `TagFs`: filled on lookup, never emptied, and its
  entries are only reached by name; that module has an entry per name from the
  start (`FileData` follows the table).
- In `Threads`: paths of several tags, rename, mkdir, rmdir, listings below a tag, getxattr and
  the dump in other threads; the tables of descriptors, which have no lock; the one directory
  stream that all listings read (`fuse/tagfs.c:260`). Nothing is claimed about races with these.
- In `TagsDb`: names with a newline, and lines of `MAX_LENGTH` or more.
  In `FileData`: more than one path per name, and writes of more than one unit.
- `ref_count` overflows after 2^31 lookups of one tag; the models bound it.
