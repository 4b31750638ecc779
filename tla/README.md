# GeneralFeatures in TLA+

`src/` is a collection of small C, C++ and VBScript components for Linux and
Windows: interprocess communication, logging, memory, configuration, sockets,
serial port, databases, codecs. They share no state with each other except
where one includes another (the sockets and OCCI code write to a log). What
makes them worth a model is what surrounds them: processes that are killed and
restarted, threads that share a structure with one lock or none, kernel objects
that outlive a process, commands that are launched and not waited for.

This directory holds TLA+ modules that model these components, TLC
configurations that check them on small instances, and TLAPS proofs for
instances of any size.

## 1. Inventory

Each component with its state, its operations, what is hard about it and what
makes it correct. "Modelled" names the module.

### Modelled

| Component | Source | State | Operations | What is hard |
|---|---|---|---|---|
| Server and clients on shared memory | `linux/semaphore/service_client.c` | two semaphores with undo adjustments, one shared segment, a server, clients | start, wait, print, post; type a line, quit; SIGINT, kill, restart | kills between P and V, restart over live clients, undo, ignored results |
| Message queue | `linux/msg_queue/linux_msg.c` | the kernel's queue, its limit and owner, ids kept by processes | Create (3 system calls), Get, Push, Pop, Delete, count | interleaved Creates, stale ids, units of the limit, loss on a wrong size |
| Keep-running scripts | `vbs/test_start.vbs`, `test_stop.vbs` | running processes, creation times | stop previous scripts, stop, start, watch | TASKKILLs that are not waited for, whole-second times, check then act |
| Memory pool | `memorypool/memorypool.cpp` | a global pointer, a ring of slots, a position, a lock inside the pool | Init, Work, Ret, Delete | first use by several threads, copy outside the lock, NULL, use after free |
| Common log | `log/common_log/common_log.c` | per process: configuration and a flag; on disk: log files | lazy configuration, write, trim | nothing is locked: trims, appends and the loading interleave; a crash inside a rewrite; opens, reads and writes that fail unnoticed |
| Windows sockets | `windows/windows_socket.cpp` | Winsock's use count, handles | Init, SetServer, WaitConnect, Connect, Send, Recv, Uninit | error paths that close and clean up for the caller; handles used again; a count shared by all threads |
| Linux sockets | `linux/socket/linux_socket.c` | a connection's two streams | Send, Recv, Close | pieces, interrupted calls, the other end gone, SIGPIPE |
| Serial port | `com_port/com_port.c` | open descriptors, bytes on the line | Open, Close, Read, AnalyseComData | frames cut by reads, a failed read that counts as -1 |
| Debug memory | `debug_memory/debug_memory.c` | a list of block records, the heap | New, Free, Resize, FillUp | malloc failing for a record only; sizes that are not updated |
| Configuration, Linux | `config/linux/basic_config.c` | a text file | read and write a key of a section | searches by substring, truncation and rewrite without a lock |
| MySQL package | `mysql/windows/mysql_database.cpp` | tables of events | read a page, write a group | a LIMIT that is not a page, groups without a transaction, retries |
| SQLite wrapper | `sqlite/sqlite_work.cpp` | a statement at a row | CreateDB, ModifyDB, QueryDB | steps that are not looked at, other processes |
| OCCI wrapper | `oracle/test1/occi_package.cpp` | connections, transactions | create, destroy, two updates | iterations of which one fails, inserts nobody commits |
| Directories, Linux | `linux/directory/directory.c` | a tree of files | delete a tree | the test of `d_type`, links, unknown types, calls that fail unnoticed, entries and links that come meanwhile |
| Device files | `tinyxml/test_1/xml_file.cpp` | lane lines and an XML file | save, parse | lines without a point, one line more than lanes |
| Base64, MD5 | `base64/base64.cpp`, `md5/md5.cpp` | none; the buffer and count of MD5 | encode, decode, forms; update, final | reads past the source, sizes; pieces, padding, carry |

The correctness of each is listed with its runs in section 4. The components
share no state, so no module composes two of them, with these exceptions:
`ServiceClient` and the kernel's semaphores, the two scripts of `VbsDaemon`, the
Windows and Linux transfer loops, which meet on one connection in
`SocketTransfer`, and the searches of `SearchBuffers`.

### Not modelled

| Component | Source | Why |
|---|---|---|
| Semaphore wrappers | `linux/semaphore/linux_sem.c` | single system calls that no program of the repository uses; with the values passed (line 53) `Sem_P` adds one and `Sem_V` takes one, both without waiting, so there is no exclusion to check |
| Configuration, Windows | `config/windows/windows_config.cpp` | calls of the Windows profile functions |
| Directories, Windows | `windows/directory.cpp` | the same traversal as `DirectoryTree`, without the overlapping bits |
| Debug logs | `log/debug_log.cpp`, `debug_log_old.cpp` | predecessors of the common log with fewer steps |
| Curl package | `curl/windows/curl_package.cpp`, `curl/linux/main.c` | one transfer by libcurl |
| Section lock, debug assert | `section_lock/`, `debug_assert/` | one-line wrappers; the lock is part of `MemoryPool` |
| Character conversion, JPEG files, registry and machine information, FFmpeg driver, violation record sample | `linux/transcode`, `windows/transcode.cpp`, `jpg`, `windows/win_*.cpp`, `ffmpeg/ffmpeg_package.cpp`, `linux/msg_queue/violate_data.cpp` | no state of their own, or pure I/O |
| Vendored libraries | TinyXML, SQLite, FFmpeg, OCCI, curl, jsoncpp, the MySQL client | third-party code |

Parts of modelled components that are left out are named in section 3 and in
`PROJECT.json`. Of the 157 thousand lines of C, C++ and headers under `src/` more
than 145 thousand are vendored (headers of FFmpeg, OCCI, SQLite, curl and MySQL,
and TinyXML): the modules model much of the control of the rest, and a small share
of the whole.

`PROJECT.json` lists the hazards, each at its line, with the properties that
cover it, and a note where they cover it in part or not at all.

## 2. Modules

| Module | What it is |
|---|---|
| `SysVSem` | the kernel's part: `semop` with SEM_UNDO, SETVAL, IPC_RMID, process exit |
| `ServiceClient` | `server()` and `client()` on top of `SysVSem` |
| `OneSlotChannel` | what the two promise: a channel with room for one line |
| `ServiceClientProofs` | proofs about `ServiceClient`, with the refinement |
| `MsgQueue` | the message queue and its processes |
| `BoundedFifo` | what it promises: first in, first out |
| `MsgQueueProofs` | proofs about `MsgQueue`, with the refinement |
| `VbsDaemon`, `VbsDaemonProofs` | the two scripts, and proofs about them |
| `MemoryPool`, `MemoryPoolProofs` | the pool and the threads that use it, and proofs |
| `CommonLog`, `CommonLogProofs` | the log files, the processes and their threads, and proofs |
| `WinSocket` | Winsock's count and handles along every path |
| `SocketTransfer` | the transfer loops of both socket libraries on one connection |
| `ComPort` | the serial port and its frames |
| `DebugMemory` | blocks and their records |
| `LinkProofs` | proofs about `WinSocket`, `DebugMemory`, `SocketTransfer` |
| `SearchBuffers` | `strstr` and the like, for the next one and `ComPort` |
| `BasicConfig` | settings in a text file |
| `MysqlEvents` | writing groups of events and reading pages of them |
| `SqliteWork` | a query and those who change its table |
| `Occi` | connections and their transactions |
| `DirectoryTree` | deletion of a directory tree |
| `DeviceXml` | lane lines, saved and parsed |
| `StoreProofs` | proofs about `Occi`, `SqliteWork`, `MysqlEvents`, `DirectoryTree`, `DeviceXml` |
| `Base64`, `Md5` | the two codecs |
| `DataProofs` | proofs about `Base64`, `Md5`, `BasicConfig`, `ComPort` |
| `MC*` | constants for TLC; each `.cfg` is one run |

`MCLinks` and `MCStores` put libraries that share nothing side by side: the
variable `part` says which one a behaviour exercises, the variables of the others
keep their first values. TLC then explores the sum of the libraries' state
spaces, and each property speaks of the variables of one library, so the result is the
same as that of one run for each.

The names of the variables and of the specifications (`SockSpec`, `XferSpec`,
`MemSpec`, ...) are chosen so that these modules can be extended together.

Definitions that carry a comment "mutant" or are described as a deviation
("one slot more than there are") and used by no action are the plausible bugs
that `PROJECT.json` lists under "mutants": put in the place of the definition
next to them, each makes TLC find one property violated.

## 3. Correspondence with the code

### ServiceClient

The server runs `StartServer` (36-42), `SetEmpty` and `SetFull` (43-46),
`MakeSegment` (48-54), then `ServerWait`, `ServerPrint`, `ServerPost` (56-71).
`ServerSigint` is the exit handler, which removes the set; `ServerKilled` is any
other end, which leaves the set and lets the kernel undo. A client is started
with the ids the server prints, chooses item 1 (`ChooseSend`), does its P
(`ClientLock`), types (`ClientEnter`: `gets` into the segment), does its V
(`ClientPost`), or quits. Each semop is one action with all its outcomes: done,
out of range, set removed, interrupted; the program ignores the result, so the
process goes on in each case. Typing is a single step; while it goes on the
client is in `enter`.

Simplified: one server process at a time; segment creation and IPC_RMID as one
step; SIGINT before `semget` is left out (the handler would remove set 0);
end-of-file at `gets` is left out; a client uses the ids of the server that
runs when it starts.

The history variable `intact` says whether the channel still keeps its promise.
It is lost by what the code really does not survive: a client that ends after it
has posted (its SEM_UNDO on both semaphores shifts the token, so that a second
client is let in with the first), a semop out of range (after 32767 messages of
one process), a semop interrupted in its sleep, a new server over live clients,
the end of the server. It is set again by a server that sets up an unused set.
Everything else, kills of clients between P and V that have not posted, the
kills of clients of older sets, and restarts, must leave it whole, and that is
what the properties check.

### MsgQueue

`CreateGet`, `CreateStat`, `CreateSet` are the three system calls of
CreateMsgQueue (39-73, 17-37); every other function is one step because it makes
one system call (`PopMsgQueue` looks at its parameter after `msgrcv`, which
touches nothing shared). The key is the constant of the code, so all processes
meet in one queue. A message is the data pushed and the number of bytes it had;
the kernel counts MSG_BUFF_MAX for each. Calls of msgsnd and msgrcv use
IPC_NOWAIT and fail rather than wait. ShowMsgQueue only prints. `ret` is what the
last call of a process returned; `BoundedFifo` ties each of its steps to that answer,
so that a message may come in, go out or be deleted only for a caller that is told so,
and be lost only to a caller that is told that its call failed.

### VbsDaemon

`Launch` creates wscript.exe and gives it its CreationDate; `ReadClock` is line
13; `QueryPrevious`, `KillPrevious`, `EndPrevious` are StopPrevious; `StopExe`,
`FirstStart`, `Dismiss`, `Watch`, `Restart` follow the main program. A
`TASKKILL` launched is an element of `kills` until Windows carries it out
(`Taskkill`), at any later time. `ExeEnds` lets any program end, `Outside` stands
for programs started by somebody else. Sleeps have no length, except that with
`Prompt` a TASKKILL under way is over when the sleep it precedes is. A run-time
error ends a script (`StartFails`), since nothing catches it.

Left out: the text import of class Process (test_stop.vbs:40-92, which gives the
stop script the same class), reuse of process ids, wscript.exe processes of
other scripts (which StopPrevious kills too), spelling of names.

### MemoryPool

InitMemoryPool is `InitCheck`, `InitMalloc` (which stores the global), `InitTest`
(which reads it again, line 104) and `InitLock`; WorkMemoryPool is
`Enter`, `ReadPos`, `WritePos`, `TakeSlot`, `Leave`; RetStrFromMemoryPool adds the
`Copy`. `Delete` frees and keeps the pointer. Memory is an array of cells per
pool, a string so many cells with the ticket of its call. Where the code uses a
lock that is not initialised, or a freed pool, the outcome is a choice: the
process crashes (`Crash`), or goes on as if the old contents were there; leaving
a lock one does not own may free it or block it for good ("stuck").
`intact` ends with the second creation, the first use of a raw lock and the first
Delete; `roomy` when a string is longer than its slot or a copy comes too late.

### CommonLog

Log_IsPrint is `TestFirst`, `SetFirst`, then Log_Init's three stores (`LoadDir`,
`LoadSize`, `LoadPrint`) and `TestPrint`, or `LoadNothing` when the file is empty or cannot
be looked at or read; Log_Write is `GetLogPath`, `GetFileSize`, `ReadFile`, `Truncate`,
`WriteFile`, `AppendEntry`. What may fail does: the stat of line 248 and the `fopen` of
line 203 (`TrimFails`: nothing is trimmed), the `fopen` and `fread` of lines 191-193
(`ReadFile` with fewer entries than there are, and `Garbage` for the rest), the `fwrite` of
lines 205 and 294-297 (`Written`: a part, maybe with a cut entry), the `fopen` of line 290
(`AppendFails`). `Crash` ends a process at any step. An entry is one unit long; an append
is atomic (one buffered `fwrite` flushed by `fclose` to a file opened with "a").

The history `log` is what a file should hold: entries are added to it, and a trim takes
the older half away. It starts anew from the file when the file has been damaged, by one of
four things: a trim into which another write has come, or which has not read all of
its file (`stale`), a write cut short, and a death between truncation and write (`Savers`).
`untrimmed` counts the trims that failed. Left out: formatting, Log_ParseConfig,
Log_CheckDirectory, the order in which the macros evaluate their arguments; config.ini
exists (without one a call does nothing) and stays as it is.

### WinSocket

Socket_Init is `Startup`, then `WrongVersion`, `NoSocket` or `OpenSocket`;
`SetServer`, `Accept`, `Connect` and their failures, and `Uninit` are the other
functions. Each function is one step since it changes Winsock only once, except
Socket_Init, whose WSAStartup and socket() others may come between. `WSACleanup` is
Winsock's: at zero every socket of the process is gone. A value of SOCKET may be
given out again once closed, so that an outdated handle can be somebody else's
socket. How callers end is theirs to choose: `Uninit` in any stage, or the two ways that
keep the count (`CloseAccepted`, `Forget`). `balanced` remembers whether
all have chosen what the library can bear; only then do the properties hold,
since `Socket_Uninit` of an accepted or failed socket takes away somebody else's
Startup (line 207).

### SocketTransfer

`BeginSend`, `SendPiece`, `SendFails`, `SendToNobody` are SendSocket and
Socket_Send; the same for receiving. `kind` tells the three variants apart: Windows
asks for 256 bytes at most and stops at the end of the stream with a short count;
Linux asks for all of the rest and returns -1; only a program that has been through
InitSocketServer ignores SIGPIPE, a pure client is killed. A unit of data carries
its message and place. `torn` is set when a call fails in the middle of a message: the
callers are not told how far it came, so nothing can be said of what
arrives later.

### ComPort

`port` is what g_port_handle stands for: nothing, an open descriptor, or the number of a
closed one, since CloseComport does not reset it (165-175). On Linux a second OpenComport
forgets the first descriptor. `Receive`, from an open port, is one ReadComport, with the loop of ReadData, and AnalyseComData on what
it returned. `Returned` gives what a read that finds nothing makes of the count (line
211). UstrUstr is not in the repository and taken as the search its name and use
say; a frame's marks are shorter than in
the code, and its contents are one byte that is in no mark.

### DebugMemory

One action per function, ResizeMemory as `Shrink` and `Grow`; `ok` says whether
malloc gave a record. `text` is what a program may expect in its block. A block
without a record brings the program down when it is used (`UseUnrecorded`). A
program stays within what it has asked for. Left out: the reference marks (140-161),
which nothing calls.

### BasicConfig

A text is a sequence of characters, "nl" for a line end. `GetPrivateProfileString` and
`NewText` follow the two functions search by search; writing is `LoadFile`,
`TruncateFile`, `SaveFile`, with `WriteDies` at any point. What a file says by its lines is
defined apart from the searches, for comparison: `LineStarts` and `Line` cut it into
lines, `Headers` and `IsIn` give the section of a line, `Gives` and `Setting` the value of a
key. The source and target of the
`sprintf` of lines 195-203 overlap; the model has what the build of the repository's
Makefile (g++ -g) does: the text goes on behind what is there. Left out: the trimming of
blanks (46-57), buffers of 32 to 256 bytes, GetPrivateProfileInt.

### MysqlEvents

Mysql_WriteEvent is `BeginStore`, then `StartInsert` and `CommitInsert` or
`InsertFails` per event; a failure may come after the server has committed. The
id is taken when an INSERT starts, the row shows when it commits. Mysql_ReadEvent is
`ReadPage`; its query has no ORDER BY, and the model has the order of the primary key in
which InnoDB reads without one.

### SqliteWork

CreateDB and ModifyDB are `ModifyDB`, one sentence at a time, as sqlite3_exec
does them. QueryDB is `FirstRow` or `NoRow`, then one `LoopTurn` per turn of the
loop of line 72: the column first, then a step. `Step` has SQLite's automatic reset
past the last row. Columns have at most 255 bytes, which `value_buf` holds;
`LongCells` are those too long for the caller's buffer (line 75).

### Occi

`UpdateSql` is the INSERT without commit; OCCI_UpdateMultiSql is `BeginMultiSql`,
one `Iteration` per row, `MultiSqlCommit` or `MultiSqlFails`. Row locks, what a
transaction sees, commit and rollback are Oracle's. Left out: the environment, the
pool, reading of results.

### DirectoryTree

The recursion of DeleteDirTree is the sequence `calls`, one element per call with the
entries readdir has yet to give; `opening` is the directory a call has been made for and
not opened yet, since the test of `d_type` (line 102, `EnterDir`) and `opendir` (line 98 of
the inner call, `OpenDir`) are two steps. `IsDir` is the bit test; an entry in `Unfilled` has
the type 0 that some file systems give. `OpenFails` is an `opendir` that fails, for a link
that leads nowhere or to no directory as for want of permission or descriptors: the
outermost call returns false, the false of an inner one is ignored. `ReadFails`, and
`RemoveEntry` and `LeaveDir` without `ok`, are the other calls that fail; `kept` and
`refused` remember what failed though it need not have. Links are removed as entries, and
followed when the directory to be deleted is itself one.

Another process makes entries (`MakeEntry`) or moves a directory away and leaves a link to
another one in its place (`Swap`), at any step. Simplified: it swaps directories in which no
call is, and takes nothing else away; `d_type` is the type an entry has when it is
tested, though readdir may have read it earlier, which makes the gap longer but not
different; paths fit PATH_MAX. ScanDirTree changes nothing and is left out.

### DeviceXml, Base64, Md5

`Element` and `ParsedLine` are what SaveDevicedataXml and ParseDevicedataXml make of a lane
line. Base64 has the code's arithmetic on bytes; the source grows byte by byte so that TLC
visits every source up to a length. Md5 has MD5Update and MD5Final
byte by byte with the block and word sizes as constants; MD5Transform is "a block
has been digested". Words are as wide as on the platforms on which UINT4, an `unsigned
long` (md5.h:24), has 32 bits; with 64, the carry, the shift of line 50 and the rotations of
MD5Transform are not those of MD5, and the model says nothing. Left out of DeviceXml: the
area and the kakou line, which have a fixed form, the lists of attributes of groups and
settings, and a file cut behind its declaration, which loads and has no root element, so
that the program that parses it ends (146-147).

## 4. Runs

| Run | Checks | Bounds |
|---|---|---|
| `service_client` | `TypeOK`; `SlotExclusion`: one process in the segment; `TokenConserved`: semaphores and holders add up to one; `IsOneSlotChannel`: lines are printed once, in order, before the next client | 2 clients, 2 lines, SEMVMX = SEMAEM = 2, 2 segments, 2 sets |
| `service_client_live` | `PostedIsPrinted`, `WaitingClientGetsIn` | 2 clients, 2 lines, 1 start |
| `msg_queue` | `TypeOK`; `PushWithinCapacity`; `IsFifo` | 2 processes (a user and root), 2 queues, sizes 4 and 6 for 512 and 520 |
| `msg_queue_small` (violated) | `RefusedBufferIsSmall`, the text of line 156 | the same |
| `vbs_takeover` | `TypeOK`; `PreviousAreStopped`; `SurvivorsSameSecond`; `NoSecondCopy` | 2 start scripts, 1 stop script, 1 program, 3 seconds |
| `vbs_keep` | `KeepsRunning` | 1 start and 1 stop script, 2 programs, one may fail to start |
| `vbs_all_time` (violated) | `KeepRunningAllTheTime`, the text of test_start.vbs:3 | 1 start script, 2 programs |
| `vbs_stop` (violated) | `StopsForGood`, the text of test_stop.vbs:3 | 1 start and 1 stop script, 1 program |
| `memory_pool` | `TypeOK`; `InTurn`; `StringStands`; `CallReturns` | 2 threads, 3 calls, 2 slots, sizes 1 and 2 |
| `common_log` | `TypeOK`; `KeepsNewest`; `BoundedSize`; `ObeysConfig` | 2 threads of a process, 5 entries, limit 1, trims of 2, 1 crash, 1 failed trim of each file |
| `links` | `StartupsBalanced`, `HandlesMatchSockets` (WinSocket); `WholeMessages`, `TransferEnds` (SocketTransfer); `FramesParsed` (ComPort); `RecordsMatch`, `ContentsKept` (DebugMemory) | 3 threads, 3 handles; messages of 2 units, 1 and 2 of them; 3 frames, reads of 12 bytes by 3; 2 pointers, 3 addresses, sizes 1 to 3 |
| `stores` | `SettingsStand`, `ReadFindsSetting` (BasicConfig); `StoredAtLeastOnce`, `NoRowMissed` (MysqlEvents); `RowAskedFor` (SqliteWork); `OnlyWholeGroups` (Occi); `DeletesTheTree` (DirectoryTree); `DeviceComesBack` (DeviceXml); `DecodeInvertsEncode`, `FormsKeepText` (Base64); `PiecesDoNotMatter` (Md5) | see the head of `MCStores` |

Why the bounds are enough to mean something:

- `service_client`: with two clients one can wait, or type, while the other is
  let in wrongly, killed or restarted; limits of 2 are reached by the second message,
  so that the ERANGE outcomes occur; two segments and two sets are needed
  for a client that survives a restart.
- `msg_queue`: 4 and 6 keep the inequality of 512 and 520 (the limit for n
  messages exceeds n messages) so small that a count of 1 is precise and a count of 2
  is not: both sides of `PreciseCount` occur. Two processes with different users
  make IPC_SET succeed and fail; MSGMNB = 10 lies between one and two messages' limits. The
  receive size 5 is beyond the message size, so the lossy pop occurs as well; that
  the queue loses nothing without it is the theorem `QueueIsFifo`, which covers
  both cases.
- `vbs_*`: the comparison of seconds has three cases, earlier, same, later,
  which three seconds give to any two scripts.
- `memory_pool`: with two slots the third call returns to the first one; two
  threads already race for the creation, the lock and a slot.
- `common_log`: a limit of one entry makes every second write trim. Two threads
  race for the loading, and in a trim; what another process could do to
  the file, the second thread does too. Reads, writes and opens fail as often as they
  like, trims once for each file. `BoundedSize` allows four entries as long as none has
  failed, and five can exceed it; after a failed trim it allows the five, so of that case
  only the proof says anything.
  `DeleteAssumption` says that a trim may remove an entry of each thread; the code's
  DELETE_MAX of 10 MB is that of any number of threads a process has, with entries of
  at most some kilobytes.
- `links`: two threads are enough to end each other's Winsock, the third accepts a
  socket. A message of two units is cut in every way by a limit of one; one end sends
  twice, so that the second message follows a torn or whole first one. A call of
  ReadComport takes two frames and two bytes of a third. Three addresses let each of
  two blocks grow.
- `stores`: the key "o" is part of key "to" and stands in two sections, the file made by
  hand has "to" first; groups of two events and one, pages of two rows: page 1 already asks for twice its
  rows; row_pos from the first row to beyond the last; a directory with every type of entry that is
  treated differently (a link out of it, a socket, a directory of unknown type, empty or
  not), one of which can be swapped for a link, and a file that comes meanwhile; sources of 0 to 7 bytes (every remainder by 3; an e-mail line that is
  exactly full, and more) over bytes with all bits clear, set, and mixed; blocks of four bytes and words
  of 64, so that 40 bytes run over the low word of the count several times.

CHECK_DEADLOCK is off in all runs: each bounds starts, calls or
entries and stops when they are used up, and the real processes may all wait (a
server without clients, a user at the menu).

`service_client_live` and the other liveness runs use no symmetry.

### What holds only on a condition

The code does not keep every promise one would make for it. Where it does not, the
property says exactly what it does keep, and a comment at the property names the line:

- StoredAtLeastOnce: an event is stored at least once and at most as often as its group
  was tried; not exactly once.
- NoRowMissed: reading page by page misses no row; pages overlap, and one may be longer
  than its group from a certain page number on.
- FramesParsed: exactly the frames that one call has returned whole.
- DeletesTheTree: when a link takes a directory's place, what it leads to is deleted. Without
  one, and when true is returned, what is left is what could not be opened, read or removed,
  sockets and block devices, directories of unknown type that are not empty, what was
  added, all that these stand in, and what a link leads to, emptied, when the
  directory to be deleted is a link.
- KeepsNewest: until the next damage; the damage itself (lines 191, 203, 205, 249) is in the model.
- BoundedSize: with one entry more for each trim that failed.
- DeviceComesBack: points always; lanes and types if every line has a point.
- FormsKeepText: the e-mail size is one too large when the last line is full.
- RowAskedFor: for a row that exists, and no step that fails on the way.
- SettingsStand, ReadFindsSetting: for texts in which the searches find lines, and writes that
  do not overlap.

Some properties speak only while a flag says that the code has not left what it can bear.
The steps that turn the flag are actions of the model like the others, and what the
properties show is that nothing *else* breaks the promise, and where the model can tell, when
it holds again. They do not show that the code survives those steps; it does not:

- `intact` (ServiceClient): a client that has posted ends (SEM_UNDO on both semaphores),
  a semop out of range or interrupted, a server that starts over live clients or ends.
- `intact` (MemoryPool): the race of two first calls, a lock used before it is one, Delete.
  `roomy`: a string longer than its slot, or a copy that comes after the slot was given out again.
- `early` (CommonLog): a call that overtakes the loading of the configuration, or finds it cannot be loaded.
- `balanced` (WinSocket): Socket_Uninit of a socket the library has already closed, or accepted.
- `torn` (SocketTransfer): a transfer that failed in the middle of a message.
- `apart`, `Clear` (BasicConfig): two writes at once, one that dies half-way, and texts in which
  a search finds something else than the line it is for.
- `noise` (ComPort): a byte lost on the line.

### Violated properties

Three runs show that the code does not do what its texts say; `PROJECT.json`
gives the findings:

- `linux_msg.c:155` refuses exactly the buffers *larger* than the 512 bytes that every
  message has, after the message has been taken off the queue, and says that
  "buff_size is small". In the run a message of two bytes is lost to a caller with room
  for more than any message has.
- `test_start.vbs:135`: a start script launched at the very end of a second kills
  itself, because its own CreationDate is earlier than the second it
  reads; the programs do not "keep running all the time".
- `test_stop.vbs:28`: a start script that sleeps before a start can start the
  program after the stop script has looked for it.

### Fairness

- `ServiceClient!LoopSpec`: the server's loop takes its step when it can (a process
  the kernel schedules). `FairSpec` adds that a client that was let in finishes
  its line (the user presses Enter) and runs to its V, and that a sleeper on a semaphore that
  is free again and again is let in (strong fairness: Linux serves the
  sleepers of a semaphore in order of arrival).
- `VbsDaemon!FairSpec`: Windows runs each script and each TASKKILL, and the
  user closes the message box of line 32; without that the script waits there
  for ever.
- `SocketTransfer!XferFairness`: the kernel completes a send or recv that it can
  complete, also for an end whose peer has gone. `TransferEnds` needs nothing of the
  other program.
- `MemoryPool!FairSpec`: every thread in a call is scheduled. Weak fairness is enough
  for the critical section since the number of calls is bounded.

No fairness is assumed for users who start, quit or kill, for programs that end,
or for calls that begin.

## 5. Proofs

All are for every value of the constants: any number of processes, scripts,
programs, messages; any sizes that satisfy the named assumptions.

**ServiceClientProofs.** `TypeCorrect`; `TokenIsConserved`; `SlotIsExclusive`;
`IsChannel` (`Spec => IsOneSlotChannel`). `TokenConserved` is not inductive:
when a client ends, what its SEM_UNDO adds must be known. The invariant `IInv`
therefore adds `LedgerInv` (the adjustments of a client add up to the token it
holds: one inside, none outside), `SetUpInv` (between the two SETVALs
semaphore 0 and the adjustments left by older clients add up to one),
`SegmentInv` (a client listens to the newest segment exactly when it uses the newest
set), `ServerInv`, and `ContentInv` (a posted segment holds a line). The
refinement maps `writer` to the client inside, `box` to the segment from the client's V
until it is printed, and maps each step to a step of `OneSlotChannel` or to a stutter.

**MsgQueueProofs.** `TypeCorrect`; `CapacityHolds`: the inductive `LimitInv`
bounds the kernel's limit by what was asked for, in the unit in which it was
asked for, and the arithmetic of `FitsCount` turns it into messages;
`QueueIsFifo`: each step is a step of `BoundedFifo` or a stutter, with the answer
the caller gets; it needs `NoQueue`, that there are no messages without a queue.

**VbsDaemonProofs.** `TypeCorrect`; `PreviousStopped` and `SurvivorsShareSecond`
from `ClockInv` (nobody was created or has looked at the clock in the future)
and `CaughtInv` (a live script of an earlier second is on the list or has a
TASKKILL on its way); `OneCopyEach` from `CopyInv`: a start script has no copy of a
program it has still to come to, or has found missing. It needs no assumption
about how late a TASKKILL comes.

**MemoryPoolProofs.** `TypeCorrect`; `SlotsInTurn` from `TurnInv`: while the pool
is intact there is one pool, its lock has the owner that is inside, the position is that of
the last ticket, and the one thread between reading and writing it has read the
right one. `StringsStand` from `StandInv`: a slot's holder is the last ticket that
comes to it, every ticket that is not yet copied belongs to one thread, and a
slot whose holder has copied has its string in all of its cells.

**CommonLogProofs.** `TypeCorrect`; `FilesAreBounded` from `SizeInv`: a file, with an entry for
each thread that has yet to append without another look, stays below the bound and the
trims that failed (`RoomForAll`), and a thread that trims has found no more than that
(`FoundInBound`); a trim takes at least as much away as threads may add, which needs
`DeleteAssumption`. `NewestAreKept` from `TextInv`: what a thread has found and read is what the
file has, unless it is `stale` (`FoundStands`), and at most one thread has the whole of an
emptied file in its memory (`OneSaver`). The lemmas `RoomStays` and `TextChanges` say it once
for every step that changes a file. `ConfigIsObeyed`, an action
property, from `ConfInv`: a thread that did not go on without the configuration has, at each
of its steps, found the directory, the size and the flag of config.ini as far as the
loading has come.

**LinkProofs**, WinSocket. `StartupsAreBalanced` and `HandlesAreSockets` are inductive
together with the types: the count matters for the handles, since Winsock's end closes
them all. DebugMemory: `RecordsAgree` and `BlocksKeepContents` from `MemInv`: a record has
its block's length, an allocated block is held by one pointer, and a pointer's block begins
with what was put there. SocketTransfer: `MessagesAreWhole`, for any size of a message, any
sizes of the pieces and any number of messages. `WholeMessages` says nothing of what is
under way; `XferInv` adds `CallInv` (only a call that is being made has come part of the way)
and `FlowInv`: as long as nothing is torn, the units read and those in the stream are the
units written, and each has its place in the numbering of all units.

**StoreProofs**, Occi. `CommitsWholeGroups` from `OcciInv`: a lock has one holder, a closed
connection holds none, an open one at most its own insert, and one inside OCCI_UpdateMultiSql
only rows it has named, or its insert. SqliteWork: `AnswersRowAskedFor` from `ScanInv`
(as long as no step has failed, the statement is at the row the turn of the loop is about, in the
rows it began with) and `AnswerInv`. MysqlEvents: `EventsAreStored` and `PassMissesNoRow` from `EventsInv`: `IdInv` (an id is
given once), `CountInv` (of a group, an event is stored at most as often as the one before
it: this is what makes an event of a group that was stored at least once, not only the
first one), and `PageInv` (rows only move back, so those of the first pages have been
seen). The rank of a row is a cardinality, and the lemmas about it count finite sets.
DirectoryTree: `DeletesWholeTree`, for any tree, from `TreeInv`: `FramesInv` and `OpeningInv` (the
calls are for directories the deletion can reach, and what is opened next is an entry of the
last one that was taken for a directory), `OutsideInv`, and `QuietInv`: while no link takes
a directory's place, the calls are for directories each in the one before it (`CallsApart`),
what they have yet to deal with is all there (`AllThere`), and of the rest there is exactly what
is left in the end (`Done`). DeviceXml: `DevicesComeBack` from `DeviceInv`, a file that can be read is the one
that was saved last; the rest is what the two conversions do to a line.

**DataProofs**, Base64. `EncodingComesBack` needs no invariant but the type: the four
characters of three bytes give the three bytes back (`QuadBack`), each group is encoded apart
(`Encoded`) and decoded apart (`DecodedBack`). `FormsSayTheText`: `FlattenSeq` of pieces has each
piece at its place (`IsJoined`, `PieceAt`, by induction on their number), so the URL form is
as long as it says and a reader finds the character of each piece; in the e-mail form `Breaks` counts
the breaks before a character and `Column` gives its place in its line. Md5:
`PiecesAreOneMessage`. `Absorbed` says that the buffer holds the rest of the message, the count its
length in bits and the blocks its whole blocks; it is kept by an update of any size (`Md5Inv`),
and MD5Final on a context that has absorbed a message digests the padded message.

BasicConfig: `ReadsFindSetting`, in any text: where the searches find what they look for, the
section found is the one `IsIn` means (`SectionIs`), the key found is the first line of it
(`KeyIs`), and a read gives the value of this line (`ReadIsSetting`). `SettingsAreKept`: a
text that has got one more line has the lines of the old one, the later ones moved
(`WithAdds`); if the line is no header it leaves every line in its section (`SectionsKept`) and
every other setting as it was (`SettingKept`, `SettingMade`). Each of the four ways of writing
(a new section, the place of the old line, before the next section, the end of the file) and a new
file come down to that, the second by taking the old line out of what both texts have in
common (`NewTextPuts`). The invariant `CfgInv` adds to the types that, as long as `apart` holds,
one write is under way at a time, that what it will write says what was given last and its own
setting, and that the file is empty while it is being written. The theorem assumes that values
are of one line: a value with a line end in it is two lines of the file, and the second one can
be a header or another key, which changes other settings. No value of the runs is such a one.
Nothing else is asked of values; they may hold "[" or "=", and then `Clear` says whether the next
write can still find its section.

ComPort: `ParsesWholeFrames`, for any bytes between the marks (they differ from them),
sizes of reads and numbers of frames, from `LineInv`: without noise, what waits on the line is
what follows the first so many bytes of all the frames (`OfStream`), and what has been parsed
are the frames that one read returned whole, each once and in order (`FramesOf`). The recursion of AnalyseComData is a
function on the places of the data, followed from its end (`RecursionBackwards`).

**Assumptions on constants**, each named in its module and evaluated by TLC on the runs:
most say that bounds are numbers, that sizes are positive and that names differ. Of the others:

- `DirectoryAssumption`: what holds a node is a directory, and no two different nodes hold each
  other, so there is no cycle. Links may lead anywhere, any entries may be of unknown type, and
  the tree may have any size.
- `ConfigAssumption`: sections and keys are words, without line ends, brackets and equals signs;
  the values and the first text are any sequences of characters.
- `EventsAssumption`: a group does not name an event twice, and two programs name different events.
- `TransferAssumption`: the ends come in pairs.
- `Md5Assumption`: the length field is shorter than a block, and the counter overflows at a
  multiple of a block's bits, as 2^32 does.
- `SizeAssumption`: a message struct is at least as large as its text, and one message fits
  into a queue of the system's default limit.
- `DeleteAssumption` is explained in section 4.

**Induction.** The library's induction theorems take an operator as a parameter, which no
installed prover instantiates. `LeastElement` and `SetInduction` say the same of *sets* of numbers
(a set that has 0, and n + 1 with n, has all numbers); they are proved from the well-foundedness of
inclusion of finite sets, and every induction over lengths, places and counts uses them with the
set of numbers for which the claim holds.

**Only model-checked**: the liveness properties `PostedIsPrinted`, `WaitingClientGetsIn`,
`KeepsRunning`, `CallReturns` and `TransferEnds`, since fairness and ENABLED are beyond the prover. Every
other property of a passing run is the statement of a theorem.

## 6. What could follow

In this order: the connection set-up of the Linux sockets with the descriptors it must not
lose; two processes of two threads in `common_log`; the semaphore wrappers on `SysVSem`, once a
program uses them.
