# ssh2-python: a TLA+ model of the bindings and of the part of libssh2 under them

ssh2-python is a Cython binding (`src/ssh2/*.pyx`) to libssh2, which it bundles
(`src/libssh2`). Its value lies in two things that are hard to test: it can be
used *non-blocking*, where any call may answer `LIBSSH2_ERROR_EAGAIN` half way
and is called again later, with calls of other greenlets or threads in between;
and it ties the life of C objects to the life of Python objects. This
directory models those two things, and the algorithms under them that have a
life of several calls (framing of received packets, pipelined file transfer, the
collection of known hosts), checks the models with TLC and proves the main
results about both halves of a channel, about openings and requests, files, known
hosts, the lifetime of objects and agent authentication with TLAPS.

Paths below are relative to the repository root `src/`.

## 1. The system and its parts

| Part | State | Operations | Interacts with |
|---|---|---|---|
| **Session** (`ssh2/session.pyx`, `libssh2/src/session.c`) | blocking mode, timeout, the lists of channels and listeners, the packet queue, the one outgoing packet slot, states of half-done operations (`open_state`, `userauth_*_state`, `free_state`), last error | handshake, userauth_*, open_session, direct_tcpip, forward_listen, sftp_init, agent_auth, last_error, set_blocking, disconnect | all other parts; the socket |
| **Channel** (`ssh2/channel.pyx`, `libssh2/src/channel.c`) | both windows, EOF and close flags of both sides, a state machine per operation (`write_state`, `read_state`, `adjust_state`, `flush_state`, `close_state`, `free_state`), `read_avail` | read, write, flush, send_eof, wait_eof, close, wait_closed, receive_window_adjust2, requests (exec, pty, ...) | the transport; packets of its channel arrive in calls made for any channel |
| **Transport** (`libssh2/src/transport.c`, `packet.c`) | the outgoing slot: a packet that was encrypted and not fully sent; the bytes of a packet that has not arrived completely; the queue of received packets | `_libssh2_transport_send`, `_libssh2_transport_read`, `_libssh2_packet_add` | the socket; a retry is recognised by the address of the packet |
| **SFTP**, **SFTPHandle** (`ssh2/sftp*.pyx`, `libssh2/src/sftp.c`) | a channel, request ids, open handles, read-ahead and write pipelines | open, opendir, read, write, close, stat, ... | a channel of their own |
| **Listener** (`ssh2/listener.pyx`) | a queue of forwarded channels | forward_accept, forward_cancel | the session |
| **Agent**, **PublicKey** (`ssh2/agent.pyx`, `pkey.pyx`, `libssh2/src/agent.c`) | a Unix socket, the list of identities | connect, get_identities, userauth, disconnect; `Session.agent_auth` | the session's publickey authentication |
| **PublicKeySystem** (`ssh2/publickey.pyx`) | a channel, request state | add, remove, list_fetch, shutdown | a channel of its own |
| **KnownHost** (`ssh2/knownhost.pyx`) | a list of hosts; entry objects that point into it | addc, checkp, delete, get, readline, readfile, writeline, writefile | files |
| **Helpers** (`ssh2/utils.pyx`, `ssh2/ext/find_eol.c`) | none | find_eol, handle_error_codes, wait_socket | none |

### What is hard, and what makes each part correct

* *EAGAIN and retry.* Every operation is a state machine whose state lives in
  the channel or the session and not in the call. The retry must complete what
  the first call began, once; a retry with other arguments, or by somebody
  else, must not be booked on the wrong account.
  Correct means: no byte lost, doubled or reordered; counts exact; both sides
  agree on the windows.
* *Interleaving.* All channels of a session share one outgoing slot, and
  whoever reads the socket files the packets of all channels. Correct means:
  channels do not influence each other except by waiting.
* *Loss and refusal.* The connection drops, the peer closes, a timeout ends a
  blocking call. Correct means: every client learns of it, nothing is reported
  as done that was not.
* *Progress.* The window must be widened in time; a channel that is closed
  must get closed; a wait must come back.
* *Deallocation.* The garbage collector may tear down wrappers in any order.
  Correct means: nothing is used after it was freed, all is freed, each object
  has one owner.
* *Answers out of order.* Replies for all channels and for all SFTP requests
  come over one socket, late, in any order and after their caller has given up.
  Correct means: each answer goes to the request it answers, is taken off
  its queue once, and nobody waits for an answer that cannot come.
* *Pieces.* Packets and requests are cut anywhere by socket and window. Correct
  means: the cut makes no difference to what is delivered.
* *Partial failure.* `agent_auth` has five ways to end. Correct means: each of
  them frees the agent once and closes only what it opened.

`PROJECT.json` lists every hazard with its line and the properties that watch it.

## 2. Modules

| Module | What it is |
|---|---|
| `ByteStream` | abstract specification of `Channel.write`: bytes arrive in order, a returning write reports exactly what arrived |
| `ChannelWrite` | write, send_eof and close of all channels of a session over the single packet slot |
| `ChannelWriteRefinement` | the refinement mapping from `ChannelWrite` to `ByteStream` |
| `ChannelWriteProofs`, `ChannelWriteRefinementProofs` | proofs about `ChannelWrite`: its invariants, and that it implements `ByteStream` |
| `ChannelRead`, `ChannelReadProofs` | read, flush, wait_eof, wait_closed and window adjustment of a channel, with the peer |
| `Lifetime`, `LifetimeProofs` | who frees what, under reference counting and the cyclic collector |
| `AgentAuth`, `AgentAuthProofs` | `Session.agent_auth` and the Agent class beside other threads |
| `FindEol` | `find_eol` and the loop of its client |
| `Requests`, `RequestsProofs` | opening channels and listeners, and requests on channels, by several greenlets of a session |
| `TransportIn` | taking packets out of the received stream, for every kind of cipher and MAC |
| `SftpFile`, `SftpFileProofs` | read, write, seek and close of the files of an SFTP session |
| `KnownHosts`, `KnownHostsProofs` | the collection of known hosts, its entry objects and its file |
| `MC...` | instances for TLC: model values, uses, symmetry |

### ChannelWrite

One step is one call of a libssh2 function; steps of different writers
interleave freely, which covers greenlets and threads that release the GIL
around the call (libssh2 itself is not reentrant for one session, so a session is
used by one thread at a time, and the call is the unit).

* `pc`, `pos`, `off` are the loop of `Channel.write` (`ssh2/channel.pyx`): how
  much was reported, and where `_buf` points. `write_state`, `bufwrite`,
  `window`, `leof`, `lclose`, `rclose`, `close_state` are fields of
  `LIBSSH2_CHANNEL`. `packet` is `session->packet`: `odata` is the address by
  which `send_existing` recognises a retry. The packet of a write or a close lies in
  the channel, that of an EOF on the stack, where two calls may find the same
  address; `StackAddr` is the set of addresses.
* `WriteStart` and `WriteResume` are `_libssh2_channel_write` with
  `write_state` idle and created, including the draining of the socket;
  `WriteNoWindow` and `WriteRefused` its early returns. `TransportSend` has
  three answers: sent, EAGAIN, failed. `SendEof`, `CloseBegin`, `CloseSend`,
  `CloseWait` and `CloseWaitAgain` are the stages of send_eof and close.
* `WouldBlock` is `BLOCK_ADJUST`: in blocking mode EAGAIN stays inside the
  call, unless the timeout of the session ends it.
* Environment: `Grant` and `PeerClose` are the peer, `Drop` the loss of the
  connection. Byte `i` of writer `w` is `<<w, i>>`, so a mixed-up stream shows.

Abstracted: encryption and framing (a packet is sent or not), `write_stderr`
(the stream number changes nothing in the control), key re-exchange.

### ChannelRead

A call is split into the stages between which the channel may change; `pc`
names the stage. `window` and `read_avail` are the channel's books,
`peerWindow` the peer's. `ReceiveWindowAdjust` builds the packet with the
amount of its call, but books the amount of the call that sees it sent, as the
code does. `TransportRead` takes one packet off the wire; it happens in the
drain of a read, in a wait, or while this client is elsewhere, in a call for another
channel. `window`, `adjust_queue` and `flush_refund` are `uint32_t` in the code
and wrap at `Wrap` in the model. The expansion of the window in `ReadExpand`,
the loop over queued packets in `ReadCopy`, the masking of EOF in `ChannelEof` and the refund
of flush in `Refund` are translated with their conditions.

Abstracted: the handling of extended data other than NORMAL; one channel is
modelled, the others only as readers of the socket.

### Lifetime

`kind`, `ptr`, `ref`, `home` are the wrappers, `alive`, `freed` the C objects.
Every constructor of a wrapper is an action, and so is every call that frees:
`HandleClose`, `ForwardCancel`, `Shutdown` and the five destructors.
`done = FALSE` stands for EAGAIN. A destructor runs when nothing refers to the
wrapper; `GcFind`, `GcClear`, `GcBreak` are CPython's collector: it finds a set
of wrappers that only dead cycles refer to and clears their references
(`tp_clear`) one by one, in any order. A call that is given a freed object is
recorded in `misused`.

`lost` is `socket_state` = DISCONNECTED, which the receipt of the server's
SSH_MSG_DISCONNECT sets (`packet.c:778`), in whichever call reads it: `Disconnected`, and
within `session_free` the part `early` of the lists that was freed before it.
A socket that fails or is closed without that message leaves `socket_state` as it is. The SFTP
session goes with its channel when `_libssh2_channel_close` runs its `close_cb`
(`channel.c:2718`, `sftp.c:756`), and `_libssh2_channel_free` closes the channel only while
`socket_state` is CONNECTED (`channel.c:2834`): hence the condition in `WithChannel`.

Blocking mode is taken without a session timeout (the default, 0), so that
`use.blocking` implies that calls run to their end. `Channel.close` of a
channel that `get_channel` wrapped would free the SFTP session at once; it is not an action.

### AgentAuth

`pc` walks through `init_connect_agent` and `agent_auth`; the actions after it
are the methods of Agent. `file` is the descriptor table of the process, which other threads use too (`OtherOpen`,
`OtherClose`). `pending` is `session->userauth_pblc_state` with its identity:
it outlives a call that ran into the timeout. `identity` is `agent->identity`, which
`libssh2_agent_userauth` sets only when no authentication is under way (`agent.c:896`) and
`agent_sign` reads (`agent.c:453`). Whether a call comes to the signature is left open
(`signs`): the server may refuse the key before, and a resumed call may come after it.
The second attempt with the key's default algorithm (`userauth.c:1754`) is part of the call.
`Agent.connect` of an agent that is connected opens another socket (`reconnect`). The
negative answer of `libssh2_agent_get_identity`, for which `auth_identity` has a branch, is
never given by the bundled libssh2.

### FindEol

`CFindEol` is the C function on a sequence of bytes; `TakeLine` and `TakeRest`
are the loop of `tests/test_utils.py`. `Line(b, k)` is the reference
definition, `front` the byte in front of the buffer. The example in the docstring, `(5, 6)` for `b'line\nline2'`, is not
what the function returns (`(4, 1)`), nor what the tests expect; the model
follows code and tests.

### Requests

A caller has a script: an opening, then requests on its channel. `nb` holds the
states idle, created, sent of the machines; that of an opening (`open_state`,
`direct_state`, `fwdLstn_state`) belongs to the session and that of a request
to its channel, which is what makes calls of other greenlets dangerous between
EAGAIN and the retry. `Call` enters a function and makes its packet, or resumes
it; `Sent`, `SendBlocks`, `SendFails` are the transport; `AskTakes`,
`AskFindsNone`, `Read`, `AgainFindsNone`, `ReadBlocks`, `ReadFails` are
`_libssh2_packet_requirev`: look into the queue, read one packet, look again.
`Take` is what each function does with its reply, `Fail` and `OpenError` their
error paths. `asked`, `got`, `results`, `given_up` and `cut` record
who asked and was told what; the code has no such variables. The server
(`Answer`) keeps the order within a channel only.

Abstracted: contents of requests, the two timers as one `timeout` fault.

### TransportIn

A byte is its position in the stream, and whether it was decrypted; the
properties thus see every misplaced, doubled or undecrypted byte. The peer's
packets have the lengths that `_libssh2_transport_send` gives them (`Padding`,
`FrameLen`). `Recv` is the filling of `p->buf` with what the socket gives, `Short`
the condition under which the code asks for more, `Header` the first block with
the packet length, `Body` and `BodyFull` the copying and decrypting of what is
there, `FullPacket` the MAC, the remaining decryption and the moving of the
data, `PacketAdd` and `PacketAddBlocks` the call of `_libssh2_packet_add`, which
may answer EAGAIN, whereupon the next call starts at point 1 (`jump`).

The ways of protection: none, encrypt-and-MAC, encrypt-then-MAC, integrated MAC
with the length in clear (AES-GCM) and full packets (ChaCha20-Poly1305).
Abstracted: the ciphers (decryption of the right bytes in the right order succeeds), compression, key exchange.

### SftpFile

`fd[h]` is `LIBSSH2_SFTP_HANDLE` with its `packet_list`; `packets`, `zombies`,
`read_state`, `write_state`, `request_id` are those of the SFTP session. A read
goes through `ReadBegin` (how much to ask for ahead), `ReadPrepare` (the
requests), `ReadSend` (sending them, in pieces) and the `Collect` actions; a
write through `WriteBegin`, `WritePack`, `WriteSend` and the `Ack` actions. Each
can stop with EAGAIN where the code can, and need not be resumed. `ChannelWrite`
is `_libssh2_channel_write` reduced to what it does to a byte stream, including
that it finishes a packet it already holds, whatever it was called with. The
byte at position `p` is the number `p`, so order and place are visible. `pos`, `ended`
and `told` record what the client was told, `disk` what the server has stored,
and `misuse` the calls that cut in on a request which was sent in part (`cut`), that came between
another read's EAGAIN and its retry (`leftover`) or seeked in the middle of a write (`owing`); the code has no such variables.

Abstracted: a request is `PktLen` units long; an answer arrives as a whole (the part that
`sftp_packet_read` has of one, `sftp.c:264-413`, is kept in the session for the call that
comes next, and that call, whichever it is, goes on with it); loss of the connection.

### KnownHosts

`mem` and `live` are the heap, `list` the C list, `entries` the entry objects of
the program, which are addresses; `malloc` may give a freed address to a new
host. `KnownhostCheck` is the search of `knownhost_check` with its two rounds
(`[host]:port`, then `host`) as an operator over the list. readline and
readfile are split into steps per line and per name (`NextLine`, `AddName`), since an illegal line
leaves the hosts before it. `Pieces` is what `fgets` makes of a line of the file: the
whole line, the line and its newline apart, or two parts of it. `LineOf` and `Fits` are
`knownhost_writeline`. `book`
records which hosts were added and not deleted, from the calls alone.

Abstracted: lines end with a newline, only lines with hosts are longer than the buffer, and
the buffer then ends in the key; comments behind keys.

### Uses

`ChannelRead`, `Lifetime`, `AgentAuth`, `Requests`, `TransportIn` (there called
`stream`) and `SftpFile` have a constant `Uses` and a variable
`use`: a record that says how the library is used in this behaviour (blocking
or not, with which sizes, which optional calls the program makes, whether the
connection may drop or a timeout strike). It is chosen at the start and never
changes. One run thus covers several kinds of programs, and a property that
holds for some of them only says so in its premise.

## 3. Runs

| Run | Result | Shows |
|---|---|---|
| `write_two` | pass | two writers, two channels, two stack addresses, packets of 2 bytes, windows from 1 upward, loss and early close: types, `StreamIntact`, `ReportExact`, `WindowRespected`, `WritesAsPromised` (refinement of `ByteStream`); liveness while the connection holds and the peer does not close early: `AllWritten` |
| `write_blocking` | pass | one blocking writer with timeouts and a client that may end the stream in the middle of a write: `ReturnMeansDone` (a write that returns has written everything, a successful send_eof has sent the EOF), `NoNewDataAfterEof` |
| `read_steady` | pass | three clients (one buffer size with connection loss; blocking with two sizes; flush and window adjustment): `WindowInSync`, `ReadAvailExact`, and `ReadsRight`: data in order and without gap (`DataIntact`), 0 and `eof` only at the end (`ZeroMeansComplete`, `EofMeansRead`) |
| `read_live` | pass | liveness: `AllRead` with more bytes than the window, `WaitEofReturns` |
| `lifetime_any` | pass | four kinds of programs: `NothingStale`, `AllFreed` (`NothingLeaks`, `ClosedIsFreed`) under the conditions they state; `OwnershipRight`: one owner for each object (`OneOwner`), no channel or listener outlives the session, an SFTP session only after a DISCONNECT (`SessionLast`) |
| `agent_any` | pass | six kinds of programs: `AgentFreedOnce` (`NothingLeft`, `NothingFreedUsed`), `OwnSocketOnly`, `AllOffered` under the conditions they state |
| `eol_lines` | pass | `find_eol` gets through every buffer (`MovesOn`) and splits the tidy ones right (`LinesRight`) |
| `requests_any` | pass | ten sets of callers: who gets which channel (`OwnDestination`, `ChannelsOwned`); `RepliesRight`: each reply goes to its request (`AnswerRight`) and none is left (`RepliesTaken`); nothing fails for callers in turns (`SerialNeverFails`); one process per channel (`ExecOnce`); all come to an end (`AllFinish`) |
| `transport_any` | pass | fourteen streams: every packet is delivered once with its data (`DeliveredRight`, `AllDelivered`), without an error or a buffer overrun (`TakenInBounds`), EAGAIN only when the buffer has no complete packet (`EagainMeansDrained`) |
| `sftp_any` | pass | ten kinds of clients: `DataRight`: data in order and complete (`InOrder`, `EofMeansAll`); offsets and acknowledgements right (`TellRight`, `AckedInFile`); `DialogueRight`: whole requests on the channel (`StreamIntact`) and the bookkeeping of answers (`AwaitedIsOwed`, `AnswersTaken`, `ZombiesDie`, `NeverInternal`); `TransfersEnd` |
| `sftp_rw` | violation | a handle is read, then written: bytes are reported as written that were never sent (`AckedInFile`) |
| `knownhosts_any` | pass | the list (`CollectionRight`), the entry objects (`PointersRight`), the verdicts (`VerdictRight`) and the files (`FilesRight`: `FileAdded`, `RoundTrip`) agree with what was added and deleted |

Every passing run but `write_blocking` and `read_live`, whose state the run before
them has checked, includes the type invariant of its module, by itself or as a part
of a larger invariant (`ReadsRight`, `OwnershipRight`, `AgentFreedOnce`, `LinesRight`,
`RepliesRight`, `TakenInBounds`, `DialogueRight`, `PointersRight`). Each listed property
has a mutant in `PROJECT.json`: a plausible bug, kept in the module next to the definition it
changes under a comment that begins with "Bug:", that makes TLC find the property violated.

A violation is a place where the code does something else than a text of the
repository says; `PROJECT.json`, findings, quotes the text. Eleven more
configurations, which show behaviours behind the conditions of section 4, are kept
beside the runs:

| Configuration | Module | Violates |
|---|---|---|
| `ChannelWrite_eof.cfg` | `MCChannelWrite` | `EofDelivered`: the EOFs of two channels have the same stack address, the second is taken for a retry of the first and never sent. `Channel.send_eof` "Returns 0 on success or negative on failure" (`ssh2/channel.pyx:169-173`) |
| `ChannelRead_truncated.cfg` | `MCChannelRead` | `ZeroMeansComplete`: a retry of read with another size books the wrong window, data is dropped and read returns 0; "it is important to not return 0 until the currently read channel is complete" (`channel.c:2232`) |
| `Lifetime_gchandle.cfg` | `MCLifetime` | `NeverStale`: a collected SFTPHandle is closed after its SFTP session was freed |
| `Lifetime_sftp.cfg` | `MCLifetime` | `SftpNotLeft`: an SFTP session is not freed with its channel once the server has disconnected, although libssh2_sftp_shutdown "frees all resources associated with it" (`libssh2_sftp_shutdown.3:18`) |
| `AgentAuth_timeout.cfg` | `MCAgentAuth` | `EachOffered`: after a timeout an identity is not offered, although agent_auth "attempts authentication with each identity" (`ssh2/session.pyx:392`) |
| `AgentAuth_resumed.cfg` | `MCAgentAuth` | `NoneMisused`: after a timeout the next agent_auth signs with the identity of an agent that has none |
| `AgentAuth_reconnect.cfg` | `MCAgentAuth` | `SocketsClosed`: an Agent is connected twice and its first socket stays open |
| `TransportIn_mixed.cfg` | `MCTransportIn` | `NeverRejected`: AES-GCM from the server and another cipher to it trip an assertion |
| `SftpFile_turns.cfg` | `MCSftpFile` | `LeftoverFirst`: two files are read in turns, and a read returns 0 while data it has already received is left over; "If so, we return that now" (`sftp.c:1450-1453`) |
| `SftpFile_ahead.cfg` | `MCSftpFile` | `ReturnedIsSent`: a read returns data while a request that it made ahead is sent in part |
| `KnownHosts_count.cfg` | `MCKnownHosts` | `CountRight`: readfile "Returns number of successfully read host entries" (`ssh2/knownhost.pyx:312`), but counts lines |

`tlc -config <file> <module>` runs them.

### Bounds

* Writers: two, with buffers of 3 bytes and 1 byte, packets of at most 2 and a
  window that starts at 1 and grows to at most 3: a buffer takes several calls,
  a packet is cut by the window and by the packet size, and the window runs
  out. Two writers suffice for the slot, which distinguishes owner and other.
  The blocking writer has 4 bytes, calls of at most 3, packets of 2 and a window
  from 0 to 4.
* Reading: up to 6 bytes (15 in `ChannelRead_truncated.cfg`) over two streams with a window
  of 4 (`InitWindow`): the window is expanded at least once and the data does
  not fit it. `MinAdjust` is 3 in `read_steady`, so that adjustments are queued,
  and 1 elsewhere; `AskMax` stops `receive_window_adjust2` at a window of 6.
  `Wrap` is 64 in place of 2^32: larger than any honest value of a counter, so
  a value near it has wrapped. The header gap of flush is 2 in place of 4.
* Wrappers: the session and up to three others; the longest chain of references is
  handle - SFTP - session.
* Agents: two agents, two descriptors, up to 2 identities, 2 listings.
* find_eol: buffers of up to 6 bytes over an ordinary byte, CR, LF and NUL.
* Requests: two or three callers with up to five operations. Two suffice for a
  state that is shared or not; three let a reply of a third party come between.
* Received streams: two or three packets of 1 to 20 bytes of data in blocks of 8,
  MACs of 3, 5 and 8 bytes, a buffer of 48: packets of one block, of several, with the
  shortest and the longest padding, several packets in one piece and one packet in
  many. The first packet may be in the clear and the following ones protected.
* Files: 3 bytes, requests of at most 2 bytes and 2 units, reading ahead 2
  buffers in place of 4 and at most 4 bytes (`MaxAhead`) in place of 8 MB, up to 10
  requests (`requests`): several requests are in
  flight, the last is short, buffers are larger and smaller than a request. In
`SftpFile_turns.cfg` the files have 2 bytes, buffers 1, and 3 buffers are asked for ahead, so
that an answer does not fit its buffer.
* Known hosts: up to 3 hosts (`MaxAdds`) in memory for 3, so that a deleted host's
  memory is used again; a line buffer of 8 with lines of 7, 8, 9 and shorter.

Symmetry is used in `Lifetime`, `AgentAuth` and `KnownHosts`, in runs without
liveness. Deadlock checking is off in `read_live`, because a blocking read of
one stream whose window is full of the other stream's data really does not
return, and in `requests_any`, `transport_any`, `knownhosts_any` and the runs of
`SftpFile`, whose programs stop when they are done or have used up their bound.

### Fairness

Liveness is checked for clients that do what the documentation asks: wait for
the socket and call again after EAGAIN (weak fairness of the calls). A working connection takes bytes
that are offered again and again: strong fairness of the successful send,
because between two offers the client is outside the call. The peer consumes
what it receives and answers a CLOSE, as the protocol requires. Nothing is
assumed about calls that only some clients make (flush, send_eof, wait_eof). In
`Requests` strong fairness of `Call` says that no greenlet is passed over for
ever by the others; in `TransportIn` that of the receipt says that the
socket delivers in the end; in `SftpFile` a client repeats its call, the channel
takes requests in the end and the server answers.

## 4. What the conditions leave out

Several properties have a premise. Without it TLC finds a counterexample; these
are the behaviours of the code behind the premises, and the discipline under
which a program does not meet them.

Writing:

* *One writer per channel.* `write_state`, `write_bufwrite` and the packet
  belong to the channel, not to the call (`libssh2/src/channel.c:2354`). When
  `write` answered EAGAIN and `write_stderr` of the same channel is called
  before the retry, the latter finishes the former's packet and reports its
  size as its own. The models give each channel one writer.
* *No send_eof before the write is finished.* The retry of a write does not look
  at `local.eof` (`channel.c:2434`), so the rest of a packet can follow the EOF.
  `NoNewDataAfterEof` says that this is all that can.
* *close and other packets.* The wait for the peer's CLOSE ends at any packet
  (`channel.c:2706`: `rc` is the type of the packet that was read), although the
  comment above it says "We must wait for the remote SSH_MSG_CHANNEL_CLOSE
  message". The model has this; no property assumes that a closed channel has
  the peer's CLOSE.
* *A lost connection.* `send_existing` answers EAGAIN to any caller but the owner
  of the half-sent packet, before it touches the socket (`transport.c:923`).
  When the owner has given up, the others are never told of the loss.
  `AllWritten` has the premise that the connection holds.
* *The peer's early CLOSE.* A write that finds the window used up answers EAGAIN
  before anything looks at `remote.close`; when the peer has closed, no
  WINDOW_ADJUST comes and a non-blocking write answers EAGAIN for ever. Hence the
  premise `Undisturbed`.
* *The EOFs of two channels* (`ChannelWrite_eof.cfg`). `channel_send_eof` passes a
  packet on its own stack (`channel.c:2498`), and a retry is recognised by the address.

Reading:

* *The same size on the retry.* `_libssh2_channel_receive_window_adjust` sends
  the packet the first call made and books the amount of the present call
  (`channel.c:1924`). A smaller size on the retry truncates the data
  (`ChannelRead_truncated.cfg`), a larger one starves the peer: the window is believed to
  be wide and never expanded. Blocking calls repeat themselves with the same
  size and are safe (`read_steady`).
* *receive_window_adjust2 while sending may block.* The queued bytes go out with
  an adjustment, and are not booked if it is interrupted (`channel.c:1896`), in
  a blocking call too.
* *flush while sending may block.* Every retry subtracts the flushed bytes again
  (`channel.c:1744`), and `read_avail` wraps.
* *flush and small packets.* The refund is `data_len - 13` for all packets, but
  the header of CHANNEL_DATA has 9 bytes (`channel.c:1728`): four bytes of
  window are lost with each packet, and a packet of less than four bytes wraps
  the refund. The flushing client of `read_steady` gets packets of at least the
  header gap, in which case the books still agree, only the window is smaller.

Lifetime (`Orderly` and the premises of the properties):

* `SFTP.get_channel` wraps the channel the SFTP session runs over in a second
  owner (`ssh2/sftp.pyx:198`); both free it.
* `PublicKeySystem.shutdown` leaves the freed pointer behind and the destructor
  shuts down again (`ssh2/publickey.pyx:193`).
* `libssh2_publickey_shutdown` gives EAGAIN back in blocking mode too
  (`publickey.c:1278`), the destructor ignores it, and the memory is lost.
* A handle that the collector finds together with its SFTP object may be closed
  through a freed SFTP session (`ssh2/sftp_handle.pyx:121`; `Lifetime_gchandle.cfg`).
* On a non-blocking session `SFTPHandle.close` marks the handle closed when the
  call answered EAGAIN (`ssh2/sftp_handle.pyx:161`), and `Session.__dealloc__`
  ignores EAGAIN (`ssh2/session.pyx:134`): neither is completed by anybody. `AllFreed`
  is stated for blocking mode and does not show this; `OwnershipRight` and `NothingStale`
  hold wherever EAGAIN stops a destructor.
* After a DISCONNECT from the server a channel is freed without being closed
  (`channel.c:2834`), so nobody frees the LIBSSH2_SFTP it carries, neither
  `SFTP.__dealloc__` nor `session_free` (`Lifetime_sftp.cfg`). `NothingLeaks` and `SessionLast`
  leave these SFTP sessions out.

Agent:

* A refused connection closes the socket and keeps its number
  (`libssh2/src/agent.c:196`); freeing the agent closes the number again, which
  another thread may have been given in between.
* `Session.agent_init` replaces the agent that the constructor of Agent has
  allocated (`ssh2/agent.pyx:94`); the latter is never freed.
* `PublicKey` objects point into the identity list that the next
  `get_identities` and the destructor of Agent free (`ssh2/agent.pyx:125`).
* `Agent.connect` does not ask whether the agent is connected, and
  `agent_connect_unix` overwrites the descriptor (`agent.c:186`): the first socket stays
  open (`AgentAuth_reconnect.cfg`).
* A timeout leaves the authentication with one identity under way, and the next
  one is not offered (`AgentAuth_timeout.cfg`).
* The call that goes on with it signs with the `agent->identity` of its own agent
  (`agent.c:453`). That is NULL for a new agent, as each `agent_auth` makes one
  (`AgentAuth_resumed.cfg`), and freed memory after the identities were listed again
  (`agent.c:840`). The same happens to `Agent.userauth` on a session that is not blocking, if
  `get_identities` is called between EAGAIN and the retry. `NothingFreedUsed` is
  therefore stated without half-done authentications.

Requests:

* *A reply for somebody else.* After reading a packet of a wanted type
  `_libssh2_packet_requirev` looks once more and, if the packet was for another
  channel, returns -1 (`packet.c:1645`): `execute` raises although the server
  runs the command. `SerialNeverFails` is stated for callers that let each other
  finish; `AnswerRight` holds without.
* *A late reply.* The reply to a request that was given up after the timeout
  is taken for the answer of the channel's next request. `AnswerRight` leaves out such
  channels. An opening is not affected, as ids are not used again, but
  the channel stays open at the server.
* *A second opener.* `open_state` belongs to the session (`channel.c:146`). A
  greenlet that opens between another's EAGAIN and retry resumes the other's
  opening and is given its channel, with its destination; if one is a
  session and the other direct_tcpip, the type is wrong too. `forward_listen` is no different.
  `OwnDestination` leaves such openings out; `ChannelsOwned` holds with them.

Receiving:

* *Mixed ciphers* (`TransportIn_mixed.cfg`). `decrypt` asks the cipher of the
  sending direction whether the packet length is authenticated data
  (`transport.c:138`, `:153`, `CRYPT_FLAG_L`). With AES-GCM from the server only,
  the assertion at line 139 fails. `_libssh2_transport_send` has the mirror image (lines 1051, 1124).
* With ChaCha20-Poly1305 the last four bytes of a packet stay as they were
  received. They are padding, which has at least four bytes; `DeliveredRight` depends on it.
* `LIBSSH2_PACKET_MAXPAYLOAD` (40000) is larger than the buffer (35000); packets
  that fit the former and not the latter are left out (`TransportAssumption`).

Files:

* *Read, then write* (`sftp_rw`). `sftp_write` takes `offset_sent - offset` for
  bytes it has sent (`sftp.c:2110`); after a read this is what was asked for
  ahead (`sftp.c:1564`).
* *Files in turns* (`leftover`, `SftpFile_turns.cfg`). `read_state` belongs to the SFTP session
  (`sftp.c:1446`). When a read of one file was interrupted, a read of another
  resumes at that state: it passes over the data left over from its own last
  answer, of which the comment at `sftp.c:1450` says "we return that now". If
  the next answer has data, it does not follow the bytes handed out and is lost
  with an error; if it is the end of the file, read returns 0 too early. `EofMeansAll` leaves such reads out; `InOrder` and `TellRight` hold with them.
* *After a failed READ.* The list is given up but `offset_sent` is not taken
  back, so the next answers do not follow the bytes handed out: the handle reads
  nothing more until a seek, and bytes in the buffer of the failing call are lost. What
  was read stays in order (`InOrder`); the premise `NoReadFails` is for this.
* *Finish the request* (`cut`). When a request was sent in part, a call that is not the
  same operation on the same handle mixes its own request with it on the channel. It is
  not enough to finish each call: a read that returns data or the end of the file
  (`sftp.c:1605`, `1639`, `1683`), and a write that returns, may leave a later request
  of its list sent in part, since the loop that sends goes on to the answers then
  (`sftp.c:1587`; `SftpFile_ahead.cfg` violates `ReturnedIsSent`). A close, or
  a call for another file, then garbles the channel.
* *A request given up in part.* A failed READ or WRITE drops the list of the handle,
  a request that was sent in part with it; the next request of any call is mixed with it. `StreamIntact` is
  therefore stated for servers that do not answer with errors.
* *Seek in the middle of a write* (`owing`). Bytes that were acknowledged and not
  reported are reported by the next write, for the new position.
* A write that fails leaves its own id among the zombies, and an answer that is read
  short leaves requests whose data is thrown away; hence the premises of `ZombiesDie` and `NoReadFails`.

Known hosts:

* *Entries of deleted hosts* (`careless`). An entry is a raw pointer
  (`ssh2/knownhost.pyx:62`). After `delete`, a second `delete` with the entry reads freed
  memory, as `tests/test_knownhost.py` does, and deletes another host if the
  memory was used again. Entries do not keep the collection alive either.
* readfile counts lines, not hosts (`KnownHosts_count.cfg`), and after an illegal
  line keeps what it has added. A line of up to 4091 characters is read whole; if it has exactly
  4091, `fgets` leaves its newline (`knownhost.c:975`), which is passed over as an empty line
  (`knownhost.c:903`) and counted. A longer line adds its names with
  the part of the key that fits, before the rest is found illegal.
* A name of one or two characters is taken for a hashed one and dropped; custom
  names come back from a file as plain ones. `RoundTrip` leaves both out.
* writefile truncates the file and stops at an entry that it cannot write.
* A mismatch under `[host]:port` is overridden by a match under `host`.
* The destructor of `KnownHostEntry` is misspelt (`knownhost.pyx:95`), so
  the memory of each entry object is never freed. This is not modelled.

find_eol (`Tidy`):

* The CR is searched from the byte before the LF to the end of the string
  (`ssh2/ext/find_eol.c:31`): an LF with a CR anywhere behind it loses the last
  byte of its line, or its end.
* `strchr` stops at a NUL (`find_eol.c:27`): ends of line behind it are not found.
* When the LF is the first byte, the byte before it is the last one of the hash
  field of the bytes object; if that is 0x0D the end of line is not found.

## 5. Proofs

A run shows a property for the sizes in its configuration; a theorem shows it for
every value of the constants. Each proof module has an inductive invariant
`IInv`, which TLC checked on the runs' instances before it was proved, one lemma
per action or group of actions that it is preserved, and theorems that draw
the properties from it.

### Sending (`ChannelWriteProofs`, `ChannelWriteRefinementProofs`)

For any sets of channels and writers, any buffer, window and packet sizes, in
blocking and non-blocking mode and with all faults: `TypeCorrect`,
`StreamsStayIntact`, `ReportsAreExact`, `WindowIsRespected` say that `TypeOK`,
`StreamIntact`, `ReportExact` and `WindowRespected` are invariants, and
`WritesRefineByteStream` that every behaviour is one of `ByteStream` under the mapping
of `ChannelWriteRefinement`. They assume `ConstantsAssumption` and `OneWriterPerChannel`,
without which they fail (section 4).

`IInv` adds: the address in the slot tells
what the packet is (`OwnerInv`; only this makes it safe that a retry is
recognised by its address); the client's pointer is where the peer's bytes end
(`ClientInv`); a packet that was begun fits the rest of the buffer and of the
window (`BegunInv`); a data packet in the slot is exactly the next piece of its writer's
buffer, and as long as the retry will report (`SlotInv`); window, adjustments under way and data
sent add up to what was granted (`WindowInv`). `TransportSend` is
used by four actions and has lemmas of its own. In the refinement a step that
hands the rest of a packet to the socket is a `Deliver`, a return of write a
`Report` or `Fail`, every other step a stutter.

`DataEndsWithEof` and `ReturnsMeanDone` (`NoNewDataAfterEof`, `ReturnMeansDone`)
assume `OneChannel`: with two channels the EOF of one may be sent in the place
of the other's (`ChannelWrite_eof.cfg`). They hold for any number of writers of that channel.

### Receiving (`ChannelReadProofs`)

`WindowsAgree` and `ReadsAreRight`: `WindowInSync` and `ReadsRight` (both
streams intact, 0 and EOF only at the end) hold for any streams, window, packet and read sizes and any
amount of data, in every use that is `Calm`. A use is calm if

* it has no flush, which discards data and, after EAGAIN, breaks the books;
* sizes stay clear of 2^32 (twice a read's size, the initial window and twice
  `MinAdjust` fit into 32 bits; with the defaults, sizes below about 1 GB);
* when sending may answer EAGAIN, `receive_window_adjust2` is not used and
  an interrupted adjustment is resumed for the same amount: calls block without
  timeout, or all reads have the same size, at most three quarters of the initial window.

These are the conditions of section 4; the run with the violation is outside them in the
last point only. Loss of the connection, `wait_eof`, `wait_closed`, timeouts, data
read from the socket by calls for other channels and, if sending does not
block, any mixture of sizes are inside.

Neither property is inductive. `AdjustInv` says of an adjustment that was interrupted by which call it
will be resumed, and that the packet holds what this call will book; for reads of
one size this needs that the window is never so narrow that
`libssh2_channel_read_ex` adjusts it before `_libssh2_channel_read` does. `SyncInv` is `WindowInSync` with
the position `Arrived` up to which bytes were read from the socket. `QueueInv`: the queued
packets do not overlap and come before `Arrived`, and `read_avail` is the number
of their bytes and of those copied by the call under way; that is why it never
exceeds the window and every data packet finds room. `WireInv`: packets on the
wire are adjacent, EOF and CLOSE come after all data. `DataInv`: a byte of a stream is read, queued
or on the wire, all before queued, and queued before on the wire. That the bytes
read are then a prefix of those sent is a fact about increasing sequences
(`LowestIsPrefix`), shown by taking the least counterexample.

### Openings and requests (`RequestsProofs`)

`ChannelsAreOwned` and `ExecIsOnce` (`ChannelsOwned`, `ExecOnce`), for any number
of callers and all scripts. `OpenInv` says that every id in use is below
`next_channel` and that there are as many ids as openings the scripts can begin;
`PacketInv` that a request names the server's end of its own channel, and that
once an execute is on its way its machine, `exec_state` of the channel, is not idle again.

`DestinationsAreOwn`, `RepliesAreRight` and `SerialIsSafe` (`OwnDestination`,
`RepliesRight`, `SerialNeverFails`) need a second invariant, `HInv`, about the
requests under way. A request is with the server (`pending`), its reply is on the wire (`incoming`) or in
the queue (`packets`); these are its `Places`. It is `Fresh` if nobody gave it up: an opening
if it has the id of the channel under construction, a request if its channel had no timeout.

* `FlightInv`: a fresh request is the only one of its machine, the machine waits for
  it, and it is what the machine asked for (`Right`: by this caller, of this type,
  to this destination). This is why a reply that is found in the queue by its type and
  channel answers the request of the call that looks for it.
* `ActiveInv`, `SlotInv`: a machine that is not idle was set going by a caller
  whose operation is not over, and the packet in the slot is its request. A channel
  thus has at most one machine at work, so that SUCCESS and FAILURE, which only name the
  channel, cannot be taken for those of another machine.
* `CallerInv`, `DirectInv`: a running opening is the caller's own, or of the same
  kind (a plain session), unless somebody cut in.
* `CalmInv`: while no operation has failed, no request was given up. With `FlightInv`, a
  request under way then has a caller that is not through, which gives `RepliesTaken`.
* `SerialInv`, `AgainInv`: with callers in turns at most one operation is begun; all that
  arrives is for it, and the second look of `_libssh2_packet_requirev` finds it.

No step but the sending of a packet makes a new request under way: each other step
carries those after it, one to one, back to those before it (`Carried`). That half of
the argument is made once per kind of step, and the invariant follows for all requests at once.

### Files (`SftpFileProofs`)

`DataIsRight`, `TellIsRight` and `ReportedIsInFile` (`DataRight`, `TellRight`,
`AckedInFile`), for any number of handles, files, buffers, requests and read-aheads of any
size, any order of the answers, short answers, errors, seeks, closing, and calls interrupted
anywhere and not resumed. The premise `Pure` says that no handle is both read from and written
to; without it the last is violated (`sftp_rw`).

None of the three is inductive. `FilesConsistent` shows what is (`IInv`):

* The requests in the list of a file follow each other from the byte behind those handed
  out and left over to `offset_sent` (`Exact`); or something is missing in front of
  the first of them (`Jammed`), after an error, a short answer or leftover data that was
  passed over. Then no answer can have the offset that `sftp_read` expects, and nothing is
  handed out: this is the check that keeps data in order. If no READ fails, the
  list is exact or all of it lies behind the end of the file (`Beyond`), so 0 means the end.
* Where the client stands is the offset less what the call under way has
  taken (`PosOk`); for a writer also less what is acknowledged and not reported. A failing
  read may break this for a reader, but only when jammed with nothing left over.
* An id belongs to one request, wherever the request is (a list, a CLOSE, the channel, the
  server), and an answer fits the request of its id (`IdInv`). So answers that come late, after a seek or a
  close has dropped the request, are never taken for others.
* A write request carries the bytes of its position, and if it is acknowledged they are
  in the server's file; so are all bytes from the client's position to the
  offset (`DiskInv`). When write reports them, they are there.

### Lifetime and agents (`LifetimeProofs`, `AgentAuthProofs`)

`NothingIsStale`, `OwnershipIsRight`, `AllIsFreed` hold for any number of wrappers and
every order in which they are dropped and collected, `AgentsAreFreedOnce`,
`OnlyOwnSockets`, `AllAreOffered` for any number of agents, descriptors and identities. The premises are
those in the properties. The invariants: a reference that is not None leads to a
living wrapper, the collector clears only what nobody holds, and what a wrapper
with a reference would free was freed by nobody else; an SFTP session in use has its
channel until the server disconnects, and the channel of a freed one is freed. Each agent has one
owner; its open descriptor is the one it would close, unless it was connected twice; without
a timeout no authentication is left half done, so the identity that signs is the one given.

### Known hosts (`KnownHostsProofs`)

`CollectionIsRight` and `PointersAreRight` (`CollectionRight`, `PointersRight`), for
any number of hosts, all arguments, lines and files, and every choice `malloc`
makes. The premise in the properties is that no entry was used after its host
was gone. `ListInv`: a node is in the list once, and what is allocated is in the list; so a new
node lies where no entry that may still be used points to. `BookInv`: the nodes of the list
are the hosts meant, each with a number of its own; so `delete` takes the host
of its entry off and no other, and `get` starts behind it. That the
search of `knownhost_check` ends inside the list is left to `VerdictRight`.

### Only model-checked

* Liveness: out of the prover's reach.
* The uses of `ChannelRead` with flush, and `ReadAvailExact`, whose sum over the queue is a
  fold; `QueueInv` states the same with a cardinality.
* `FindEol`, `TransportIn`: sums and searches over sequences, defined by recursion.
* `DialogueRight` of `SftpFile`: that the stream of request bytes is cut into whole requests is about
  sequences of units of any length, an induction over data.
* `VerdictRight` and `FilesRight` of `KnownHosts`, which are about what folds and
  searches over the list compute.

## 6. Not modelled

* Cryptography, key exchange, compression, host keys: computations without the
  control the models are about. `TransportIn` assumes that decryption works on
  the right bytes in the right order.
* Handshake and authentication other than through the agent; `last_errno`, which
  `Session` reads after the GIL was taken again (`ssh2/session.pyx:434`), so that
  another thread's call may have changed it; the table of error codes.
* shell, subsystem, x11_req and signal requests; handle_extended_data; SCP.
* SFTP operations that are one request and one answer (stat, rename, mkdir,
  readdir, fsync, ...); operations of PublicKeySystem.
* FileInfo, StatInfo, constants; running out of memory; zlib; build and test files.

`PROJECT.json` gives the reason for each. Nearly all lines of the repository's C
are the output of Cython (`ssh2/*.c`, a translation of the `.pyx` files the models
follow), third-party code or cryptographic backends, so that the modelled lines
are a small share of the whole whatever is modelled; of `channel.c`, `packet.c`,
`sftp.c`, `transport.c`, `knownhost.c` and `agent.c`, where the behaviour is, the
models cover the larger part of the state-changing functions.

## 7. Plan

Done, in this order: ChannelWrite with its abstract specification and proofs,
ChannelRead, Lifetime, AgentAuth, FindEol, SftpFile, Requests, TransportIn,
KnownHosts; then the refinement of `ByteStream` and the proofs about
AgentAuth, Lifetime, Requests, ChannelRead, KnownHosts and SftpFile. What could
come next: the SFTP operations that are one request and one answer, `readdir` and
the operations of PublicKeySystem as models; write_stderr beside write on one channel.
