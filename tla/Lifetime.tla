------------------------------- MODULE Lifetime -------------------------------
(***************************************************************************)
(* Who frees what: the wrapper objects of ssh2-python (Session, Channel,   *)
(* SFTP, SFTPHandle, Listener, PublicKeySystem) and the libssh2 objects    *)
(* behind them.  A wrapper frees its libssh2 object when it is             *)
(* deallocated; what it leaves behind is freed with the session, if at     *)
(* all.                                                                    *)
(*                                                                         *)
(* A wrapper is deallocated as soon as nothing refers to it (reference     *)
(* counting), or after the cyclic garbage collector has found it           *)
(* unreachable; the collector first clears the references between the      *)
(* objects that it found, in any order, so a wrapper may be deallocated    *)
(* after the session that its libssh2 object belongs to.                   *)
(*                                                                         *)
(* What the program does after a libssh2 call was given a freed object is  *)
(* undefined; the model records the fact in misused and goes on.           *)
(*                                                                         *)
(* The libssh2 objects made for wrapper o are <<"channel", o>>,            *)
(* <<"sftp", o>> and so on.                                                *)
(***************************************************************************)
EXTENDS Integers

CONSTANTS
    Obj,       \* the wrappers that may be made
    Sess,      \* the wrapper of the session
    None,      \* Python's None, in place of a reference to a wrapper
    Uses       \* the ways the library is used, see below

WrapperKinds == {"channel", "sftp", "handle", "listener", "pkey"}
CObj == (WrapperKinds \cup {"session"}) \X Obj

(***************************************************************************)
(* A use of the library: session->api_block_mode, the kinds of wrappers    *)
(* that the application makes, and what else happens: calls of             *)
(* SFTP.get_channel and PublicKeySystem.shutdown, garbage collection.      *)
(***************************************************************************)
OpKinds == {"get_channel", "shutdown", "gc"}

ASSUME LifetimeAssumption ==
    /\ Sess \in Obj /\ None \notin Obj
    /\ Uses \subseteq [blocking : BOOLEAN, kinds : SUBSET WrapperKinds,
                       ops : SUBSET OpKinds]

VARIABLES
    use,      \* how the library is used
    kind,     \* kind[o]: what wrapper o is; none if not made, gone if dead
    ptr,      \* ptr[o]: the libssh2 object it wraps
    ref,      \* ref[o]: its reference to the session, or to the SFTP wrapper
    home,     \* home[o]: whose libssh2 object that of o belongs to
    closed,   \* the handles with _closed = 1
    held,     \* the wrappers the application refers to
    cyclic,   \* the wrappers that only a cycle of garbage refers to
    found,    \* the wrappers the collector found unreachable and will clear
    alive,    \* the libssh2 objects in use
    freed,    \* the libssh2 objects that were freed
    lost,     \* session->socket_state = LIBSSH2_SOCKET_DISCONNECTED
    misused   \* those that a libssh2 call was given after they were freed

pyVars == <<use, kind, ptr, ref, home, closed>>
refVars == <<held, cyclic, found>>
cVars == <<alive, freed, misused>>
vars == <<pyVars, refVars, cVars, lost>>

TypeOK ==
    /\ use \in Uses
    /\ kind \in [Obj -> WrapperKinds \cup {"session", "none", "gone"}]
    /\ ptr \in [Obj -> CObj]
    /\ ref \in [Obj -> Obj \cup {None}]
    /\ home \in [Obj -> Obj]
    /\ closed \subseteq Obj
    /\ held \subseteq Obj /\ cyclic \subseteq Obj /\ found \subseteq Obj
    /\ alive \subseteq CObj /\ freed \subseteq CObj \ alive
    /\ lost \in BOOLEAN
    /\ misused \subseteq freed

Init ==
    /\ use \in Uses
    /\ kind = [o \in Obj |-> IF o = Sess THEN "session" ELSE "none"]
    /\ ptr = [o \in Obj |-> <<"session", Sess>>]
    /\ ref = [o \in Obj |-> None]
    /\ home = [o \in Obj |-> Sess]
    /\ closed = {}
    /\ held = {Sess} /\ cyclic = {} /\ found = {}
    /\ alive = {<<"session", Sess>>} /\ freed = {} /\ misused = {}
    /\ lost = FALSE

Living == {o \in Obj : kind[o] \notin {"none", "gone"}}

\* A libssh2 call reads the objects used and frees those in gone.
Call(used, gone) ==
    /\ misused' = misused \cup ((used \cup gone) \cap freed)
    /\ freed' = freed \cup (gone \cap alive)
    /\ alive' = alive \ gone

\* The SFTP session of p, its channel and the session that they belong to.
SftpOf(p) == {<<"sftp", p>>, <<"channel", p>>, <<"session", Sess>>}

\* What goes with c on a list of the session.  A channel takes the SFTP session
\* that it carries with it (libssh2_sftp_dtor), as part of being closed; when
\* the server has disconnected a channel is freed without being closed.
WithChannel(c) ==
    {c} \cup (IF lost THEN {} ELSE {<<"sftp", c[2]>>} \cap (alive \cup freed))

-------------------------------------------------------------------------------
(* The application makes wrappers and uses them. *)

\* A wrapper o of kind k around c, which belongs to the object of p.
Make(o, k, c, p) ==
    /\ kind[o] = "none"
    /\ kind' = [kind EXCEPT ![o] = k]
    /\ ptr' = [ptr EXCEPT ![o] = c]
    /\ ref' = [ref EXCEPT ![o] = p]
    /\ home' = [home EXCEPT ![o] = p]
    /\ held' = held \cup {o}
    /\ UNCHANGED <<use, closed, cyclic, found, lost>>

\* Session.open_session, direct_tcpip, scp_recv2 and so on.
OpenChannel(o) ==
    /\ "channel" \in use.kinds /\ Sess \in held
    /\ Make(o, "channel", <<"channel", o>>, Sess)
    /\ alive' = alive \cup {<<"channel", o>>}
    /\ UNCHANGED <<freed, misused>>

\* A channel and what runs over it.
OpenSubsystem(o, k) ==
    /\ k \in use.kinds /\ Sess \in held
    /\ Make(o, k, <<k, o>>, Sess)
    /\ alive' = alive \cup {<<k, o>>, <<"channel", o>>}
    /\ UNCHANGED <<freed, misused>>

\* Session.sftp_init.
SftpInit(o) == OpenSubsystem(o, "sftp")

\* Session.publickey_init.
PublickeyInit(o) == OpenSubsystem(o, "pkey")

\* SFTP.open and opendir.
OpenHandle(o, p) ==
    /\ "handle" \in use.kinds /\ p \in held /\ kind[p] = "sftp"
    /\ Make(o, "handle", <<"handle", o>>, p)
    /\ alive' = alive \cup {<<"handle", o>>}
    /\ misused' = misused \cup (SftpOf(p) \cap freed)
    /\ UNCHANGED freed

\* SFTP.get_channel wraps the channel that the SFTP session runs over.
GetChannel(o, p) ==
    /\ "get_channel" \in use.ops /\ p \in held /\ kind[p] = "sftp"
    /\ Make(o, "channel", <<"channel", p>>, Sess)
    /\ misused' = misused \cup ({ptr[p]} \cap freed)
    /\ UNCHANGED <<alive, freed>>

\* Session.forward_listen.
Listen(o) ==
    /\ "listener" \in use.kinds /\ Sess \in held
    /\ Make(o, "listener", <<"listener", o>>, Sess)
    /\ alive' = alive \cup {<<"listener", o>>}
    /\ UNCHANGED <<freed, misused>>

\* Listener.forward_accept.
Accept(o, l) ==
    /\ l \in held /\ kind[l] = "listener"
    /\ Make(o, "channel", <<"channel", o>>, Sess)
    /\ alive' = alive \cup {<<"channel", o>>}
    /\ misused' = misused \cup ({ptr[l]} \cap freed)
    /\ UNCHANGED freed

\* Listener.forward_cancel; the application makes no further use of it.
ForwardCancel(l, done) ==
    /\ l \in held /\ kind[l] = "listener"
    /\ use.blocking => done
    /\ Call({ptr[l], <<"session", Sess>>}, IF done THEN {ptr[l]} ELSE {})
    /\ held' = IF done THEN held \ {l} ELSE held
    /\ UNCHANGED <<pyVars, cyclic, found, lost>>

\* The server's SSH_MSG_DISCONNECT is read, by whichever call reads the socket.
\* A socket that fails or is closed without it leaves socket_state as it is.
Disconnected ==
    /\ kind[Sess] = "session" /\ ~lost
    /\ lost' = TRUE
    /\ UNCHANGED <<pyVars, refVars, cVars>>

-------------------------------------------------------------------------------
(* Closing and deallocation.  done: the libssh2 call ran to its end; it did *)
(* not answer EAGAIN.                                                       *)

\* libssh2_sftp_close_handle.
CloseHandle(o, done) ==
    Call({ptr[o]} \cup SftpOf(home[o]), IF done THEN {ptr[o]} ELSE {})

\* libssh2_sftp_shutdown, which leaves the SFTP session to its channel.
SftpShutdown(o, done) ==
    /\ lost => done
    /\ Call(SftpOf(o), IF done THEN WithChannel(<<"channel", o>>) ELSE {})

\* libssh2_channel_free, which answers EAGAIN only where it closes the channel.
ChannelFree(o, done) ==
    /\ lost => done
    /\ Call({ptr[o], <<"session", Sess>>}, IF done THEN WithChannel(ptr[o]) ELSE {})

\* Bug: EAGAIN is not waited out in blocking mode.
HandleCloseHasty(o, done) ==
    /\ o \in held /\ kind[o] = "handle" /\ o \notin closed
    /\ CloseHandle(o, done)
    /\ closed' = closed \cup {o}
    /\ UNCHANGED <<use, kind, ptr, ref, home, refVars, lost>>

\* SFTPHandle.close: the handle counts as closed whatever the call answered.
HandleClose(o, done) ==
    /\ o \in held /\ kind[o] = "handle" /\ o \notin closed
    /\ use.blocking => done
    /\ CloseHandle(o, done)
    /\ closed' = closed \cup {o}
    /\ UNCHANGED <<use, kind, ptr, ref, home, refVars, lost>>

\* What libssh2_publickey_shutdown does with the object of o; unlike the
\* other calls it does not wait in blocking mode either.
PkeyShutdown(o, done) ==
    /\ lost => done
    /\ Call({ptr[o], <<"channel", o>>, <<"session", Sess>>},
            IF done THEN {ptr[o], <<"channel", o>>} ELSE {})

\* PublicKeySystem.shutdown; after it the application drops the wrapper.
Shutdown(o, done) ==
    /\ "shutdown" \in use.ops /\ o \in held /\ kind[o] = "pkey"
    /\ PkeyShutdown(o, done)
    /\ held' = IF done THEN held \ {o} ELSE held
    /\ UNCHANGED <<pyVars, cyclic, found, lost>>

\* The application drops its reference to o.
Release(o) ==
    /\ o \in held
    /\ held' = held \ {o}
    /\ UNCHANGED <<pyVars, cyclic, found, cVars, lost>>

\* Nothing refers to o.
Unreferenced(o) ==
    /\ o \in Living \ (held \cup cyclic)
    /\ \A q \in Living : ref[q] # o

\* The wrapper itself goes.
Dies(o) ==
    /\ kind' = [kind EXCEPT ![o] = "gone"]
    /\ ref' = [ref EXCEPT ![o] = None]
    /\ found' = found \ {o}
    /\ UNCHANGED <<use, ptr, home, closed, held, cyclic>>

\* Bug: __dealloc__ does not look whether the session is still referred to.
FreesBlindly(o) == TRUE

\* "self._session is not None and self._session._session is not NULL".
Frees(o) == ref[o] # None

\* Channel.__dealloc__.
DeallocChannel(o, done) ==
    /\ kind[o] = "channel" /\ Unreferenced(o)
    /\ use.blocking => done
    /\ IF Frees(o) THEN ChannelFree(o, done) ELSE done /\ UNCHANGED cVars
    /\ Dies(o) /\ UNCHANGED lost

\* SFTP.__dealloc__.
DeallocSftp(o, done) ==
    /\ kind[o] = "sftp" /\ Unreferenced(o)
    /\ use.blocking => done
    /\ IF Frees(o) THEN SftpShutdown(o, done) ELSE done /\ UNCHANGED cVars
    /\ Dies(o) /\ UNCHANGED lost

\* SFTPHandle.__dealloc__ asks whether the handle is closed, nothing else.
DeallocHandle(o, done) ==
    /\ kind[o] = "handle" /\ Unreferenced(o)
    /\ use.blocking => done
    /\ IF o \notin closed THEN CloseHandle(o, done) ELSE done /\ UNCHANGED cVars
    /\ Dies(o) /\ UNCHANGED lost

\* PublicKeySystem.__dealloc__.
DeallocPkey(o, done) ==
    /\ kind[o] = "pkey" /\ Unreferenced(o)
    /\ IF Frees(o) THEN PkeyShutdown(o, done) ELSE done /\ UNCHANGED cVars
    /\ Dies(o) /\ UNCHANGED lost

\* Listener has no __dealloc__: the listener stays until it is cancelled.
DeallocListener(o) ==
    /\ kind[o] = "listener" /\ Unreferenced(o)
    /\ Dies(o)
    /\ UNCHANGED <<cVars, lost>>

\* session->channels and session->listeners.
Listed(k) == {c \in alive : c[1] = k}
Lists == Listed("channel") \cup Listed("listener")

\* Bug: the channels that are left are not freed.
SessionFreesNone(C, early) == {}

\* What session_free frees on the part C of its lists: early is what it came to
\* before the server's DISCONNECT was read, which may happen on the way.
SessionFrees(C, early) == C \cup UNION {WithChannel(c) : c \in early}

\* Session.__dealloc__; EAGAIN stops session_free at a channel that it closes
\* or, after the channels, at a listener, and is ignored.
DeallocSession(done) ==
    /\ kind[Sess] = "session" /\ Unreferenced(Sess)
    /\ use.blocking => done
    /\ \E C \in SUBSET Lists : \E early \in SUBSET C :
         /\ lost' = (lost \/ early # C)
         /\ \/ /\ done /\ C = Lists
               /\ Call({<<"session", Sess>>}, SessionFrees(C, early) \cup {<<"session", Sess>>})
            \/ /\ ~done /\ C # Lists
               /\ lost' \/ C \cap Listed("listener") # {} => Listed("channel") \subseteq C
               /\ Call({<<"session", Sess>>}, SessionFrees(C, early))
    /\ Dies(Sess)

-------------------------------------------------------------------------------
(* The cyclic garbage collector (CPython's, as the Cython types use it).   *)

\* What can be reached from the wrappers in S.
Reach(S) ==
    LET up(T) == T \cup ({ref[o] : o \in T} \ {None}) IN up(up(S))

\* The wrappers in S are referred to by a dead cycle only, and are found.
GcFind(S) ==
    /\ "gc" \in use.ops /\ found = {} /\ cyclic = {}
    /\ S \subseteq held /\ S # {}
    /\ held' = held \ S
    /\ cyclic' = S
    /\ found' = Reach(S) \ Reach(held \ S)
    /\ UNCHANGED <<pyVars, cVars, lost>>

\* tp_clear of a wrapper replaces its reference by None.
GcClear(o) ==
    /\ o \in found
    /\ ref' = [ref EXCEPT ![o] = None]
    /\ found' = found \ {o}
    /\ UNCHANGED <<use, kind, ptr, home, closed, held, cyclic, cVars, lost>>

\* The part of the cycle that refers to o is cleared.
GcBreak(o) ==
    /\ o \in cyclic
    /\ cyclic' = cyclic \ {o}
    /\ UNCHANGED <<pyVars, held, found, cVars, lost>>

Over == Living = {} /\ UNCHANGED vars

Use ==
    \E o \in Obj :
        \/ OpenChannel(o) \/ Listen(o)
        \/ SftpInit(o) \/ PublickeyInit(o)
        \/ \E p \in Obj : OpenHandle(o, p) \/ GetChannel(o, p) \/ Accept(o, p)

Close ==
    \E o \in Obj, done \in BOOLEAN :
        HandleClose(o, done) \/ ForwardCancel(o, done) \/ Shutdown(o, done)

Dealloc ==
    \/ \E o \in Obj, done \in BOOLEAN :
         \/ DeallocChannel(o, done) \/ DeallocSftp(o, done)
         \/ DeallocHandle(o, done) \/ DeallocPkey(o, done)
    \/ \E o \in Obj : DeallocListener(o)
    \/ \E done \in BOOLEAN : DeallocSession(done)

Gc ==
    \/ \E S \in SUBSET Obj : GcFind(S)
    \/ \E o \in Obj : GcClear(o) \/ GcBreak(o)

Next ==
    Use \/ Close \/ Disconnected \/ (\E o \in Obj : Release(o)) \/ Dealloc \/ Gc \/ Over

Spec == Init /\ [][Next]_vars

-------------------------------------------------------------------------------
(* Properties. *)

(***************************************************************************)
(* The discipline under which ownership is right: get_channel makes a      *)
(* second owner of a channel, shutdown leaves a freed pointer behind, and  *)
(* a handle that is garbage together with its SFTP object is not safe from *)
(* the order in which the collector clears them.                           *)
(***************************************************************************)
Orderly ==
    /\ use.ops \cap {"get_channel", "shutdown"} = {}
    /\ ~ ("gc" \in use.ops /\ "handle" \in use.kinds)

(***************************************************************************)
(* No wrapper hands libssh2 an object that was freed before: the wrapper's *)
(* own, the SFTP session and channel it belongs to, or the session.        *)
(***************************************************************************)
NeverStale == misused = {}

(***************************************************************************)
(* Wrappers may be dropped, closed and collected in any order without one  *)
(* of them handing libssh2 an object that was freed, in either mode and    *)
(* wherever EAGAIN stops a deallocation, as long as the use is orderly.    *)
(***************************************************************************)
NothingStale == Orderly => NeverStale

(***************************************************************************)
(* When the last wrapper is gone, all that libssh2 has allocated for the   *)
(* session was freed.  In blocking mode without a timeout only: a          *)
(* deallocation ignores EAGAIN, and publickey_shutdown meets it in either  *)
(* mode.  After the server's DISCONNECT nobody frees the SFTP sessions.    *)
(***************************************************************************)
NothingLeaks ==
    Orderly /\ use.blocking /\ "pkey" \notin use.kinds /\ Living = {} =>
        alive \subseteq IF lost THEN {"sftp"} \X Obj ELSE {}

(***************************************************************************)
(* libssh2_session_free "Also closes and frees any channels attached to    *)
(* this session": no channel or listener outlives it, and an SFTP session  *)
(* only if the server has disconnected.                                    *)
(***************************************************************************)
SessionLast ==
    <<"session", Sess>> \in freed =>
        \A c \in alive : c[1] \notin {"channel", "listener"} /\ (c[1] = "sftp" => lost)

(***************************************************************************)
(* libssh2_sftp_shutdown "frees all resources associated with it": no SFTP *)
(* session is left without its channel.  Violated after a DISCONNECT.      *)
(***************************************************************************)
SftpNotLeft ==
    \A o \in Obj : <<"channel", o>> \in freed => <<"sftp", o>> \notin alive

\* The libssh2 objects that the deallocation of o frees.
Owned(o) == IF kind[o] \in {"sftp", "pkey"} THEN {ptr[o], <<"channel", o>>}
            ELSE {ptr[o]}

(***************************************************************************)
(* No two wrappers own, and will free, the same libssh2 object, unless     *)
(* get_channel made one of them.                                           *)
(***************************************************************************)
OneOwner ==
    "get_channel" \notin use.ops =>
        \A o, q \in Living : Owned(o) \cap Owned(q) # {} => o = q

(***************************************************************************)
(* A handle that counts as closed has been freed: in blocking mode         *)
(* close_handle is called again until it does not answer EAGAIN.           *)
(***************************************************************************)
ClosedIsFreed == use.blocking => \A o \in closed : ptr[o] \in freed

(***************************************************************************)
(* In blocking mode and orderly use nothing is lost: not when a handle is  *)
(* closed, and not when the last wrapper goes, but for the SFTP sessions   *)
(* of a connection that the server has ended.                              *)
(***************************************************************************)
AllFreed == NothingLeaks /\ ClosedIsFreed

(***************************************************************************)
(* Each libssh2 object has one wrapper that frees it, unless get_channel   *)
(* made a second, and the channels and listeners of a session are freed    *)
(* with it, the SFTP sessions too unless the server has disconnected,      *)
(* under any use.                                                          *)
(***************************************************************************)
OwnershipRight == TypeOK /\ OneOwner /\ SessionLast
===============================================================================
