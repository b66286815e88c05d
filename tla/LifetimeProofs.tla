---------------------------- MODULE LifetimeProofs -----------------------------
(***************************************************************************)
(* Proofs about Lifetime: every libssh2 object has one owner, nothing that *)
(* was freed is used, and everything is freed, under the conditions that   *)
(* the properties state; for any number of wrappers, made, dropped, closed *)
(* and collected in any order, and for all uses.                           *)
(***************************************************************************)
EXTENDS Lifetime, TLAPS

(***************************************************************************)
(* The inductive invariant.  That a destructor does not hand a freed       *)
(* object to libssh2 rests on a chain of facts: a reference that is not    *)
(* None leads to a wrapper that lives (RefInv), so that the session cannot *)
(* have been freed; the collector clears the references of wrappers that   *)
(* nobody uses any more only (held and found are disjoint); and what a     *)
(* wrapper with a reference owns is freed by this wrapper or with the      *)
(* session, by nobody else (BackedInv).                                    *)
(***************************************************************************)

\* What was made for a wrapper fits its kind, and a wrapper what was made.
MadeInv ==
    /\ kind[Sess] \in {"session", "gone"}
    /\ \A o \in Obj : kind[o] = "session" => o = Sess
    /\ \A o \in Obj : <<"session", o>> \in alive \cup freed => o = Sess
    /\ \A k \in WrapperKinds, o \in Obj : <<k, o>> \in alive \cup freed =>
          \/ kind[o] \in {k, "gone"}
          \/ k = "channel" /\ kind[o] \in {"sftp", "pkey"}
    /\ \A o \in Obj : <<"listener", o>> \in alive \cup freed =>
                      <<"sftp", o>> \notin alive \cup freed
    /\ ~lost => \A o \in Obj : <<"sftp", o>> \in alive => <<"channel", o>> \in alive
    /\ \A o \in Obj : <<"sftp", o>> \in freed => <<"channel", o>> \in freed
    /\ "handle" \notin use.kinds => \A o \in Obj : kind[o] # "handle"
    /\ "pkey" \notin use.kinds => \A o \in Obj : <<"pkey", o>> \notin alive

\* What a wrapper wraps.
PtrInv ==
    \A o \in Obj :
        /\ kind[o] \in (WrapperKinds \cup {"session"}) \ {"channel"} =>
              ptr[o] = <<kind[o], o>>
        /\ kind[o] = "channel" =>
              \E p \in Obj : /\ ptr[o] = <<"channel", p>>
                             /\ "get_channel" \notin use.ops => p = o

\* References.
RefInv ==
    /\ held \subseteq Living /\ cyclic \subseteq Living /\ found \subseteq Living
    /\ held \cap found = {}
    /\ \A o \in Living : ref[o] # None =>
          /\ ref[o] \in Living /\ ref[o] = home[o] /\ o # Sess
          /\ kind[o] # "handle" => ref[o] = Sess
          /\ kind[o] = "handle" => kind[ref[o]] = "sftp"
    /\ \A o \in held : o # Sess =>
          /\ ref[o] # None /\ ref[o] \notin found
          /\ kind[o] = "handle" => ref[ref[o]] # None
    /\ "gc" \notin use.ops =>
          found = {} /\ \A o \in Living : o # Sess => ref[o] # None

\* What is not freed yet.
BackedInv ==
    /\ kind[Sess] = "session" => <<"session", Sess>> \in alive
    /\ use.ops \cap {"get_channel", "shutdown"} = {} =>
          \A o \in Living : ref[o] # None /\ kind[o] \in {"channel", "sftp", "pkey"}
                            => Owned(o) \subseteq alive
    /\ \A o \in held : kind[o] = "listener" => <<"listener", o>> \in alive
    /\ \A o \in Living : kind[o] = "handle" /\ o \notin closed =>
          <<"handle", o>> \in alive

\* What is freed, in blocking mode.
FreedInv ==
    /\ \A o \in closed : kind[o] # "none"
    /\ use.blocking =>
          /\ kind[Sess] = "gone" => <<"session", Sess>> \in freed
          /\ \A o \in closed : ptr[o] \in freed
          /\ \A o \in Obj : <<"handle", o>> \in alive =>
                            kind[o] = "handle" /\ o \notin closed

IInv ==
    /\ TypeOK /\ MadeInv /\ PtrInv /\ RefInv /\ BackedInv /\ FreedInv
    /\ SessionLast /\ NothingStale

-------------------------------------------------------------------------------
(* Making wrappers. *)

LEMMA InitInv == Init => IInv
<1> SUFFICES ASSUME Init PROVE IInv
  OBVIOUS
<1> USE LifetimeAssumption DEF Init, WrapperKinds, CObj, OpKinds
<1>1. TypeOK
  <2>1. lost \in BOOLEAN
    OBVIOUS
  <2>2. CObj = (WrapperKinds \cup {"session"}) \X Obj
    BY DEF CObj
  <2> QED BY <2>1, <2>2 DEF TypeOK
<1>2. MadeInv /\ PtrInv
  BY DEF MadeInv, PtrInv
<1>3. RefInv
  BY DEF RefInv, Living
<1>4. BackedInv /\ FreedInv /\ SessionLast /\ NothingStale
  BY DEF BackedInv, FreedInv, SessionLast, NothingStale, NeverStale, Living
<1> QED
  BY <1>1, <1>2, <1>3, <1>4 DEF IInv

\* The application refers to a wrapper that has a reference to the session, or
\* leads to one that has: the session was not freed.
LEMMA HeldInv ==
    ASSUME IInv, NEW o \in held
    PROVE  /\ o \in Living /\ o \notin found
           /\ kind[Sess] = "session" /\ Sess \in Living
           /\ <<"session", Sess>> \in alive
<1> USE LifetimeAssumption DEF IInv
<1>1. o \in Living /\ o \notin found /\ o \in Obj
  BY DEF RefInv, TypeOK
<1>2. Sess \in Living
  <2>1. CASE o = Sess
    BY <1>1, <2>1
  <2>2. CASE o # Sess /\ kind[o] # "handle"
    BY <1>1, <2>2 DEF RefInv
  <2>3. CASE o # Sess /\ kind[o] = "handle"
    <3>1. ref[o] \in Living /\ kind[ref[o]] = "sftp" /\ ref[o] \in Obj
      BY <1>1, <2>3 DEF RefInv, Living
    <3> QED BY <1>1, <2>3, <3>1 DEF RefInv
  <2> QED BY <2>1, <2>2, <2>3
<1>3. kind[Sess] = "session"
  BY <1>2 DEF MadeInv, Living
<1> QED
  BY <1>1, <1>2, <1>3 DEF BackedInv

\* A new wrapper around a new object, and the channel that this runs over.
LEMMA MakeInv ==
    ASSUME IInv, NEW o \in Obj, NEW k \in WrapperKinds, NEW p \in Living \ found,
           Make(o, k, <<k, o>>, p), k \in use.kinds \/ k = "channel",
           IF k = "handle" THEN kind[p] = "sftp" /\ ref[p] # None ELSE p = Sess,
           alive' = alive \cup (IF k \in {"sftp", "pkey"} THEN {<<k, o>>, <<"channel", o>>}
                                ELSE {<<k, o>>}),
           freed' = freed, misused' \subseteq freed, NothingStale'
    PROVE  IInv'
<1> USE LifetimeAssumption DEF IInv
<1>1. /\ kind[o] = "none" /\ o \notin Living /\ o # Sess /\ o # p
      /\ kind' = [kind EXCEPT ![o] = k]
      /\ ptr' = [ptr EXCEPT ![o] = <<k, o>>]
      /\ ref' = [ref EXCEPT ![o] = p]
      /\ home' = [home EXCEPT ![o] = p]
      /\ held' = held \cup {o}
      /\ UNCHANGED <<use, closed, cyclic, found, lost>>
      /\ p \in Obj /\ p \in Living /\ kind[Sess] = "session" /\ Sess \in Living
      /\ <<"session", Sess>> \in alive
  <2>1. Sess \in Living
    BY DEF RefInv
  <2>2. kind[Sess] = "session" /\ <<"session", Sess>> \in alive
    BY <2>1 DEF MadeInv, BackedInv, Living
  <2> QED BY <2>1, <2>2 DEF Make, MadeInv, Living
<1>2. \A l \in WrapperKinds : <<l, o>> \notin alive \cup freed
  BY <1>1 DEF MadeInv, WrapperKinds
<1>3. Living' = Living \cup {o}
  BY <1>1 DEF Living, WrapperKinds, TypeOK
<1>4. TypeOK'
  <2>1. <<k, o>> \in CObj /\ <<"channel", o>> \in CObj
    BY DEF CObj, WrapperKinds
  <2>2. alive' \subseteq CObj /\ freed' \subseteq CObj \ alive'
    BY <1>2, <2>1 DEF TypeOK, WrapperKinds
  <2> QED BY <1>1, <2>1, <2>2 DEF TypeOK
<1>5. MadeInv'
  BY <1>1, <1>2 DEF TypeOK, MadeInv, WrapperKinds
<1>6. PtrInv'
  BY <1>1 DEF TypeOK, PtrInv, WrapperKinds
<1>7. RefInv'
  BY <1>1, <1>3 DEF TypeOK, RefInv, WrapperKinds
<1>8. BackedInv'
  BY <1>1, <1>3 DEF TypeOK, BackedInv, RefInv, Owned, WrapperKinds
<1>9. FreedInv'
  BY <1>1, <1>2 DEF TypeOK, FreedInv, WrapperKinds
<1>10. SessionLast'
  BY <1>1 DEF TypeOK, SessionLast
<1> QED
  BY <1>4, <1>5, <1>6, <1>7, <1>8, <1>9, <1>10

\* The actions of the application that make wrappers.
LEMMA UseInv ==
    ASSUME IInv, Use
    PROVE  IInv'
<1> USE LifetimeAssumption DEF IInv
<1>1. ASSUME NEW o \in Obj, OpenChannel(o) PROVE IInv'
  <2>1. Sess \in held /\ Make(o, "channel", <<"channel", o>>, Sess)
    BY <1>1 DEF OpenChannel
  <2>2. misused' \subseteq freed /\ NothingStale'
    BY <1>1, <2>1 DEF OpenChannel, Make, NothingStale, NeverStale, Orderly, TypeOK
  <2>3. /\ freed' = freed
        /\ alive' = alive \cup {<<"channel", o>>}
    BY <1>1 DEF OpenChannel
  <2> QED BY <2>1, <2>2, <2>3, MakeInv, HeldInv DEF WrapperKinds
<1>2. ASSUME NEW o \in Obj, Listen(o) PROVE IInv'
  <2>1. /\ Sess \in held /\ Make(o, "listener", <<"listener", o>>, Sess)
        /\ "listener" \in use.kinds
    BY <1>2 DEF Listen
  <2>2. misused' \subseteq freed /\ NothingStale'
    BY <1>2, <2>1 DEF Listen, Make, NothingStale, NeverStale, Orderly, TypeOK
  <2>3. /\ freed' = freed
        /\ alive' = alive \cup {<<"listener", o>>}
    BY <1>2 DEF Listen
  <2> QED BY <2>1, <2>2, <2>3, MakeInv, HeldInv DEF WrapperKinds
<1>3. ASSUME NEW o \in Obj, NEW k \in {"sftp", "pkey"}, OpenSubsystem(o, k) PROVE IInv'
  <2>1. Sess \in held /\ Make(o, k, <<k, o>>, Sess) /\ k \in use.kinds
    BY <1>3 DEF OpenSubsystem
  <2>2. misused' \subseteq freed /\ NothingStale'
    BY <1>3, <2>1 DEF OpenSubsystem, Make, NothingStale, NeverStale, Orderly, TypeOK
  <2>3. /\ freed' = freed
        /\ alive' = alive \cup {<<k, o>>, <<"channel", o>>}
    BY <1>3 DEF OpenSubsystem
  <2> QED BY <2>1, <2>2, <2>3, MakeInv, HeldInv DEF WrapperKinds
<1>4. ASSUME NEW o \in Obj, NEW p \in Obj, OpenHandle(o, p) PROVE IInv'
  <2>1. /\ p \in held /\ kind[p] = "sftp" /\ "handle" \in use.kinds
        /\ Make(o, "handle", <<"handle", o>>, p)
        /\ misused' = misused \cup (SftpOf(p) \cap freed)
        /\ use' = use
    BY <1>4 DEF OpenHandle, Make
  <2>2. /\ p \in Living \ found /\ p # Sess /\ ref[p] # None
        /\ <<"session", Sess>> \in alive
    BY <2>1, HeldInv DEF MadeInv, RefInv
  <2>3. Orderly => SftpOf(p) \subseteq alive
    BY <2>1, <2>2 DEF BackedInv, PtrInv, Owned, SftpOf, Orderly, WrapperKinds
  <2>4. misused' \subseteq freed /\ NothingStale'
    BY <2>1, <2>3 DEF NothingStale, NeverStale, Orderly, TypeOK
  <2>5. /\ freed' = freed
        /\ alive' = alive \cup {<<"handle", o>>}
    BY <1>4 DEF OpenHandle
  <2> QED BY <2>1, <2>2, <2>4, <2>5, MakeInv DEF WrapperKinds
<1>5. ASSUME NEW o \in Obj, NEW l \in Obj, Accept(o, l) PROVE IInv'
  <2>1. /\ l \in held /\ kind[l] = "listener"
        /\ Make(o, "channel", <<"channel", o>>, Sess)
        /\ misused' = misused \cup ({ptr[l]} \cap freed)
        /\ use' = use
    BY <1>5 DEF Accept, Make
  <2>2. ptr[l] \in alive /\ Sess \in Living \ found
    BY <2>1, HeldInv DEF BackedInv, PtrInv, RefInv, MadeInv, WrapperKinds
  <2>3. misused' \subseteq freed /\ NothingStale'
    BY <2>1, <2>2 DEF NothingStale, NeverStale, Orderly, TypeOK
  <2>4. /\ freed' = freed
        /\ alive' = alive \cup {<<"channel", o>>}
    BY <1>5 DEF Accept
  <2> QED BY <2>1, <2>2, <2>3, <2>4, MakeInv DEF WrapperKinds
<1>6. ASSUME NEW o \in Obj, NEW p \in Obj, GetChannel(o, p) PROVE IInv'
  <2>1. /\ p \in held /\ kind[p] = "sftp" /\ "get_channel" \in use.ops
        /\ kind[o] = "none" /\ o \notin Living /\ o # Sess
        /\ kind' = [kind EXCEPT ![o] = "channel"]
        /\ ptr' = [ptr EXCEPT ![o] = <<"channel", p>>]
        /\ ref' = [ref EXCEPT ![o] = Sess]
        /\ home' = [home EXCEPT ![o] = Sess]
        /\ held' = held \cup {o}
        /\ UNCHANGED <<use, closed, cyclic, found, alive, freed, lost>>
        /\ misused' \subseteq freed
    BY <1>6 DEF GetChannel, Make, MadeInv, Living, TypeOK
  <2>2. p \in Living /\ ref[p] = Sess /\ Sess \in Living \ found
    BY <2>1, HeldInv DEF MadeInv, RefInv
  <2>3. Living' = Living \cup {o}
    BY <2>1 DEF Living, TypeOK
  <2>4. TypeOK'
    BY <2>1 DEF TypeOK, WrapperKinds, CObj
  <2>5. MadeInv' /\ PtrInv'
    BY <2>1 DEF TypeOK, MadeInv, PtrInv, WrapperKinds
  <2>6. RefInv'
    BY <2>1, <2>2, <2>3 DEF TypeOK, RefInv, WrapperKinds
  <2>7. BackedInv' /\ FreedInv'
    BY <2>1, <2>2, <2>3 DEF TypeOK, BackedInv, FreedInv, WrapperKinds
  <2>8. SessionLast' /\ NothingStale'
    BY <2>1 DEF SessionLast, NothingStale, Orderly
  <2> QED BY <2>4, <2>5, <2>6, <2>7, <2>8
<1> QED
  BY <1>1, <1>2, <1>3, <1>4, <1>5, <1>6 DEF Use, SftpInit, PublickeyInit

-------------------------------------------------------------------------------
(* Closing. *)

\* A call moves objects from alive to freed and does nothing else with them.
LEMMA CallFrees ==
    ASSUME TypeOK, NEW used, NEW gone, Call(used, gone)
    PROVE  /\ alive' \subseteq CObj /\ freed' \subseteq CObj \ alive'
           /\ misused' \subseteq freed'
           /\ alive' \cup freed' = alive \cup freed
           /\ \A c : c \in alive' <=> c \in alive /\ c \notin gone
           /\ \A c : c \in freed' <=> c \in freed \/ (c \in gone /\ c \in alive)
           /\ (used \cup gone) \cap freed = {} => misused' = misused
  BY DEF TypeOK, Call

\* What SFTPHandle.close and __dealloc__ give to libssh2 is in use.
LEMMA HandleBacked ==
    ASSUME IInv, NEW o \in Living, kind[o] = "handle", o \notin closed, Orderly
    PROVE  {ptr[o]} \cup SftpOf(home[o]) \subseteq alive
<1> USE LifetimeAssumption DEF IInv
<1>1. o \in Obj /\ ptr[o] \in alive /\ o # Sess
  BY DEF BackedInv, PtrInv, MadeInv, Living, WrapperKinds
<1>2. "gc" \notin use.ops
  BY <1>1 DEF Orderly, MadeInv
<1>3. home[o] \in Living /\ kind[home[o]] = "sftp" /\ home[o] # Sess
  BY <1>1, <1>2 DEF RefInv, MadeInv
<1>4. ref[home[o]] = Sess /\ Sess \in Living /\ home[o] \in Obj /\ ref[home[o]] # None
  BY <1>2, <1>3 DEF RefInv, Living
<1>5. <<"session", Sess>> \in alive
  BY <1>4 DEF BackedInv, MadeInv, Living
<1>6. Owned(home[o]) \subseteq alive
  BY <1>3, <1>4 DEF BackedInv, Orderly
<1>7. Owned(home[o]) = {<<"sftp", home[o]>>, <<"channel", home[o]>>}
  BY <1>3, <1>4 DEF Owned, PtrInv, WrapperKinds
<1> QED
  BY <1>1, <1>5, <1>6, <1>7 DEF SftpOf

\* Close keeps the invariant.
LEMMA CloseInv ==
    ASSUME IInv, Close
    PROVE  IInv'
<1> USE LifetimeAssumption DEF IInv
<1>1. ASSUME NEW o \in Obj, NEW done \in BOOLEAN, HandleClose(o, done) PROVE IInv'
  <2> DEFINE used == {ptr[o]} \cup SftpOf(home[o])
             gone == IF done THEN {ptr[o]} ELSE {}
  <2>1. /\ o \in Living /\ kind[o] = "handle" /\ o \notin closed
        /\ use.blocking => done
        /\ Call(used, gone)
        /\ closed' = closed \cup {o}
        /\ UNCHANGED <<use, kind, ptr, ref, home, held, cyclic, found, lost>>
    BY <1>1 DEF HandleClose, CloseHandle, RefInv, refVars
  <2>2. ptr[o] = <<"handle", o>> /\ ptr[o] \in alive
    BY <2>1 DEF PtrInv, BackedInv, WrapperKinds
  <2> HIDE DEF used
  <2>3. /\ alive' \subseteq CObj /\ freed' \subseteq CObj \ alive'
        /\ misused' \subseteq freed'
        /\ alive' \cup freed' = alive \cup freed
        /\ \A c : c \in alive' <=> c \in alive /\ c \notin gone
        /\ \A c : c \in freed' <=> c \in freed \/ (c \in gone /\ c \in alive)
        /\ (used \cup gone) \cap freed = {} => misused' = misused
    BY <2>1, CallFrees
  <2>4. TypeOK'
    BY <2>1, <2>3 DEF TypeOK
  <2>5. MadeInv' /\ PtrInv' /\ RefInv'
    BY <2>1, <2>2, <2>3 DEF MadeInv, PtrInv, RefInv, Living
  <2>6. BackedInv'
    <3>1. \A q \in Living : kind[q] \in {"channel", "sftp", "pkey"} => ptr[o] \notin Owned(q)
      BY <2>2 DEF PtrInv, Owned, Living, WrapperKinds
    <3>2. Living' = Living /\ \A q \in Living : Owned(q)' = Owned(q)
      BY <2>1 DEF Living, Owned
    <3>3. \A q \in Living : kind[q] \in {"channel", "sftp", "pkey"} =>
             (Owned(q) \subseteq alive => Owned(q) \subseteq alive')
      BY <2>3, <3>1
    <3> QED BY <2>1, <2>2, <2>3, <3>2, <3>3 DEF BackedInv
  <2>7. FreedInv' /\ SessionLast'
    BY <2>1, <2>2, <2>3 DEF FreedInv, SessionLast
  <2>8. NothingStale'
    BY <2>1, <2>2, <2>3, HandleBacked DEF NothingStale, NeverStale, Orderly, used, TypeOK
  <2> QED BY <2>4, <2>5, <2>6, <2>7, <2>8
<1>2. ASSUME NEW l \in Obj, NEW done \in BOOLEAN, ForwardCancel(l, done) PROVE IInv'
  <2> DEFINE used == {ptr[l], <<"session", Sess>>}
             gone == IF done THEN {ptr[l]} ELSE {}
  <2>1. /\ l \in held /\ l \in Living /\ kind[l] = "listener"
        /\ Call(used, gone)
        /\ held' = IF done THEN held \ {l} ELSE held
        /\ UNCHANGED <<use, kind, ptr, ref, home, closed, cyclic, found, lost>>
    BY <1>2 DEF ForwardCancel, RefInv, pyVars
  <2>2. /\ ptr[l] = <<"listener", l>> /\ ptr[l] \in alive
        /\ <<"session", Sess>> \in alive
    BY <2>1, HeldInv DEF PtrInv, BackedInv, WrapperKinds
  <2>3. /\ alive' \subseteq CObj /\ freed' \subseteq CObj \ alive'
        /\ misused' \subseteq freed'
        /\ alive' \cup freed' = alive \cup freed
        /\ \A c : c \in alive' <=> c \in alive /\ c \notin gone
        /\ \A c : c \in freed' <=> c \in freed \/ (c \in gone /\ c \in alive)
        /\ (used \cup gone) \cap freed = {} => misused' = misused
    BY <2>1, CallFrees
  <2>4. TypeOK'
    BY <2>1, <2>3 DEF TypeOK
  <2>5. MadeInv' /\ PtrInv' /\ RefInv'
    BY <2>1, <2>2, <2>3 DEF MadeInv, PtrInv, RefInv, Living
  <2>6. BackedInv'
    <3>1. \A q \in Living : kind[q] \in {"channel", "sftp", "pkey"} => ptr[l] \notin Owned(q)
      BY <2>2 DEF PtrInv, Owned, Living, WrapperKinds
    <3>2. Living' = Living /\ \A q \in Living : Owned(q)' = Owned(q)
      BY <2>1 DEF Living, Owned
    <3>3. \A q \in Living : kind[q] \in {"channel", "sftp", "pkey"} =>
             (Owned(q) \subseteq alive => Owned(q) \subseteq alive')
      BY <2>3, <3>1
    <3> QED BY <2>1, <2>2, <2>3, <3>2, <3>3 DEF BackedInv
  <2>7. FreedInv' /\ SessionLast'
    BY <2>1, <2>2, <2>3 DEF FreedInv, SessionLast
  <2>8. NothingStale'
    BY <2>1, <2>2, <2>3 DEF NothingStale, NeverStale, Orderly, TypeOK
  <2> QED BY <2>4, <2>5, <2>6, <2>7, <2>8
<1>3. ASSUME NEW o \in Obj, NEW done \in BOOLEAN, Shutdown(o, done) PROVE IInv'
  <2> DEFINE used == {ptr[o], <<"channel", o>>, <<"session", Sess>>}
             gone == IF done THEN {ptr[o], <<"channel", o>>} ELSE {}
  <2>1. /\ o \in Living /\ kind[o] = "pkey" /\ "shutdown" \in use.ops
        /\ Call(used, gone)
        /\ held' = IF done THEN held \ {o} ELSE held
        /\ UNCHANGED <<use, kind, ptr, ref, home, closed, cyclic, found, lost>>
    BY <1>3 DEF Shutdown, PkeyShutdown, RefInv, pyVars
  <2>2. /\ ptr[o] = <<"pkey", o>>
        /\ <<"sftp", o>> \notin alive \cup freed
    BY <2>1 DEF PtrInv, MadeInv, WrapperKinds
  <2>3. /\ alive' \subseteq CObj /\ freed' \subseteq CObj \ alive'
        /\ misused' \subseteq freed'
        /\ alive' \cup freed' = alive \cup freed
        /\ \A c : c \in alive' <=> c \in alive /\ c \notin gone
        /\ \A c : c \in freed' <=> c \in freed \/ (c \in gone /\ c \in alive)
    BY <2>1, CallFrees
  <2>4. TypeOK'
    BY <2>1, <2>3 DEF TypeOK
  <2>5. MadeInv' /\ PtrInv' /\ RefInv'
    BY <2>1, <2>2, <2>3 DEF MadeInv, PtrInv, RefInv, Living
  <2>6. BackedInv'
    BY <2>1, <2>2, <2>3 DEF BackedInv, Living
  <2>7. FreedInv' /\ SessionLast' /\ NothingStale'
    BY <2>1, <2>2, <2>3 DEF FreedInv, SessionLast, NothingStale, Orderly
  <2> QED BY <2>4, <2>5, <2>6, <2>7
<1> QED
  BY <1>1, <1>2, <1>3 DEF Close

-------------------------------------------------------------------------------
(* Deallocation. *)

\* A wrapper that nothing refers to leaves no dangling reference behind.
LEMMA DiesInv ==
    ASSUME IInv, NEW o \in Obj, Unreferenced(o), Dies(o)
    PROVE  /\ Living' = Living \ {o} /\ o \in Living /\ o \notin held
           /\ \A q \in Living : ref[q] # o
           /\ kind' = [kind EXCEPT ![o] = "gone"]
           /\ ref' = [ref EXCEPT ![o] = None]
           /\ found' = found \ {o}
           /\ UNCHANGED <<use, ptr, home, closed, held, cyclic>>
           /\ \A q \in Living' : kind'[q] = kind[q] /\ ref'[q] = ref[q]
           /\ \A q \in Living' : Owned(q)' = Owned(q)
           /\ PtrInv' /\ RefInv'
<1> USE LifetimeAssumption DEF IInv
<1>1. /\ kind' = [kind EXCEPT ![o] = "gone"]
      /\ ref' = [ref EXCEPT ![o] = None]
      /\ found' = found \ {o}
      /\ UNCHANGED <<use, ptr, home, closed, held, cyclic>>
      /\ o \in Living /\ o \notin held /\ o \notin cyclic
      /\ \A q \in Living : ref[q] # o
  BY DEF Unreferenced, Dies
<1>2. Living' = Living \ {o}
  BY <1>1 DEF Living, TypeOK
<1>3. \A q \in Living' : kind'[q] = kind[q] /\ ref'[q] = ref[q]
  BY <1>1, <1>2 DEF TypeOK, Living
<1>4. PtrInv'
  BY <1>1 DEF TypeOK, PtrInv, WrapperKinds
<1>5. RefInv'
  BY <1>1, <1>2, <1>3 DEF TypeOK, RefInv
<1> QED
  BY <1>1, <1>2, <1>3, <1>4, <1>5 DEF Owned

\* A wrapper other than the session goes and, if it has to, frees its own
\* objects, the SFTP session with its channel.
LEMMA DeallocFrees ==
    ASSUME IInv, NEW o \in Obj, Unreferenced(o), Dies(o), o # Sess,
           kind[o] \in WrapperKinds,
           NEW used, NEW gone \in SUBSET CObj, Call(used, gone), lost' = lost,
           \A c \in gone : /\ c[1] # "session" /\ c[1] # "listener"
                           /\ \/ c[1] = "channel" => <<"sftp", c[2]>> \notin alive
                              \/ <<"sftp", c[2]>> \in gone
                              \/ lost
                           /\ c[1] = "sftp" => ~lost /\ <<"channel", c[2]>> \in gone
                           /\ c[1] = "handle" => c = <<"handle", o>>
                           /\ use.ops \cap {"get_channel", "shutdown"} = {} => c[2] = o,
           use.blocking /\ kind[o] = "handle" => o \in closed \/ ptr[o] \in gone,
           Orderly => (used \cup gone) \cap freed = {}
    PROVE  IInv'
<1> USE LifetimeAssumption DEF IInv
<1>1. /\ Living' = Living \ {o} /\ o \in Living /\ o \notin held
      /\ kind' = [kind EXCEPT ![o] = "gone"]
      /\ ref' = [ref EXCEPT ![o] = None]
      /\ found' = found \ {o}
      /\ UNCHANGED <<use, ptr, home, closed, held, cyclic>>
      /\ \A q \in Living' : kind'[q] = kind[q] /\ ref'[q] = ref[q]
      /\ \A q \in Living' : Owned(q)' = Owned(q)
      /\ PtrInv' /\ RefInv'
  BY DiesInv
<1>2. /\ alive' \subseteq CObj /\ freed' \subseteq CObj \ alive'
      /\ misused' \subseteq freed'
      /\ alive' \cup freed' = alive \cup freed
      /\ \A c : c \in alive' <=> c \in alive /\ c \notin gone
      /\ \A c : c \in freed' <=> c \in freed \/ (c \in gone /\ c \in alive)
      /\ (used \cup gone) \cap freed = {} => misused' = misused
  BY CallFrees
<1>3. TypeOK'
  BY <1>1, <1>2 DEF TypeOK
<1>4. MadeInv'
  <2>1. \A k \in WrapperKinds, q \in Obj : <<k, q>> \in CObj
    BY DEF CObj
  <2>2. \A q \in Obj : <<"session", q>> \notin gone /\ <<"listener", q>> \notin gone
    OBVIOUS
  <2>3. \A q \in Obj : <<"sftp", q>> \in gone => ~lost /\ <<"channel", q>> \in gone
    OBVIOUS
  <2>4. \A q \in Obj : ~lost /\ <<"channel", q>> \in gone /\ <<"sftp", q>> \in alive
                       => <<"sftp", q>> \in gone
    OBVIOUS
  <2>5. ~lost' => \A q \in Obj : <<"sftp", q>> \in alive' => <<"channel", q>> \in alive'
    BY <1>2, <2>4 DEF MadeInv
  <2>6. \A q \in Obj : <<"sftp", q>> \in freed' => <<"channel", q>> \in freed'
    <3> SUFFICES ASSUME NEW q \in Obj, <<"sftp", q>> \in freed'
                 PROVE  <<"channel", q>> \in freed'
      OBVIOUS
    <3>1. CASE <<"sftp", q>> \in freed
      BY <1>2, <3>1 DEF MadeInv
    <3>2. CASE <<"sftp", q>> \in gone /\ <<"sftp", q>> \in alive
      <4>1. <<"channel", q>> \in gone /\ <<"channel", q>> \in alive
        BY <2>3, <3>2 DEF MadeInv
      <4> QED BY <1>2, <4>1
    <3> QED BY <1>2, <3>1, <3>2
  <2> QED BY <1>1, <1>2, <2>2, <2>5, <2>6 DEF TypeOK, MadeInv
<1>5. BackedInv'
  <2>1. ASSUME use.ops \cap {"get_channel", "shutdown"} = {}, NEW q \in Living',
               ref[q] # None, kind[q] \in {"channel", "sftp", "pkey"}
        PROVE  Owned(q) \subseteq alive'
    <3>1. Owned(q) \subseteq alive /\ q \in Obj /\ q # o
      BY <1>1, <2>1 DEF BackedInv, Living
    <3>2. \A c \in Owned(q) : c[2] = q
      BY <2>1, <3>1 DEF PtrInv, Owned, WrapperKinds
    <3> QED BY <1>2, <2>1, <3>1, <3>2
  <2>2. \A q \in Obj : <<"session", q>> \notin gone /\ <<"listener", q>> \notin gone
    OBVIOUS
  <2>3. \A q \in Obj : <<"handle", q>> \in gone => q = o
    OBVIOUS
  <2>4. \A q \in held' : kind'[q] = "listener" => <<"listener", q>> \in alive'
    BY <1>1, <1>2, <2>2 DEF BackedInv, TypeOK
  <2>5. \A q \in Living' : kind'[q] = "handle" /\ q \notin closed' => <<"handle", q>> \in alive'
    BY <1>1, <1>2, <2>3 DEF BackedInv, Living
  <2>6. kind'[Sess] = "session" => <<"session", Sess>> \in alive'
    <3>1. kind'[Sess] = kind[Sess]
      BY <1>1 DEF TypeOK
    <3> QED BY <1>2, <2>2, <3>1 DEF BackedInv
  <2> QED BY <1>1, <2>1, <2>4, <2>5, <2>6 DEF BackedInv
<1>6. FreedInv'
  <2>1. ptr[o] = <<"handle", o>> \/ kind[o] # "handle"
    BY DEF PtrInv, WrapperKinds
  <2>2. <<"handle", o>> \in alive /\ use.blocking => kind[o] = "handle" /\ o \notin closed
    BY DEF FreedInv
  <2> QED BY <1>1, <1>2, <2>1, <2>2 DEF TypeOK, FreedInv
<1>7. SessionLast'
  BY <1>2 DEF SessionLast
<1>8. NothingStale'
  BY <1>1, <1>2 DEF NothingStale, NeverStale, Orderly
<1> QED
  BY <1>1, <1>3, <1>4, <1>5, <1>6, <1>7, <1>8

\* The session, and a wrapper that still refers to it.
LEMMA SessionBacked ==
    ASSUME IInv, NEW o \in Living, kind[o] \in WrapperKinds \ {"handle"}, ref[o] # None
    PROVE  o # Sess /\ o \in Obj /\ <<"session", Sess>> \in alive
  BY LifetimeAssumption DEF IInv, RefInv, BackedInv, MadeInv, Living, WrapperKinds

\* A wrapper that goes without a call.
LEMMA DeallocSilent ==
    ASSUME IInv, NEW o \in Obj, Unreferenced(o), Dies(o), kind[o] \in WrapperKinds,
           kind[o] = "handle" => o \in closed, UNCHANGED <<cVars, lost>>
    PROVE  IInv'
<1>1. Call({}, {})
  BY DEF Call, cVars
<1>2. o # Sess
  BY LifetimeAssumption DEF IInv, MadeInv, WrapperKinds
<1> QED
  BY <1>1, <1>2, DeallocFrees

\* The destructors of the wrappers other than the session.
LEMMA WrapperDeallocInv ==
    ASSUME IInv, NEW o \in Obj, NEW done \in BOOLEAN,
           \/ DeallocChannel(o, done) \/ DeallocSftp(o, done)
           \/ DeallocHandle(o, done) \/ DeallocPkey(o, done)
           \/ DeallocListener(o)
    PROVE  IInv'
<1> USE LifetimeAssumption DEF IInv
<1>1. CASE DeallocChannel(o, done)
  <2>1. kind[o] = "channel" /\ Unreferenced(o) /\ Dies(o) /\ o \in Living /\ o # Sess
    BY <1>1 DEF DeallocChannel, Unreferenced, MadeInv
  <2>2. CASE ref[o] = None
    BY <1>1, <2>1, <2>2, DeallocSilent DEF DeallocChannel, Frees, WrapperKinds
  <2>3. CASE ref[o] # None
    <3> DEFINE used == {ptr[o], <<"session", Sess>>}
               gone == IF done THEN WithChannel(ptr[o]) ELSE {}
    <3>1. Call(used, gone) /\ lost' = lost
      BY <1>1, <2>3 DEF DeallocChannel, Frees, ChannelFree
    <3>2. PICK p \in Obj : /\ ptr[o] = <<"channel", p>>
                           /\ "get_channel" \notin use.ops => p = o
      BY <2>1 DEF PtrInv
    <3>3. /\ gone \subseteq {<<"channel", p>>} \cup ({<<"sftp", p>>} \cap (alive \cup freed))
          /\ gone \in SUBSET CObj
          /\ ~lost /\ <<"channel", p>> \in gone /\ <<"sftp", p>> \in alive
                => <<"sftp", p>> \in gone
          /\ <<"sftp", p>> \in gone => ~lost /\ <<"channel", p>> \in gone
      BY <3>2 DEF WithChannel, TypeOK, MadeInv, CObj
    <3>4. Orderly => (used \cup gone) \cap freed = {}
      <4>1. <<"session", Sess>> \in alive
        BY <2>1, <2>3, SessionBacked DEF WrapperKinds
      <4>2. Orderly => p = o /\ <<"channel", o>> \in alive /\ <<"sftp", o>> \notin alive \cup freed
        BY <2>1, <2>3, <3>2 DEF Orderly, BackedInv, Owned, MadeInv, WrapperKinds
      <4> QED BY <3>2, <3>3, <4>1, <4>2 DEF TypeOK
    <3> HIDE DEF used, gone
    <3> QED BY <2>1, <3>1, <3>2, <3>3, <3>4, DeallocFrees DEF WrapperKinds
  <2> QED BY <2>2, <2>3
<1>2. CASE DeallocSftp(o, done)
  <2>1. kind[o] = "sftp" /\ Unreferenced(o) /\ Dies(o) /\ o \in Living /\ o # Sess
    BY <1>2 DEF DeallocSftp, Unreferenced, MadeInv
  <2>2. CASE ref[o] = None
    BY <1>2, <2>1, <2>2, DeallocSilent DEF DeallocSftp, Frees, WrapperKinds
  <2>3. CASE ref[o] # None
    <3> DEFINE used == SftpOf(o)
               gone == IF done THEN WithChannel(<<"channel", o>>) ELSE {}
    <3>1. Call(used, gone) /\ lost' = lost
      BY <1>2, <2>3 DEF DeallocSftp, Frees, SftpShutdown
    <3>2. /\ gone \subseteq {<<"channel", o>>, <<"sftp", o>>}
          /\ gone \in SUBSET CObj
          /\ ~lost /\ <<"channel", o>> \in gone /\ <<"sftp", o>> \in alive
                => <<"sftp", o>> \in gone
          /\ <<"sftp", o>> \in gone => ~lost /\ <<"channel", o>> \in gone
      BY DEF WithChannel, CObj, WrapperKinds
    <3>3. Orderly => (used \cup gone) \cap freed = {}
      <4>1. <<"session", Sess>> \in alive
        BY <2>1, <2>3, SessionBacked DEF WrapperKinds
      <4>2. Orderly => <<"sftp", o>> \in alive /\ <<"channel", o>> \in alive
        BY <2>1, <2>3 DEF Orderly, BackedInv, Owned, PtrInv, WrapperKinds
      <4> QED BY <3>2, <4>1, <4>2 DEF TypeOK, SftpOf
    <3> HIDE DEF used, gone
    <3> QED BY <2>1, <3>1, <3>2, <3>3, DeallocFrees DEF WrapperKinds
  <2> QED BY <2>2, <2>3
<1>3. CASE DeallocHandle(o, done)
  <2>1. kind[o] = "handle" /\ Unreferenced(o) /\ Dies(o) /\ o \in Living /\ o # Sess
    BY <1>3 DEF DeallocHandle, Unreferenced, MadeInv
  <2>2. CASE o \in closed
    BY <1>3, <2>1, <2>2, DeallocSilent DEF DeallocHandle, WrapperKinds
  <2>3. CASE o \notin closed
    <3> DEFINE used == {ptr[o]} \cup SftpOf(home[o])
               gone == IF done THEN {ptr[o]} ELSE {}
    <3>1. Call(used, gone) /\ (use.blocking => done) /\ lost' = lost
      BY <1>3, <2>3 DEF DeallocHandle, CloseHandle
    <3>2. ptr[o] = <<"handle", o>> /\ gone \in SUBSET CObj
      BY <2>1 DEF PtrInv, WrapperKinds, TypeOK
    <3>3. Orderly => (used \cup gone) \cap freed = {}
      BY <2>1, <2>3, HandleBacked DEF TypeOK
    <3> HIDE DEF used
    <3> QED BY <2>1, <3>1, <3>2, <3>3, DeallocFrees DEF WrapperKinds
  <2> QED BY <2>2, <2>3
<1>4. CASE DeallocPkey(o, done)
  <2>1. kind[o] = "pkey" /\ Unreferenced(o) /\ Dies(o) /\ o \in Living /\ o # Sess
    BY <1>4 DEF DeallocPkey, Unreferenced, MadeInv
  <2>2. CASE ref[o] = None
    BY <1>4, <2>1, <2>2, DeallocSilent DEF DeallocPkey, Frees, WrapperKinds
  <2>3. CASE ref[o] # None
    <3> DEFINE used == {ptr[o], <<"channel", o>>, <<"session", Sess>>}
               gone == IF done THEN {ptr[o], <<"channel", o>>} ELSE {}
    <3>1. Call(used, gone) /\ lost' = lost
      BY <1>4, <2>3 DEF DeallocPkey, Frees, PkeyShutdown
    <3>2. /\ ptr[o] = <<"pkey", o>> /\ gone \in SUBSET CObj
          /\ <<"sftp", o>> \notin alive
      BY <2>1 DEF PtrInv, WrapperKinds, TypeOK, CObj, MadeInv
    <3>3. Orderly => (used \cup gone) \cap freed = {}
      <4>1. <<"session", Sess>> \in alive
        BY <2>1, <2>3, SessionBacked DEF WrapperKinds
      <4>2. Orderly => <<"pkey", o>> \in alive /\ <<"channel", o>> \in alive
        BY <2>1, <2>3 DEF Orderly, BackedInv, Owned, PtrInv, WrapperKinds
      <4> QED BY <3>2, <4>1, <4>2 DEF TypeOK
    <3> HIDE DEF used
    <3> QED BY <2>1, <3>1, <3>2, <3>3, DeallocFrees DEF WrapperKinds
  <2> QED BY <2>2, <2>3
<1>5. CASE DeallocListener(o)
  BY <1>5, DeallocSilent DEF DeallocListener, WrapperKinds
<1> QED
  BY <1>1, <1>2, <1>3, <1>4, <1>5

\* What session_free frees on its lists was not freed before; an SFTP session
\* goes with the channels that are closed before a DISCONNECT is read.
LEMMA ListsFree ==
    ASSUME IInv, NEW C \in SUBSET Lists, NEW early \in SUBSET C
    PROVE  /\ SessionFrees(C, early) \subseteq alive
           /\ C \subseteq SessionFrees(C, early)
           /\ \A c \in SessionFrees(C, early) : c[1] \in {"channel", "listener", "sftp"}
           /\ \A o \in Obj : <<"sftp", o>> \in SessionFrees(C, early) <=>
                 /\ ~lost /\ <<"channel", o>> \in early
                 /\ <<"sftp", o>> \in alive
           /\ \A o \in Obj : <<"channel", o>> \in SessionFrees(C, early)
                             <=> <<"channel", o>> \in C
<1> USE LifetimeAssumption DEF IInv
<1>1. ASSUME NEW c \in C
      PROVE  /\ c \in alive /\ c[2] \in Obj /\ c = <<c[1], c[2]>>
             /\ c[1] \in {"channel", "listener"}
    BY DEF Lists, Listed, TypeOK, CObj
<1>2. ASSUME NEW c \in early
      PROVE  WithChannel(c) = {c} \cup
                IF ~lost /\ c[1] = "channel" THEN {<<"sftp", c[2]>>} \cap alive ELSE {}
  <2>0. c \in C
    OBVIOUS
  <2>1. CASE c[1] = "channel"
    <3>1. <<"sftp", c[2]>> \notin freed
      BY <1>1, <2>0, <2>1 DEF MadeInv, TypeOK
    <3> QED BY <2>1, <3>1 DEF WithChannel
  <2>2. CASE c[1] = "listener"
    <3>1. <<"sftp", c[2]>> \notin alive \cup freed
      BY <1>1, <2>0, <2>2 DEF MadeInv
    <3> QED BY <2>2, <3>1 DEF WithChannel
  <2> QED BY <1>1, <2>0, <2>1, <2>2
<1>3. \A x : x \in SessionFrees(C, early) <=>
                x \in C \/ \E c \in early : x \in WithChannel(c)
  BY DEF SessionFrees
<1>4. /\ SessionFrees(C, early) \subseteq alive
      /\ C \subseteq SessionFrees(C, early)
      /\ \A c \in SessionFrees(C, early) : c[1] \in {"channel", "listener", "sftp"}
  BY <1>1, <1>2, <1>3
<1>5. ASSUME NEW o \in Obj
      PROVE  <<"sftp", o>> \in SessionFrees(C, early) <=>
                ~lost /\ <<"channel", o>> \in early /\ <<"sftp", o>> \in alive
  BY <1>1, <1>2, <1>3
<1>6. \A o \in Obj : <<"channel", o>> \in SessionFrees(C, early) <=> <<"channel", o>> \in C
  BY <1>1, <1>2, <1>3
<1> QED
  BY <1>4, <1>5, <1>6

\* Session.__dealloc__.
LEMMA DeallocSessionInv ==
    ASSUME IInv, NEW done \in BOOLEAN, DeallocSession(done)
    PROVE  IInv'
<1> USE LifetimeAssumption DEF IInv
<1>1. /\ kind[Sess] = "session" /\ Unreferenced(Sess) /\ Dies(Sess)
      /\ <<"session", Sess>> \in alive
  BY DEF DeallocSession, BackedInv
<1>2. /\ Living' = Living \ {Sess} /\ Sess \notin held
      /\ \A q \in Living : ref[q] # Sess
      /\ kind' = [kind EXCEPT ![Sess] = "gone"]
      /\ ref' = [ref EXCEPT ![Sess] = None]
      /\ UNCHANGED <<use, ptr, home, closed, held, cyclic>>
      /\ found' = found \ {Sess}
      /\ \A q \in Living' : kind'[q] = kind[q] /\ ref'[q] = ref[q]
      /\ PtrInv' /\ RefInv'
  BY <1>1, DiesInv
<1>3. PICK C \in SUBSET Lists : \E early \in SUBSET C :
         /\ lost' = (lost \/ early # C)
         /\ \/ /\ done /\ C = Lists
               /\ Call({<<"session", Sess>>}, SessionFrees(C, early) \cup {<<"session", Sess>>})
            \/ ~done /\ Call({<<"session", Sess>>}, SessionFrees(C, early))
  BY DEF DeallocSession
<1>3a. PICK early \in SUBSET C :
         /\ lost' = (lost \/ early # C)
         /\ \/ /\ done /\ C = Lists
               /\ Call({<<"session", Sess>>}, SessionFrees(C, early) \cup {<<"session", Sess>>})
            \/ ~done /\ Call({<<"session", Sess>>}, SessionFrees(C, early))
  BY <1>3
<1> DEFINE gone == SessionFrees(C, early) \cup (IF done THEN {<<"session", Sess>>} ELSE {})
<1>4. /\ gone \subseteq alive /\ C \subseteq gone
      /\ \A c \in gone : c[1] \in {"channel", "listener", "sftp", "session"}
      /\ \A o \in Obj : <<"sftp", o>> \in gone <=>
                        ~lost /\ <<"channel", o>> \in early /\ <<"sftp", o>> \in alive
      /\ \A o \in Obj : <<"channel", o>> \in gone <=> <<"channel", o>> \in C
      /\ <<"session", Sess>> \in gone <=> done
  <2>1. /\ SessionFrees(C, early) \subseteq alive
        /\ C \subseteq SessionFrees(C, early)
        /\ \A c \in SessionFrees(C, early) : c[1] \in {"channel", "listener", "sftp"}
        /\ \A o \in Obj : <<"sftp", o>> \in SessionFrees(C, early) <=>
              ~lost /\ <<"channel", o>> \in early /\ <<"sftp", o>> \in alive
        /\ \A o \in Obj : <<"channel", o>> \in SessionFrees(C, early)
                          <=> <<"channel", o>> \in C
    BY ListsFree
  <2> DEFINE free == SessionFrees(C, early)
  <2> HIDE DEF free
  <2>2. gone = free \cup (IF done THEN {<<"session", Sess>>} ELSE {})
    BY DEF free
  <2> QED BY <1>1, <2>1, <2>2 DEF free
<1>4a. Call({<<"session", Sess>>}, gone) /\ (done => C = Lists)
  <2>1. CASE done
    <3>1. gone = SessionFrees(C, early) \cup {<<"session", Sess>>}
      BY <2>1
    <3> HIDE DEF gone
    <3> QED BY <1>3a, <2>1, <3>1
  <2>2. CASE ~done
    <3>1. gone = SessionFrees(C, early)
      BY <2>2
    <3> HIDE DEF gone
    <3> QED BY <1>3a, <2>2, <3>1
  <2> QED BY <2>1, <2>2
<1> HIDE DEF gone
<1>5. /\ alive' \subseteq CObj /\ freed' \subseteq CObj \ alive'
      /\ misused' \subseteq freed'
      /\ alive' \cup freed' = alive \cup freed
      /\ \A c : c \in alive' <=> c \in alive /\ c \notin gone
      /\ \A c : c \in freed' <=> c \in freed \/ (c \in gone /\ c \in alive)
      /\ misused' = misused
  BY <1>1, <1>4, <1>4a, CallFrees DEF TypeOK
<1>6. TypeOK'
  BY <1>2, <1>3a, <1>5 DEF TypeOK
<1>7. MadeInv'
  <2>1. ~lost' => ~lost /\ early = C
    BY <1>3a
  <2> QED BY <1>1, <1>2, <1>4, <1>5, <2>1 DEF TypeOK, MadeInv, WrapperKinds
<1>8. BackedInv'
  <2>1. \A q \in Living' : q \in Obj /\ kind[q] \in WrapperKinds
    BY <1>2 DEF Living, MadeInv, TypeOK
  <2>2. \A q \in Living' : kind'[q] # "handle" => ref'[q] = None
    BY <1>2, <2>1 DEF RefInv
  <2>3. \A q \in held' : kind'[q] = "handle"
    BY <1>2, <2>1, <2>2 DEF RefInv
  <2>4. \A q \in Obj : <<"handle", q>> \notin gone
    BY <1>4
  <2>5. kind'[Sess] # "session"
    BY <1>2 DEF TypeOK
  <2> QED BY <1>2, <1>5, <2>1, <2>2, <2>3, <2>4, <2>5 DEF BackedInv
<1>9. FreedInv'
  <2>1. \A q \in Obj : <<"handle", q>> \notin gone
    BY <1>4
  <2>2. use.blocking => done
    BY DEF DeallocSession
  <2> QED BY <1>1, <1>2, <1>4, <1>5, <2>1, <2>2 DEF FreedInv, TypeOK
<1>10. SessionLast'
  <2>1. CASE done
    <3>1. ASSUME NEW c \in alive', c[1] \in {"channel", "listener"}
          PROVE  FALSE
      <4>1. c \in alive /\ c \notin gone
        BY <1>5
      <4> QED BY <1>4, <1>4a, <2>1, <3>1, <4>1 DEF Lists, Listed
    <3>2. ASSUME NEW c \in alive', c[1] = "sftp", ~lost'
          PROVE  FALSE
      <4>1. c \in alive /\ c \notin gone /\ c[2] \in Obj /\ c = <<"sftp", c[2]>>
        BY <1>5, <3>2 DEF TypeOK, CObj
      <4>2. ~lost /\ early = C
        BY <1>3a, <3>2
      <4>3. <<"channel", c[2]>> \in alive
        BY <4>1, <4>2 DEF MadeInv
      <4>4. <<"channel", c[2]>> \in C
        BY <1>4a, <2>1, <4>3 DEF Lists, Listed
      <4> QED BY <1>4, <4>1, <4>2, <4>4
    <3> QED BY <3>1, <3>2 DEF SessionLast
  <2>2. CASE ~done
    BY <1>1, <1>4, <1>5, <2>2 DEF SessionLast, TypeOK
  <2> QED BY <2>1, <2>2
<1>11. NothingStale'
  BY <1>2, <1>5 DEF NothingStale, NeverStale, Orderly
<1> QED
  BY <1>2, <1>6, <1>7, <1>8, <1>9, <1>10, <1>11

-------------------------------------------------------------------------------
(* Dropping wrappers and collecting them. *)

\* No step but those above changes an object or a wrapper, except that the
\* collector clears references of wrappers that it found.  The server may
\* disconnect.
LEMMA RefsInv ==
    ASSUME IInv, UNCHANGED <<use, kind, ptr, home, closed, cVars>>,
           lost' \in BOOLEAN, lost => lost', held' \subseteq held,
           \A o \in Obj : ref'[o] \in {ref[o], None}, ref' \in [Obj -> Obj \cup {None}],
           RefInv'
    PROVE  IInv'
<1> USE LifetimeAssumption DEF IInv, cVars
<1>1. TypeOK'
  BY DEF TypeOK, RefInv, Living
<1>2. MadeInv' /\ PtrInv' /\ FreedInv' /\ SessionLast' /\ NothingStale'
  BY DEF MadeInv, PtrInv, FreedInv, SessionLast, NothingStale, NeverStale, Orderly
<1>3. BackedInv'
  <2>1. Living' = Living /\ \A o \in Living : o \in Obj /\ Owned(o)' = Owned(o)
    BY DEF Living, Owned
  <2> QED BY <2>1 DEF BackedInv
<1> QED
  BY <1>1, <1>2, <1>3

\* Release and Gc.
LEMMA GcInv ==
    ASSUME IInv, Gc \/ \E o \in Obj : Release(o)
    PROVE  IInv'
<1> USE LifetimeAssumption DEF IInv
<1>1. ASSUME NEW o \in Obj, Release(o) PROVE IInv'
  <2>1. /\ held' = held \ {o}
        /\ UNCHANGED <<use, kind, ptr, ref, home, closed, cyclic, found, cVars, lost>>
    BY <1>1 DEF Release, pyVars
  <2>2. RefInv'
    BY <2>1 DEF RefInv, Living
  <2> QED BY <2>1, <2>2, RefsInv DEF TypeOK
<1>2. ASSUME NEW S \in SUBSET Obj, GcFind(S) PROVE IInv'
  <2>1. /\ S \subseteq held /\ "gc" \in use.ops
        /\ held' = held \ S /\ cyclic' = S
        /\ found' = Reach(S) \ Reach(held \ S)
        /\ UNCHANGED <<use, kind, ptr, ref, home, closed, cVars, lost>>
    BY <1>2 DEF GcFind, pyVars
  <2>2. Living' = Living
    BY <2>1 DEF Living
  <2>3. Reach(S) \subseteq Living
    BY <2>1 DEF Reach, RefInv
  <2>4. \A o \in held \ S : /\ o \in Reach(held \ S)
                            /\ ref[o] # None => ref[o] \in Reach(held \ S)
    BY <2>1 DEF Reach
  <2>5. RefInv'
    BY <2>1, <2>2, <2>3, <2>4 DEF RefInv
  <2> QED BY <2>1, <2>5, RefsInv DEF TypeOK
<1>3. ASSUME NEW o \in Obj, GcClear(o) PROVE IInv'
  <2>1. /\ o \in found /\ ref' = [ref EXCEPT ![o] = None] /\ found' = found \ {o}
        /\ UNCHANGED <<use, kind, ptr, home, closed, held, cyclic, cVars, lost>>
    BY <1>3 DEF GcClear
  <2>2. Living' = Living
    BY <2>1 DEF Living
  <2>3. RefInv'
    BY <2>1, <2>2 DEF TypeOK, RefInv
  <2> QED BY <2>1, <2>3, RefsInv DEF TypeOK
<1>4. ASSUME NEW o \in Obj, GcBreak(o) PROVE IInv'
  <2>1. /\ cyclic' = cyclic \ {o}
        /\ UNCHANGED <<use, kind, ptr, ref, home, closed, held, found, cVars, lost>>
    BY <1>4 DEF GcBreak, pyVars
  <2>2. RefInv'
    BY <2>1 DEF RefInv, Living
  <2> QED BY <2>1, <2>2, RefsInv DEF TypeOK
<1> QED
  BY <1>1, <1>2, <1>3, <1>4 DEF Gc

\* Every step keeps the invariant.
LEMMA NextInv ==
    ASSUME IInv, [Next]_vars
    PROVE  IInv'
<1>1. CASE Dealloc
  BY <1>1, WrapperDeallocInv, DeallocSessionInv DEF Dealloc
<1>2. CASE UNCHANGED vars
  <2>1. RefInv'
    BY <1>2 DEF IInv, RefInv, Living, vars, pyVars, refVars
  <2>2. ref' \in [Obj -> Obj \cup {None}]
    BY <1>2 DEF IInv, TypeOK, vars, pyVars
  <2> QED BY <1>2, <2>1, <2>2, RefsInv DEF IInv, TypeOK, vars, pyVars, refVars
<1>3. CASE Disconnected
  <2>1. RefInv'
    BY <1>3 DEF IInv, RefInv, Living, Disconnected, pyVars, refVars
  <2>2. ref' \in [Obj -> Obj \cup {None}]
    BY <1>3 DEF IInv, TypeOK, Disconnected, pyVars
  <2> QED BY <1>3, <2>1, <2>2, RefsInv DEF IInv, TypeOK, Disconnected, pyVars, refVars
<1> QED
  BY <1>1, <1>2, <1>3, UseInv, CloseInv, GcInv DEF Next, Over

-------------------------------------------------------------------------------
(* Theorems. *)

(***************************************************************************)
(* The inductive invariant holds in every reachable state: a reference     *)
(* that is not None leads to a living wrapper, and what a wrapper with a   *)
(* reference would free in __dealloc__ has not been freed by another.      *)
(***************************************************************************)
THEOREM InvariantHolds == Spec => []IInv
<1>1. Init => IInv
  BY InitInv
<1>2. IInv /\ [Next]_vars => IInv'
  BY NextInv
<1> QED
  BY <1>1, <1>2, PTL DEF Spec

(***************************************************************************)
(* As long as the use is orderly, no destructor, close or open hands       *)
(* libssh2 an object that was freed, whatever the order in which wrappers  *)
(* are dropped and the collector clears them, and wherever EAGAIN stops a  *)
(* deallocation.                                                           *)
(***************************************************************************)
THEOREM NothingIsStale == Spec => []NothingStale
<1>1. IInv => NothingStale
  BY DEF IInv
<1> QED
  BY <1>1, InvariantHolds, PTL

(***************************************************************************)
(* No two wrappers free the same libssh2 object unless get_channel made    *)
(* one of them; no channel or listener outlives the session, and no SFTP   *)
(* session does unless the server has disconnected, in any use.            *)
(***************************************************************************)
THEOREM OwnershipIsRight == Spec => []OwnershipRight
<1>1. ASSUME IInv, "get_channel" \notin use.ops, NEW o \in Living, NEW q \in Living,
             NEW c \in Owned(o) \cap Owned(q)
      PROVE  o = q
  <2>1. \A p \in Living : p \in Obj /\ kind[p] \in WrapperKinds \cup {"session"}
    BY <1>1 DEF IInv, TypeOK, Living
  <2>2. \A p \in Living : \A d \in Owned(p) : d[2] = p
    BY <1>1, <2>1 DEF IInv, PtrInv, Owned, WrapperKinds
  <2> QED BY <2>2
<1>2. IInv => OwnershipRight
  BY <1>1 DEF IInv, OwnershipRight, OneOwner
<1> QED
  BY <1>2, InvariantHolds, PTL

(***************************************************************************)
(* In blocking mode a handle that counts as closed is freed, and when the  *)
(* last wrapper of an orderly use is gone nothing that libssh2 allocated   *)
(* is left; but SFTP sessions if the server has disconnected.              *)
(***************************************************************************)
THEOREM AllIsFreed == Spec => []AllFreed
<1>1. IInv => ClosedIsFreed
  BY DEF IInv, FreedInv, ClosedIsFreed
<1>2. ASSUME IInv, use.blocking, "pkey" \notin use.kinds, Living = {}, NEW c \in alive
      PROVE  lost /\ c \in {"sftp"} \X Obj
  <2>1. c[2] \in Obj /\ c = <<c[1], c[2]>> /\ c[1] \in WrapperKinds \cup {"session"}
    BY <1>2 DEF IInv, TypeOK, CObj
  <2>2. \A o \in Obj : kind[o] \in {"none", "gone"}
    BY <1>2 DEF Living
  <2>3. <<"session", Sess>> \in freed
    BY <1>2, <2>2, LifetimeAssumption DEF IInv, MadeInv, FreedInv
  <2>4. c[1] # "session"
    BY <1>2, <2>1, <2>3 DEF IInv, MadeInv, TypeOK
  <2>5. c[1] \notin {"channel", "listener"} /\ (c[1] = "sftp" => lost)
    BY <1>2, <2>3 DEF IInv, SessionLast
  <2>6. c[1] # "handle"
    BY <1>2, <2>1, <2>2 DEF IInv, FreedInv
  <2>7. c[1] # "pkey"
    BY <1>2, <2>1 DEF IInv, MadeInv
  <2> QED BY <2>1, <2>4, <2>5, <2>6, <2>7 DEF WrapperKinds
<1>3. IInv => AllFreed
  BY <1>1, <1>2 DEF AllFreed, NothingLeaks
<1> QED
  BY <1>3, InvariantHolds, PTL
===============================================================================
