------------------------------ MODULE AgentAuth -------------------------------
(***************************************************************************)
(* The SSH agent: Session.agent_auth, which makes an agent, connects it    *)
(* and tries its identities one by one, all without the GIL, and the Agent *)
(* class, which gives the same steps to the program one at a time.         *)
(*                                                                         *)
(* An agent of libssh2 has a socket and a list of identities.  The program *)
(* has other threads, which open and close file descriptors at any time; a *)
(* descriptor that is closed can be given to anybody.                      *)
(*                                                                         *)
(* The session is in blocking mode (agent_auth asks for it), but its       *)
(* timeout may be set: then an authentication can be left half done.  The  *)
(* state of it is kept in the session, the identity that signs in the      *)
(* agent; a later call, perhaps with another agent, goes on with it.       *)
(*                                                                         *)
(* A call that was given a freed identity, or NULL for one, is undefined;  *)
(* the model records it in misused and goes on.  Running out of memory is  *)
(* not modelled.                                                           *)
(***************************************************************************)
EXTENDS Integers, FiniteSets

CONSTANTS
    Agents,     \* the libssh2 agents that may be made
    Fds,        \* file descriptors
    None,       \* no agent, no descriptor, no identity
    MaxIds,     \* bound: how many identities an agent lists
    MaxLists,   \* bound: how often an agent is asked for its identities
    Uses        \* the ways the agent is used, see below

(***************************************************************************)
(* A use of the agent: whether an authentication may be left half done     *)
(* (libssh2_session_set_timeout was called, or Agent.userauth is used on a *)
(* session that is not blocking), whether the agent's socket may refuse    *)
(* the connection, and what the program does: it calls Session.agent_auth, *)
(* makes an Agent itself or with Session.agent_init, keeps the PublicKeys  *)
(* of a former list, connects an Agent that is connected.                  *)
(***************************************************************************)
OpKinds == {"agent_auth", "Agent", "agent_init", "keep_keys", "reconnect"}

\* Identity no of the list-th list of an agent.
Identity == [agent : Agents, list : 1..MaxLists, no : 1..MaxIds]

ASSUME AgentAssumption ==
    /\ None \notin Agents \cup Fds \cup Identity \cup {"other"} /\ "other" \notin Agents
    /\ MaxIds \in Nat /\ MaxLists \in Nat
    /\ Uses \subseteq [timeouts : BOOLEAN, refused : BOOLEAN, ops : SUBSET OpKinds]

VARIABLES
    use,      \* how the agent is used
    agent,    \* agent[a]: "none", "made" or "freed"
    fd,       \* fd[a]: agent->fd
    file,     \* file[f]: who has opened f: an agent, "other" or None
    lists,    \* lists[a]: how often the identities were listed
    ids,      \* ids[a]: the number of identities in agent->head
    identity, \* identity[a]: agent->identity, the one that agent_sign uses
    pc,       \* where agent_auth is
    self,     \* the agent it uses
    prev,     \* the identity it has tried last
    offered,  \* the identities it has really offered to the server
    pending,  \* the identity of a publickey authentication that is under way
    result,   \* how agent_auth ended
    wrapper,  \* the agent of the Agent object that the program has
    keys,     \* the identities behind the PublicKey objects it has
    misused,  \* the freed agents and identities that libssh2 used, or NULL
    stolen    \* the descriptors of others that an agent has closed

fdVars == <<fd, file, stolen>>
authVars == <<pc, self, prev, offered, result>>
pyVars == <<wrapper, keys>>
listVars == <<lists, ids>>
vars == <<use, agent, fdVars, listVars, identity, authVars, pending, pyVars, misused>>

TypeOK ==
    /\ use \in Uses
    /\ agent \in [Agents -> {"none", "made", "freed"}]
    /\ fd \in [Agents -> Fds \cup {None}]
    /\ file \in [Fds -> Agents \cup {"other", None}]
    /\ lists \in [Agents -> 0..MaxLists]
    /\ ids \in [Agents -> 0..MaxIds]
    /\ identity \in [Agents -> Identity \cup {None}]
    /\ pc \in {"idle", "refused", "list", "next", "userauth"}
    /\ self \in Agents \cup {None}
    /\ (pc # "idle") = (self # None)
    /\ prev \in 0..MaxIds
    /\ offered \subseteq 1..MaxIds
    /\ pending \in Identity \cup {None}
    /\ result \in {"none", "ok", "connection", "identities", "authentication"}
    /\ wrapper \in Agents \cup {None}
    /\ keys \subseteq Identity
    /\ misused \subseteq Agents \cup Identity \cup {None}
    /\ stolen \subseteq Fds

Init ==
    /\ use \in Uses
    /\ agent = [a \in Agents |-> "none"]
    /\ fd = [a \in Agents |-> None]
    /\ file = [f \in Fds |-> None]
    /\ lists = [a \in Agents |-> 0] /\ ids = [a \in Agents |-> 0]
    /\ identity = [a \in Agents |-> None]
    /\ pc = "idle" /\ self = None /\ prev = 0 /\ offered = {} /\ result = "none"
    /\ pending = None
    /\ wrapper = None /\ keys = {} /\ misused = {} /\ stolen = {}

\* An identity whose memory is still there.
Alive(k) ==
    /\ k # None /\ agent[k.agent] = "made"
    /\ k.list = lists[k.agent] /\ k.no <= ids[k.agent]

-------------------------------------------------------------------------------
(* The functions of libssh2. *)

\* libssh2_agent_connect: no path to a socket, no socket, refused, or done.  It
\* does not look whether the agent has a socket already.
Connect(a, answer) ==
    \/ answer = "no_path" /\ UNCHANGED fdVars
    \/ /\ answer = "no_socket"
       /\ fd' = [fd EXCEPT ![a] = None]
       /\ UNCHANGED <<file, stolen>>
    \/ \E f \in Fds :
         /\ file[f] = None
         /\ \/ answer = "done" /\ file' = [file EXCEPT ![f] = a]
            \/ answer = "refused" /\ use.refused /\ UNCHANGED file
         /\ fd' = [fd EXCEPT ![a] = f]
         /\ UNCHANGED stolen

\* Bug: the descriptor is not forgotten when it is closed.
DisconnectKeeps(a) ==
    /\ IF fd[a] # None /\ file[fd[a]] # None
         THEN /\ file' = [file EXCEPT ![fd[a]] = None]
              /\ stolen' = IF file[fd[a]] = "other" THEN stolen \cup {fd[a]} ELSE stolen
         ELSE UNCHANGED <<file, stolen>>
    /\ UNCHANGED fd

\* libssh2_agent_disconnect; closing a descriptor that is not open fails.
Disconnect(a) ==
    IF fd[a] # None /\ file[fd[a]] # None
      THEN /\ file' = [file EXCEPT ![fd[a]] = None]
           /\ fd' = [fd EXCEPT ![a] = None]
           /\ stolen' = IF file[fd[a]] = "other" THEN stolen \cup {fd[a]} ELSE stolen
      ELSE UNCHANGED fdVars

\* libssh2_agent_free, and clear_agent, which disconnects once more; stale: what
\* was used before although it had been freed.
ClearAgent(a, stale) ==
    /\ agent' = [agent EXCEPT ![a] = "freed"]
    /\ misused' = misused \cup stale \cup {b \in {a} : agent[b] = "freed"}
    /\ Disconnect(a)
    /\ UNCHANGED listVars

\* libssh2_agent_list_identities: the former list is freed first.
ListIdentities(a, n) ==
    /\ fd[a] # None /\ file[fd[a]] = a
    /\ lists[a] < MaxLists
    /\ lists' = [lists EXCEPT ![a] = @ + 1]
    /\ ids' = [ids EXCEPT ![a] = n]

\* agent->identity in libssh2_agent_userauth: the call goes on with an
\* authentication that is under way, whatever identity it is given.
Signer(a, k) == IF pending = None THEN k ELSE identity[a]

\* The freed identities that it uses: the one it is given, and, when the call
\* comes to the signature (agent_sign), the one that signs.
Stale(a, k, signs) ==
    {i \in {k} \cup (IF signs THEN {Signer(a, k)} ELSE {}) : ~Alive(i)}

-------------------------------------------------------------------------------
(* Session.agent_auth. *)

Raise(why) ==
    /\ pc' = "idle" /\ self' = None /\ result' = why
    /\ UNCHANGED <<prev, offered>>

\* init_connect_agent makes an agent and connects it.
InitConnectAgent(a, answer) ==
    /\ "agent_auth" \in use.ops /\ pc = "idle" /\ agent[a] = "none"
    /\ Connect(a, answer)
    /\ agent' = [agent EXCEPT ![a] = "made"]
    /\ self' = a /\ prev' = 0 /\ offered' = {} /\ result' = "none"
    /\ pc' = IF answer = "done" THEN "list" ELSE "refused"
    /\ UNCHANGED <<listVars, identity, pending, pyVars, misused>>

\* It frees the agent that could not be connected.
ConnectFailed ==
    /\ pc = "refused"
    /\ ClearAgent(self, {})
    /\ Raise("connection")
    /\ UNCHANGED <<identity, pending, pyVars>>

\* The identities are listed.
AuthList(n) ==
    /\ pc = "list"
    /\ ListIdentities(self, n)
    /\ pc' = "next"
    /\ UNCHANGED <<agent, fdVars, identity, self, prev, offered, result, pending,
                   pyVars, misused>>

\* Bug: the agent is not freed on this path.
AuthListFailedKept ==
    /\ pc = "list"
    /\ Raise("identities")
    /\ UNCHANGED <<agent, fdVars, listVars, identity, pending, pyVars, misused>>

AuthListFailed ==
    /\ pc = "list"
    /\ ClearAgent(self, {})
    /\ Raise("identities")
    /\ UNCHANGED <<identity, pending, pyVars>>

\* Bug: an identity is left out.
AuthIdentitySkips ==
    /\ pc = "next" /\ prev + 1 < ids[self]
    /\ prev' = prev + 2
    /\ pc' = "userauth"
    /\ UNCHANGED <<agent, fdVars, listVars, identity, self, offered, result, pending,
                   pyVars, misused>>

\* auth_identity: the identity after prev.
AuthIdentity ==
    /\ pc = "next" /\ prev < ids[self]
    /\ prev' = prev + 1
    /\ pc' = "userauth"
    /\ UNCHANGED <<agent, fdVars, listVars, identity, self, offered, result, pending,
                   pyVars, misused>>

\* auth_identity frees the agent when there is no further identity.
NoMore ==
    /\ pc = "next" /\ prev >= ids[self]
    /\ ClearAgent(self, {})
    /\ Raise("authentication")
    /\ UNCHANGED <<identity, pending, pyVars>>

\* The identity that agent_auth gives to libssh2_agent_userauth, and the one
\* that is offered to the server.
Chosen == [agent |-> self, list |-> lists[self], no |-> prev]
Offers == IF pending = None THEN Chosen ELSE pending

\* libssh2_agent_userauth offers it; the call may come to the signature or not.
Offer ==
    /\ pc = "userauth"
    /\ offered' = IF Offers.agent = self THEN offered \cup {Offers.no} ELSE offered
    /\ identity' = [identity EXCEPT ![self] = Signer(self, Chosen)]

\* The server answers, or the connection is lost: accepted, or not.
Userauth(ok, signs) ==
    /\ Offer
    /\ pending' = None
    /\ IF ok
         THEN /\ ClearAgent(self, Stale(self, Chosen, signs))
              /\ pc' = "idle" /\ self' = None /\ result' = "ok"
         ELSE /\ misused' = misused \cup Stale(self, Chosen, signs)
              /\ pc' = "next"
              /\ UNCHANGED <<agent, fdVars, listVars, self, result>>
    /\ UNCHANGED <<prev, pyVars>>

\* The timeout of the session ends the call and not the authentication.
UserauthTimeout(signs) ==
    /\ use.timeouts
    /\ Offer
    /\ pending' = Offers
    /\ misused' = misused \cup Stale(self, Chosen, signs)
    /\ pc' = "next"
    /\ UNCHANGED <<agent, fdVars, listVars, self, prev, result, pyVars>>

-------------------------------------------------------------------------------
(* The Agent class; agent_auth is not running meanwhile. *)

\* Agent(session).
NewAgent(a) ==
    /\ "Agent" \in use.ops /\ pc = "idle" /\ wrapper = None /\ agent[a] = "none"
    /\ agent' = [agent EXCEPT ![a] = "made"]
    /\ wrapper' = a
    /\ UNCHANGED <<fdVars, listVars, identity, authVars, pending, keys, misused>>

\* Session.agent_init: PyAgent replaces the agent b that __cinit__ has made.
AgentInit(a, b) ==
    /\ "agent_init" \in use.ops /\ pc = "idle" /\ wrapper = None
    /\ a # b /\ agent[a] = "none" /\ agent[b] = "none"
    /\ agent' = [agent EXCEPT ![a] = "made", ![b] = "made"]
    /\ wrapper' = a
    /\ UNCHANGED <<fdVars, listVars, identity, authVars, pending, keys, misused>>

\* Agent.connect, which does not ask whether the agent is connected.
AgentConnect(answer) ==
    /\ pc = "idle" /\ wrapper # None
    /\ fd[wrapper] # None => "reconnect" \in use.ops \/ file[fd[wrapper]] # wrapper
    /\ Connect(wrapper, answer)
    /\ UNCHANGED <<agent, listVars, identity, authVars, pending, pyVars, misused>>

\* Agent.disconnect.
AgentDisconnect ==
    /\ pc = "idle" /\ wrapper # None
    /\ Disconnect(wrapper)
    /\ UNCHANGED <<agent, listVars, identity, authVars, pending, pyVars, misused>>

\* Agent.get_identities; the program may keep the PublicKeys of before.
GetIdentities(n) ==
    /\ pc = "idle" /\ wrapper # None
    /\ ListIdentities(wrapper, n)
    /\ keys' = (IF "keep_keys" \in use.ops THEN keys ELSE {})
               \cup [agent : {wrapper}, list : {lists[wrapper] + 1}, no : 1..n]
    /\ UNCHANGED <<agent, fdVars, identity, authVars, pending, wrapper, misused>>

\* It fails, or the agent is not connected; the former list is freed anyway.
GetIdentitiesFailed ==
    /\ pc = "idle" /\ wrapper # None
    /\ lists[wrapper] < MaxLists
    /\ lists' = [lists EXCEPT ![wrapper] = @ + 1]
    /\ ids' = [ids EXCEPT ![wrapper] = 0]
    /\ keys' = IF "keep_keys" \in use.ops THEN keys ELSE {}
    /\ UNCHANGED <<agent, fdVars, identity, authVars, pending, wrapper, misused>>

\* Agent.userauth, with a PublicKey.
AgentUserauth(k, done, signs) ==
    /\ pc = "idle" /\ wrapper # None /\ k \in keys
    /\ done \/ use.timeouts
    /\ misused' = misused \cup Stale(wrapper, k, signs)
    /\ identity' = [identity EXCEPT ![wrapper] = Signer(wrapper, k)]
    /\ pending' = IF done THEN None ELSE IF pending = None THEN k ELSE pending
    /\ UNCHANGED <<agent, fdVars, listVars, authVars, pyVars>>

\* Agent.__dealloc__.
AgentDealloc ==
    /\ pc = "idle" /\ wrapper # None
    /\ ClearAgent(wrapper, {})
    /\ wrapper' = None
    /\ keys' = IF "keep_keys" \in use.ops THEN keys ELSE {}
    /\ UNCHANGED <<identity, authVars, pending>>

-------------------------------------------------------------------------------
(* Other threads of the program. *)

OtherOpen(f) ==
    /\ file[f] = None
    /\ file' = [file EXCEPT ![f] = "other"]
    /\ UNCHANGED <<agent, fd, stolen, listVars, identity, authVars, pending, pyVars,
                   misused>>

OtherClose(f) ==
    /\ file[f] = "other"
    /\ file' = [file EXCEPT ![f] = None]
    /\ UNCHANGED <<agent, fd, stolen, listVars, identity, authVars, pending, pyVars,
                   misused>>

\* agent_auth is not running and the program has no Agent.
Over == pc = "idle" /\ wrapper = None

\* The bound: all agents were made.
Ended == Over /\ (\A a \in Agents : agent[a] # "none") /\ UNCHANGED vars

Answers == {"done", "refused", "no_path", "no_socket"}

SessionAgentAuth ==
    \/ \E a \in Agents, answer \in Answers : InitConnectAgent(a, answer)
    \/ ConnectFailed
    \/ \E n \in 0..MaxIds : AuthList(n)
    \/ AuthListFailed \/ AuthIdentity \/ NoMore
    \/ \E ok, signs \in BOOLEAN : Userauth(ok, signs)
    \/ \E signs \in BOOLEAN : UserauthTimeout(signs)

AgentClass ==
    \/ \E a \in Agents : NewAgent(a)
    \/ \E a, b \in Agents : AgentInit(a, b)
    \/ \E answer \in Answers : AgentConnect(answer)
    \/ AgentDisconnect
    \/ \E n \in 0..MaxIds : GetIdentities(n)
    \/ GetIdentitiesFailed
    \/ \E k \in keys, done, signs \in BOOLEAN : AgentUserauth(k, done, signs)
    \/ AgentDealloc

Others == \E f \in Fds : OtherOpen(f) \/ OtherClose(f)

Next == (SessionAgentAuth \/ AgentClass \/ Others \/ Ended) /\ UNCHANGED use

Spec == Init /\ [][Next]_vars

-------------------------------------------------------------------------------
(* Properties. *)

(***************************************************************************)
(* "On completion, or any errors, agent is disconnected and resources      *)
(* freed", the socket's part: when agent_auth is over and the Agent object *)
(* is gone, no socket of an agent is open.  Violated by a program that     *)
(* connects an Agent twice.                                                *)
(***************************************************************************)
SocketsClosed == Over => \A f \in Fds : file[f] \notin Agents

(***************************************************************************)
(* Then no agent is allocated either (but the one that agent_init replaces *)
(* is never freed) and, if no Agent was connected twice, no socket of one  *)
(* is open, whatever failed.                                               *)
(***************************************************************************)
NothingLeft ==
    "agent_init" \notin use.ops =>
        /\ Over => \A a \in Agents : agent[a] # "made"
        /\ "reconnect" \notin use.ops => SocketsClosed

(***************************************************************************)
(* An agent closes no descriptor but its own, whatever other threads open  *)
(* in the meantime.  (After a connection that was refused the agent closes *)
(* its descriptor once more, and by then it may be another thread's.)      *)
(***************************************************************************)
OwnSocketOnly == ~use.refused => stolen = {}

(***************************************************************************)
(* No agent is freed twice, and no authentication uses an identity whose   *)
(* memory was freed, or none at all.  Violated after a timeout: agent_auth *)
(* goes on with the authentication, and signs with the identity of an      *)
(* agent that never had one.                                               *)
(***************************************************************************)
NoneMisused == misused = {}

(***************************************************************************)
(* None is, as long as no authentication is left half done and the program *)
(* does not keep PublicKeys when it lists the identities again or drops    *)
(* the Agent.                                                              *)
(***************************************************************************)
NothingFreedUsed == "keep_keys" \notin use.ops /\ ~use.timeouts => NoneMisused

(***************************************************************************)
(* On every path through agent_auth and the Agent class an agent is freed  *)
(* exactly once, its socket with it unless the program connected it twice, *)
(* and neither it nor an identity of it is used afterwards under the       *)
(* conditions of NothingFreedUsed.                                         *)
(***************************************************************************)
AgentFreedOnce == TypeOK /\ NothingLeft /\ NothingFreedUsed

(***************************************************************************)
(* agent_auth "attempts authentication with each identity": it gives up    *)
(* only when it has offered every identity of the agent to the server.     *)
(***************************************************************************)
EachOffered ==
    pc = "next" /\ prev = ids[self] => offered = 1..ids[self]

(***************************************************************************)
(* Without a timeout, agent_auth attempts authentication with each         *)
(* identity, in whatever order agent_auth and Agent.userauth were used on  *)
(* the session before.                                                     *)
(***************************************************************************)
AllOffered == ~use.timeouts => EachOffered
===============================================================================
