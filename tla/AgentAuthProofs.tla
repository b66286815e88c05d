---------------------------- MODULE AgentAuthProofs ----------------------------
(***************************************************************************)
(* Proofs about AgentAuth: on every path an agent is freed exactly once,   *)
(* with its socket unless the program connected it twice, no descriptor of *)
(* another thread is closed, and agent_auth gives up only when it has      *)
(* offered every identity; for any number of agents, descriptors,          *)
(* identities and listings and all uses.                                   *)
(***************************************************************************)
EXTENDS AgentAuth, TLAPS

(***************************************************************************)
(* The inductive invariant.  The properties speak of the end: that nothing *)
(* is left, that all was offered.  On the way there each agent that is     *)
(* allocated belongs to agent_auth or to the Agent object, and to one of   *)
(* them only (OwnersInv); unless it was connected twice, an open           *)
(* descriptor of an agent is the one in its agent->fd, so that freeing the *)
(* agent closes it (FilesInv); a PublicKey belongs to the last list of the *)
(* Agent object (KeysInv); what was offered are the identities up to prev, *)
(* and without a timeout no authentication is left half done (AuthInv).    *)
(***************************************************************************)

\* The agents that are allocated, and by whom.
OwnersInv ==
    /\ pc # "idle" => agent[self] = "made"
    /\ wrapper # None => agent[wrapper] = "made" /\ wrapper # self
    /\ "agent_init" \notin use.ops =>
          \A a \in Agents : agent[a] = "made" => a \in {self, wrapper}

\* The descriptors of agents.
FilesInv ==
    /\ "reconnect" \notin use.ops =>
          \A f \in Fds : file[f] \in Agents =>
             agent[file[f]] = "made" /\ fd[file[f]] = f
    /\ ~use.refused =>
          stolen = {} /\ \A a \in Agents : fd[a] # None => file[fd[a]] = a

\* The identities behind PublicKeys.
KeysInv ==
    "keep_keys" \notin use.ops =>
        /\ \A k \in keys : k.agent = wrapper /\ Alive(k)
        /\ ~use.timeouts => misused = {}

\* How far agent_auth is.
AuthInv ==
    /\ pc = "list" => prev = 0 /\ offered = {}
    /\ pc \in {"next", "userauth"} => lists[self] >= 1 /\ prev <= ids[self]
    /\ pc = "userauth" => prev >= 1
    /\ ~use.timeouts =>
          /\ pending = None
          /\ pc = "next" => offered = 1..prev
          /\ pc = "userauth" => offered = 1..(prev - 1)

IInv == TypeOK /\ OwnersInv /\ FilesInv /\ KeysInv /\ AuthInv

-------------------------------------------------------------------------------
(* The functions of libssh2. *)

\* A connection gives the agent one open descriptor at most, a free one.
LEMMA ConnectInv ==
    ASSUME IInv, NEW a \in Agents, NEW answer \in Answers,
           Connect(a, answer),
           "reconnect" \notin use.ops => \A f \in Fds : file[f] # a,
           agent' \in [Agents -> {"none", "made", "freed"}], agent'[a] = "made",
           \A b \in Agents : agent[b] = "made" => agent'[b] = "made",
           use' = use
    PROVE  /\ fd' \in [Agents -> Fds \cup {None}]
           /\ file' \in [Fds -> Agents \cup {"other", None}]
           /\ stolen' = stolen
           /\ FilesInv'
<1> USE AgentAssumption DEF IInv
<1>1. CASE UNCHANGED fdVars
  BY <1>1 DEF fdVars, TypeOK, FilesInv
<1>2. ASSUME NEW f \in Fds, file[f] = None, answer = "done",
             file' = [file EXCEPT ![f] = a], fd' = [fd EXCEPT ![a] = f],
             UNCHANGED stolen
      PROVE  /\ fd' \in [Agents -> Fds \cup {None}]
             /\ file' \in [Fds -> Agents \cup {"other", None}]
             /\ FilesInv'
  BY <1>2 DEF TypeOK, FilesInv
<1>3. ASSUME NEW f \in Fds, file[f] = None, use.refused,
             UNCHANGED <<file, stolen>>, fd' = [fd EXCEPT ![a] = f]
      PROVE  /\ fd' \in [Agents -> Fds \cup {None}]
             /\ file' \in [Fds -> Agents \cup {"other", None}]
             /\ FilesInv'
  BY <1>3 DEF TypeOK, FilesInv
<1>4. CASE fd' = [fd EXCEPT ![a] = None] /\ UNCHANGED <<file, stolen>>
  BY <1>4 DEF TypeOK, FilesInv
<1> QED
  BY <1>1, <1>2, <1>3, <1>4 DEF Connect, fdVars

\* After a disconnect no descriptor is the agent's, unless it was connected twice.
LEMMA DisconnectInv ==
    ASSUME IInv, NEW a \in Agents, Disconnect(a), use' = use,
           agent' \in [Agents -> {"none", "made", "freed"}],
           \A b \in Agents : b # a => agent'[b] = agent[b]
    PROVE  /\ fd' \in [Agents -> Fds \cup {None}]
           /\ file' \in [Fds -> Agents \cup {"other", None}]
           /\ stolen' \subseteq Fds
           /\ FilesInv'
           /\ "reconnect" \notin use.ops => \A f \in Fds : file'[f] # a
<1> USE AgentAssumption DEF IInv
<1>1. CASE fd[a] # None /\ file[fd[a]] # None
  <2>1. /\ file' = [file EXCEPT ![fd[a]] = None]
        /\ fd' = [fd EXCEPT ![a] = None]
        /\ stolen' = IF file[fd[a]] = "other" THEN stolen \cup {fd[a]} ELSE stolen
        /\ fd[a] \in Fds
    BY <1>1 DEF Disconnect, TypeOK
  <2>2. "reconnect" \notin use.ops => \A f \in Fds : file'[f] # a
    BY <2>1 DEF TypeOK, FilesInv
  <2>3. ~use.refused => file[fd[a]] = a
    BY <1>1 DEF FilesInv
  <2> QED BY <2>1, <2>2, <2>3 DEF TypeOK, FilesInv
<1>2. CASE ~(fd[a] # None /\ file[fd[a]] # None)
  <2>1. UNCHANGED fdVars
    BY <1>2 DEF Disconnect
  <2>2. "reconnect" \notin use.ops => \A f \in Fds : file[f] # a
    BY <1>2 DEF FilesInv, TypeOK
  <2> QED BY <2>1, <2>2 DEF TypeOK, FilesInv, fdVars
<1> QED
  BY <1>1, <1>2

\* Freeing an agent that is allocated frees it, closes its socket and nothing
\* else.
LEMMA ClearAgentInv ==
    ASSUME IInv, NEW a \in Agents, agent[a] = "made", NEW stale, ClearAgent(a, stale),
           use' = use
    PROVE  /\ agent' = [agent EXCEPT ![a] = "freed"]
           /\ misused' = misused \cup stale
           /\ UNCHANGED <<lists, ids>>
           /\ fd' \in [Agents -> Fds \cup {None}]
           /\ file' \in [Fds -> Agents \cup {"other", None}]
           /\ stolen' \subseteq Fds
           /\ FilesInv'
<1>1. /\ agent' = [agent EXCEPT ![a] = "freed"]
      /\ misused' = misused \cup stale
      /\ UNCHANGED <<lists, ids>>
      /\ Disconnect(a)
  BY DEF ClearAgent, listVars
<1>2. /\ agent' \in [Agents -> {"none", "made", "freed"}]
      /\ \A b \in Agents : b # a => agent'[b] = agent[b]
  BY <1>1 DEF IInv, TypeOK
<1> QED
  BY <1>1, <1>2, DisconnectInv

-------------------------------------------------------------------------------
(* The steps keep the invariant. *)

LEMMA InitInv == Init => IInv
  BY AgentAssumption DEF Init, IInv, TypeOK, OwnersInv, FilesInv, KeysInv, AuthInv

\* A path of agent_auth that frees its agent and returns.
LEMMA AuthEnds ==
    ASSUME IInv, pc # "idle", NEW stale, ClearAgent(self, stale), use' = use,
           stale \subseteq Identity \cup {None},
           "keep_keys" \notin use.ops /\ ~use.timeouts => stale = {},
           identity' \in [Agents -> Identity \cup {None}],
           pc' = "idle", self' = None, UNCHANGED <<prev, pyVars>>,
           offered' \subseteq 1..MaxIds,
           pending' \in {pending, None},
           result' \in {"ok", "connection", "identities", "authentication"}
    PROVE  IInv'
<1> USE AgentAssumption DEF IInv
<1>1. self \in Agents /\ agent[self] = "made"
  BY DEF TypeOK, OwnersInv
<1>2. /\ agent' = [agent EXCEPT ![self] = "freed"]
      /\ misused' = misused \cup stale
      /\ UNCHANGED <<lists, ids>>
      /\ fd' \in [Agents -> Fds \cup {None}]
      /\ file' \in [Fds -> Agents \cup {"other", None}]
      /\ stolen' \subseteq Fds
      /\ FilesInv'
  BY <1>1, ClearAgentInv
<1>3. TypeOK'
  BY <1>1, <1>2 DEF TypeOK, pyVars
<1>4. OwnersInv'
  BY <1>1, <1>2 DEF TypeOK, OwnersInv, pyVars
<1>5. KeysInv'
  BY <1>1, <1>2 DEF TypeOK, OwnersInv, KeysInv, Alive, Identity, pyVars
<1>6. AuthInv'
  BY DEF AuthInv
<1> QED
  BY <1>2, <1>3, <1>4, <1>5, <1>6

\* A step of agent_auth that touches no agent and no descriptor.
LEMMA AuthGoesOn ==
    ASSUME IInv, pc # "idle", TypeOK', AuthInv', pc' # "idle",
           UNCHANGED <<use, agent, fdVars, self, pyVars>>,
           "keep_keys" \notin use.ops /\ ~use.timeouts => misused' = misused,
           \A a \in Agents : a # self => lists'[a] = lists[a] /\ ids'[a] = ids[a]
    PROVE  IInv'
<1> USE AgentAssumption DEF IInv
<1>1. OwnersInv' /\ FilesInv'
  BY DEF OwnersInv, FilesInv, fdVars, pyVars
<1>2. KeysInv'
  BY DEF TypeOK, OwnersInv, KeysInv, Alive, Identity, pyVars
<1> QED
  BY <1>1, <1>2

\* The steps of agent_auth.
LEMMA SessionAgentAuthInv ==
    ASSUME IInv, SessionAgentAuth, use' = use
    PROVE  IInv'
<1> USE AgentAssumption DEF IInv
<1>t. TypeOK
  OBVIOUS
<1>1. ASSUME NEW a \in Agents, NEW answer \in Answers, InitConnectAgent(a, answer)
      PROVE  IInv'
  <2>1. /\ pc = "idle" /\ agent[a] = "none" /\ Connect(a, answer)
        /\ agent' = [agent EXCEPT ![a] = "made"]
        /\ self' = a /\ prev' = 0 /\ offered' = {} /\ result' = "none"
        /\ pc' \in {"list", "refused"}
        /\ UNCHANGED <<lists, ids, identity, pending, pyVars, misused>>
    BY <1>1 DEF InitConnectAgent, listVars
  <2>2. "reconnect" \notin use.ops => \A f \in Fds : file[f] # a
    BY <2>1 DEF FilesInv
  <2>3. /\ agent' \in [Agents -> {"none", "made", "freed"}] /\ agent'[a] = "made"
        /\ \A b \in Agents : agent[b] = "made" => agent'[b] = "made"
    BY <2>1 DEF TypeOK
  <2>4. /\ fd' \in [Agents -> Fds \cup {None}]
        /\ file' \in [Fds -> Agents \cup {"other", None}]
        /\ stolen' = stolen
        /\ FilesInv'
    BY <2>1, <2>2, <2>3, ConnectInv
  <2>5. TypeOK'
    BY <2>1, <2>3, <2>4 DEF TypeOK, pyVars
  <2>6. OwnersInv'
    BY <2>1 DEF TypeOK, OwnersInv, pyVars
  <2>7. KeysInv'
    BY <2>1 DEF TypeOK, KeysInv, Alive, Identity, pyVars
  <2>8. AuthInv'
    BY <2>1 DEF AuthInv
  <2> QED BY <2>4, <2>5, <2>6, <2>7, <2>8
<1>2. CASE ConnectFailed
  BY <1>2, <1>t, AuthEnds DEF ConnectFailed, Raise, TypeOK, pyVars
<1>3. ASSUME NEW n \in 0..MaxIds, AuthList(n)
      PROVE  IInv'
  <2>1. /\ pc = "list" /\ pc' = "next" /\ self \in Agents
        /\ lists[self] < MaxLists
        /\ lists' = [lists EXCEPT ![self] = @ + 1]
        /\ ids' = [ids EXCEPT ![self] = n]
        /\ UNCHANGED <<agent, fdVars, identity, self, prev, offered, result, pending,
                       pyVars, misused>>
    BY <1>3, <1>t DEF AuthList, ListIdentities, TypeOK
  <2>2. TypeOK'
    BY <2>1 DEF TypeOK, fdVars, pyVars
  <2>3. AuthInv'
    BY <2>1 DEF TypeOK, AuthInv
  <2>4. \A a \in Agents : a # self => lists'[a] = lists[a] /\ ids'[a] = ids[a]
    BY <2>1 DEF TypeOK
  <2> QED BY <2>1, <2>2, <2>3, <2>4, AuthGoesOn
<1>4. CASE AuthListFailed
  BY <1>4, <1>t, AuthEnds DEF AuthListFailed, Raise, TypeOK, pyVars
<1>5. CASE AuthIdentity
  <2>1. /\ pc = "next" /\ prev < ids[self] /\ prev' = prev + 1 /\ pc' = "userauth"
        /\ self \in Agents
        /\ UNCHANGED <<agent, fdVars, lists, ids, identity, self, offered, result,
                       pending, pyVars, misused>>
    BY <1>5, <1>t DEF AuthIdentity, TypeOK, listVars
  <2>2. TypeOK'
    BY <2>1 DEF TypeOK, fdVars, pyVars
  <2>3. AuthInv'
    BY <2>1 DEF TypeOK, AuthInv
  <2> QED BY <2>1, <2>2, <2>3, AuthGoesOn
<1>6. CASE NoMore
  BY <1>6, <1>t, AuthEnds DEF NoMore, Raise, TypeOK, pyVars
\* An identity is offered: the one of prev, or the one that is under way.
<1>o. ASSUME Offer, NEW signs \in BOOLEAN
      PROVE  /\ pc = "userauth" /\ self \in Agents
             /\ Offers \in Identity
             /\ pending = None => Offers.agent = self /\ Offers.no = prev
             /\ offered' \subseteq 1..MaxIds
             /\ identity' \in [Agents -> Identity \cup {None}]
             /\ Stale(self, Chosen, signs) \subseteq Identity \cup {None}
             /\ ~use.timeouts => Stale(self, Chosen, signs) = {}
             /\ ~use.timeouts => offered' = 1..prev
  <2>1. /\ pc = "userauth" /\ self \in Agents
        /\ prev \in 1..MaxIds /\ lists[self] \in 1..MaxLists
        /\ prev <= ids[self] /\ agent[self] = "made"
        /\ offered' = IF Offers.agent = self THEN offered \cup {Offers.no} ELSE offered
        /\ identity' = [identity EXCEPT ![self] = Signer(self, Chosen)]
    BY <1>o DEF Offer, TypeOK, AuthInv, OwnersInv
  <2>2. Chosen \in Identity /\ Alive(Chosen)
    <3>1. /\ Chosen \in Identity /\ Chosen.agent = self
          /\ Chosen.list = lists[self] /\ Chosen.no = prev
      BY <2>1 DEF Chosen, Identity
    <3>2. Chosen # None
      BY <3>1
    <3> QED BY <2>1, <3>1, <3>2 DEF Alive
  <2>3. /\ Offers \in Identity
        /\ pending = None => Offers.agent = self /\ Offers.no = prev
    BY <2>2 DEF Offers, Chosen, TypeOK
  <2>4. Signer(self, Chosen) \in Identity \cup {None}
    BY <2>1, <2>2 DEF Signer, TypeOK
  <2>5. offered' \subseteq 1..MaxIds
    BY <2>1, <2>3 DEF TypeOK, Identity
  <2>6. identity' \in [Agents -> Identity \cup {None}]
    BY <2>1, <2>4 DEF TypeOK
  <2>7. Stale(self, Chosen, signs) \subseteq Identity \cup {None}
    BY <2>2, <2>4 DEF Stale
  <2>8. ~use.timeouts => Stale(self, Chosen, signs) = {}
    BY <2>2 DEF Stale, Signer, AuthInv
  <2>9. ~use.timeouts => offered' = 1..prev
    <3>1. ~use.timeouts => offered' = 1..(prev - 1) \cup {prev}
      BY <2>1, <2>3 DEF AuthInv
    <3>2. 1..(prev - 1) \cup {prev} = 1..prev
      BY <2>1
    <3> QED BY <3>1, <3>2
  <2> QED BY <2>1, <2>3, <2>5, <2>6, <2>7, <2>8, <2>9
<1>7. ASSUME NEW ok \in BOOLEAN, NEW signs \in BOOLEAN, Userauth(ok, signs)
      PROVE  IInv'
  <2>1. Offer /\ pending' = None /\ UNCHANGED <<prev, pyVars>>
    BY <1>7 DEF Userauth
  <2> DEFINE stale == Stale(self, Chosen, signs)
  <2>2. /\ pc = "userauth" /\ self \in Agents /\ offered' \subseteq 1..MaxIds
        /\ identity' \in [Agents -> Identity \cup {None}]
        /\ stale \subseteq Identity \cup {None}
        /\ ~use.timeouts => stale = {} /\ offered' = 1..prev
    BY <2>1, <1>o
  <2>3. CASE ok
    <3>1. ClearAgent(self, stale) /\ pc' = "idle" /\ self' = None /\ result' = "ok"
      BY <2>3, <1>7 DEF Userauth
    <3> HIDE DEF stale
    <3> QED BY <2>1, <2>2, <3>1, AuthEnds
  <2>4. CASE ~ok
    <3>1. /\ pc' = "next" /\ misused' = misused \cup stale
          /\ UNCHANGED <<agent, fdVars, lists, ids, self, result>>
      BY <2>4, <1>7 DEF Userauth, listVars
    <3> HIDE DEF stale
    <3>2. TypeOK'
      BY <2>1, <2>2, <3>1 DEF TypeOK, fdVars, pyVars
    <3>3. AuthInv'
      BY <2>1, <2>2, <3>1 DEF AuthInv
    <3> QED BY <2>1, <2>2, <3>1, <3>2, <3>3, AuthGoesOn
  <2> QED BY <2>3, <2>4
<1>8. ASSUME NEW signs \in BOOLEAN, UserauthTimeout(signs)
      PROVE  IInv'
  <2>1. /\ Offer /\ use.timeouts /\ pending' = Offers /\ pc' = "next"
        /\ misused' = misused \cup Stale(self, Chosen, signs)
        /\ UNCHANGED <<agent, fdVars, lists, ids, self, prev, result, pyVars>>
    BY <1>8 DEF UserauthTimeout, listVars
  <2>2. /\ pc = "userauth" /\ self \in Agents /\ Offers \in Identity
        /\ offered' \subseteq 1..MaxIds
        /\ identity' \in [Agents -> Identity \cup {None}]
        /\ Stale(self, Chosen, signs) \subseteq Identity \cup {None}
    BY <2>1, <1>o
  <2>3. TypeOK'
    BY <2>1, <2>2 DEF TypeOK, fdVars, pyVars
  <2>4. AuthInv'
    BY <2>1, <2>2 DEF AuthInv
  <2> QED BY <2>1, <2>2, <2>3, <2>4, AuthGoesOn
<1> QED
  BY <1>1, <1>2, <1>3, <1>4, <1>5, <1>6, <1>7, <1>8 DEF SessionAgentAuth

\* The steps of the Agent class.
LEMMA AgentClassInv ==
    ASSUME IInv, AgentClass, use' = use
    PROVE  IInv'
<1> USE AgentAssumption DEF IInv
<1>t. TypeOK
  OBVIOUS
<1>1. ASSUME NEW a \in Agents, NewAgent(a)
      PROVE  IInv'
  <2>1. /\ pc = "idle" /\ wrapper = None /\ agent[a] = "none"
        /\ agent' = [agent EXCEPT ![a] = "made"] /\ wrapper' = a
        /\ UNCHANGED <<fdVars, lists, ids, identity, authVars, pending, keys, misused>>
    BY <1>1 DEF NewAgent, listVars
  <2>2. TypeOK'
    BY <2>1 DEF TypeOK, fdVars, authVars
  <2>3. OwnersInv' /\ AuthInv'
    BY <2>1 DEF TypeOK, OwnersInv, AuthInv, authVars
  <2>4. FilesInv'
    BY <2>1 DEF TypeOK, FilesInv, fdVars
  <2>5. KeysInv'
    BY <2>1 DEF TypeOK, KeysInv, Alive, Identity
  <2> QED BY <2>2, <2>3, <2>4, <2>5
<1>2. ASSUME NEW a \in Agents, NEW b \in Agents, AgentInit(a, b)
      PROVE  IInv'
  <2>1. /\ pc = "idle" /\ wrapper = None /\ agent[a] = "none" /\ agent[b] = "none"
        /\ "agent_init" \in use.ops
        /\ agent' = [agent EXCEPT ![a] = "made", ![b] = "made"] /\ wrapper' = a
        /\ UNCHANGED <<fdVars, lists, ids, identity, authVars, pending, keys, misused>>
    BY <1>2 DEF AgentInit, listVars
  <2>2. TypeOK'
    BY <2>1 DEF TypeOK, fdVars, authVars
  <2>3. OwnersInv' /\ AuthInv'
    BY <2>1 DEF TypeOK, OwnersInv, AuthInv, authVars
  <2>4. FilesInv'
    BY <2>1 DEF TypeOK, FilesInv, fdVars
  <2>5. KeysInv'
    BY <2>1 DEF TypeOK, KeysInv, Alive, Identity
  <2> QED BY <2>2, <2>3, <2>4, <2>5
<1>3. ASSUME NEW answer \in Answers, AgentConnect(answer)
      PROVE  IInv'
  <2>1. /\ pc = "idle" /\ wrapper \in Agents
        /\ fd[wrapper] # None =>
              "reconnect" \in use.ops \/ file[fd[wrapper]] # wrapper
        /\ Connect(wrapper, answer)
        /\ UNCHANGED <<agent, lists, ids, identity, authVars, pending, pyVars, misused>>
    BY <1>3 DEF AgentConnect, TypeOK, listVars
  <2>2. "reconnect" \notin use.ops => \A f \in Fds : file[f] # wrapper
    BY <2>1 DEF FilesInv
  <2>3. agent'[wrapper] = "made"
    BY <2>1 DEF OwnersInv
  <2>4. /\ fd' \in [Agents -> Fds \cup {None}]
        /\ file' \in [Fds -> Agents \cup {"other", None}]
        /\ stolen' = stolen
        /\ FilesInv'
    BY <2>1, <2>2, <2>3, <1>t, ConnectInv DEF TypeOK
  <2>5. TypeOK'
    BY <2>1, <2>4 DEF TypeOK, authVars, pyVars
  <2>6. OwnersInv' /\ KeysInv' /\ AuthInv'
    BY <2>1 DEF OwnersInv, KeysInv, Alive, AuthInv, authVars, pyVars
  <2> QED BY <2>4, <2>5, <2>6
<1>4. CASE AgentDisconnect
  <2>1. /\ pc = "idle" /\ wrapper \in Agents /\ Disconnect(wrapper)
        /\ UNCHANGED <<agent, lists, ids, identity, authVars, pending, pyVars, misused>>
    BY <1>4 DEF AgentDisconnect, TypeOK, listVars
  <2>2. /\ fd' \in [Agents -> Fds \cup {None}]
        /\ file' \in [Fds -> Agents \cup {"other", None}]
        /\ stolen' \subseteq Fds
        /\ FilesInv'
    BY <2>1, <1>t, DisconnectInv DEF TypeOK
  <2>3. TypeOK'
    BY <2>1, <2>2 DEF TypeOK, authVars, pyVars
  <2>4. OwnersInv' /\ KeysInv' /\ AuthInv'
    BY <2>1 DEF OwnersInv, KeysInv, Alive, AuthInv, authVars, pyVars
  <2> QED BY <2>2, <2>3, <2>4
<1>5. ASSUME NEW n \in 0..MaxIds, GetIdentities(n)
      PROVE  IInv'
  <2>1. /\ pc = "idle" /\ wrapper \in Agents /\ lists[wrapper] < MaxLists
        /\ lists' = [lists EXCEPT ![wrapper] = @ + 1]
        /\ ids' = [ids EXCEPT ![wrapper] = n]
        /\ keys' = (IF "keep_keys" \in use.ops THEN keys ELSE {})
                   \cup [agent : {wrapper}, list : {lists[wrapper] + 1}, no : 1..n]
        /\ UNCHANGED <<agent, fdVars, identity, authVars, pending, wrapper, misused>>
    BY <1>5 DEF GetIdentities, ListIdentities, TypeOK
  <2>2. lists[wrapper] + 1 \in 1..MaxLists /\ 1..n \subseteq 1..MaxIds
    BY <2>1 DEF TypeOK
  <2>3. keys' \subseteq Identity
    BY <2>1, <2>2 DEF TypeOK, Identity
  <2>4. TypeOK'
    BY <2>1, <2>2, <2>3 DEF TypeOK, fdVars, authVars
  <2>5. OwnersInv' /\ FilesInv' /\ AuthInv'
    BY <2>1 DEF OwnersInv, FilesInv, AuthInv, fdVars, authVars
  <2>6. KeysInv'
    <3>1. ASSUME "keep_keys" \notin use.ops, NEW k \in keys'
          PROVE  k.agent = wrapper' /\ Alive(k)'
      <4>1. k.agent = wrapper /\ k.list = lists[wrapper] + 1 /\ k.no \in 1..n
        BY <2>1, <3>1
      <4>2. agent[wrapper] = "made"
        BY <2>1 DEF OwnersInv
      <4>3. k # None
        BY <2>3, <3>1
      <4> QED BY <2>1, <4>1, <4>2, <4>3 DEF TypeOK, Alive
    <3>2. "keep_keys" \notin use.ops /\ ~use.timeouts => misused' = {}
      BY <2>1 DEF KeysInv
    <3> QED BY <3>1, <3>2 DEF KeysInv
  <2> QED BY <2>4, <2>5, <2>6
<1>6. CASE GetIdentitiesFailed
  <2>1. /\ pc = "idle" /\ wrapper \in Agents /\ lists[wrapper] < MaxLists
        /\ lists' = [lists EXCEPT ![wrapper] = @ + 1]
        /\ ids' = [ids EXCEPT ![wrapper] = 0]
        /\ keys' = IF "keep_keys" \in use.ops THEN keys ELSE {}
        /\ UNCHANGED <<agent, fdVars, identity, authVars, pending, wrapper, misused>>
    BY <1>6 DEF GetIdentitiesFailed, TypeOK
  <2>2. TypeOK'
    BY <2>1 DEF TypeOK, fdVars, authVars
  <2>3. OwnersInv' /\ FilesInv' /\ KeysInv' /\ AuthInv'
    BY <2>1 DEF OwnersInv, FilesInv, KeysInv, AuthInv, fdVars, authVars
  <2> QED BY <2>2, <2>3
<1>7. ASSUME NEW k \in keys, NEW done \in BOOLEAN, NEW signs \in BOOLEAN,
             AgentUserauth(k, done, signs)
      PROVE  IInv'
  <2>1. /\ pc = "idle" /\ wrapper \in Agents
        /\ done \/ use.timeouts
        /\ misused' = misused \cup Stale(wrapper, k, signs)
        /\ identity' = [identity EXCEPT ![wrapper] = Signer(wrapper, k)]
        /\ pending' = IF done THEN None ELSE IF pending = None THEN k ELSE pending
        /\ UNCHANGED <<agent, fdVars, lists, ids, authVars, pyVars>>
    BY <1>7 DEF AgentUserauth, TypeOK, listVars
  <2>2. k \in Identity /\ Signer(wrapper, k) \in Identity \cup {None}
    BY <2>1 DEF Signer, TypeOK
  <2>3. Stale(wrapper, k, signs) \subseteq Identity \cup {None}
    BY <2>2 DEF Stale
  <2>4. "keep_keys" \notin use.ops /\ ~use.timeouts => Stale(wrapper, k, signs) = {}
    BY DEF Stale, Signer, KeysInv, AuthInv
  <2>5. TypeOK'
    BY <2>1, <2>2, <2>3 DEF TypeOK, fdVars, authVars, pyVars
  <2>6. OwnersInv' /\ FilesInv' /\ AuthInv'
    BY <2>1 DEF OwnersInv, FilesInv, AuthInv, fdVars, authVars, pyVars
  <2>7. KeysInv'
    BY <2>1, <2>4 DEF KeysInv, Alive, pyVars
  <2> QED BY <2>5, <2>6, <2>7
<1>8. CASE AgentDealloc
  <2>1. /\ pc = "idle" /\ wrapper \in Agents /\ ClearAgent(wrapper, {})
        /\ wrapper' = None
        /\ keys' = IF "keep_keys" \in use.ops THEN keys ELSE {}
        /\ UNCHANGED <<identity, authVars, pending>>
    BY <1>8 DEF AgentDealloc, TypeOK
  <2>2. agent[wrapper] = "made"
    BY <2>1 DEF OwnersInv
  <2>3. /\ agent' = [agent EXCEPT ![wrapper] = "freed"]
        /\ misused' = misused \cup {}
        /\ UNCHANGED <<lists, ids>>
        /\ fd' \in [Agents -> Fds \cup {None}]
        /\ file' \in [Fds -> Agents \cup {"other", None}]
        /\ stolen' \subseteq Fds
        /\ FilesInv'
    BY <2>1, <2>2, ClearAgentInv
  <2>4. TypeOK'
    BY <2>1, <2>3 DEF TypeOK, authVars
  <2>5. OwnersInv' /\ KeysInv' /\ AuthInv'
    BY <2>1, <2>3 DEF TypeOK, OwnersInv, KeysInv, AuthInv, authVars
  <2> QED BY <2>3, <2>4, <2>5
<1> QED
  BY <1>1, <1>2, <1>3, <1>4, <1>5, <1>6, <1>7, <1>8 DEF AgentClass

\* What other threads do with descriptors that are not an agent's.
LEMMA OthersInv ==
    ASSUME IInv, Others, use' = use
    PROVE  IInv'
<1> USE AgentAssumption DEF IInv
<1>1. PICK f \in Fds : OtherOpen(f) \/ OtherClose(f)
  BY DEF Others
<1>2. /\ file[f] \in {"other", None} /\ file' \in [Fds -> Agents \cup {"other", None}]
      /\ file'[f] \in {"other", None}
      /\ \A g \in Fds : g # f => file'[g] = file[g]
      /\ UNCHANGED <<agent, fd, stolen, lists, ids, identity, authVars, pending, pyVars,
                     misused>>
  BY <1>1 DEF OtherOpen, OtherClose, TypeOK, listVars
<1>3. TypeOK'
  BY <1>2 DEF TypeOK, authVars, pyVars
<1>4. OwnersInv' /\ KeysInv' /\ AuthInv'
  BY <1>2 DEF OwnersInv, KeysInv, Alive, AuthInv, authVars, pyVars
<1>5. FilesInv'
  BY <1>2 DEF TypeOK, FilesInv
<1> QED
  BY <1>3, <1>4, <1>5

LEMMA NextInv == IInv /\ [Next]_vars => IInv'
<1> SUFFICES ASSUME IInv, [Next]_vars PROVE IInv'
  OBVIOUS
<1>1. CASE (SessionAgentAuth \/ AgentClass \/ Others) /\ UNCHANGED use
  BY <1>1, SessionAgentAuthInv, AgentClassInv, OthersInv
<1>2. CASE UNCHANGED vars
  BY <1>2 DEF IInv, TypeOK, OwnersInv, FilesInv, KeysInv, Alive, AuthInv,
              vars, fdVars, listVars, authVars, pyVars
<1> QED
  BY <1>1, <1>2 DEF Next, Ended

\* The invariant holds in every reachable state.
THEOREM InvariantHolds == Spec => []IInv
<1>1. Init => IInv
  BY InitInv
<1>2. IInv /\ [Next]_vars => IInv'
  BY NextInv
<1> QED
  BY <1>1, <1>2, PTL DEF Spec

-------------------------------------------------------------------------------
(* What the invariant is for. *)

(***************************************************************************)
(* "On completion, or any errors, agent is disconnected and resources      *)
(* freed" (Session.agent_auth): when agent_auth is over and the Agent      *)
(* object is gone no agent is allocated and, unless the program connected  *)
(* an Agent twice, no socket of one is open; no agent is freed twice and,  *)
(* without a timeout and PublicKeys that are kept, no identity is used     *)
(* that was freed or that the agent never had.                             *)
(***************************************************************************)
THEOREM AgentsAreFreedOnce == Spec => []AgentFreedOnce
<1>1. IInv => AgentFreedOnce
  <2> SUFFICES ASSUME IInv PROVE AgentFreedOnce
    OBVIOUS
  <2> USE AgentAssumption DEF IInv
  <2>1. NothingLeft
    <3>1. "agent_init" \notin use.ops /\ Over => \A a \in Agents : agent[a] # "made"
      BY DEF OwnersInv, TypeOK, Over
    <3>2. "reconnect" \notin use.ops /\ Over =>
             \A f \in Fds : file[f] \in Agents => fd[file[f]] = f /\ agent[file[f]] = "made"
      BY DEF FilesInv
    <3> QED BY <3>1, <3>2 DEF NothingLeft, SocketsClosed
  <2>2. NothingFreedUsed
    BY DEF KeysInv, NothingFreedUsed, NoneMisused
  <2> QED BY <2>1, <2>2 DEF AgentFreedOnce
<1> QED
  BY <1>1, InvariantHolds, PTL

(***************************************************************************)
(* libssh2_agent_disconnect, called by libssh2_agent_free and by           *)
(* clear_agent once more, closes no descriptor of another thread, if no    *)
(* agent socket refuses the connection.                                    *)
(***************************************************************************)
THEOREM OnlyOwnSockets == Spec => []OwnSocketOnly
<1>1. IInv => OwnSocketOnly
  BY DEF IInv, FilesInv, OwnSocketOnly
<1> QED
  BY <1>1, InvariantHolds, PTL

(***************************************************************************)
(* agent_auth "attempts authentication with each identity": without a      *)
(* timeout it gives up only when the server was offered all of them.       *)
(***************************************************************************)
THEOREM AllAreOffered == Spec => []AllOffered
<1>1. IInv => AllOffered
  BY DEF IInv, AuthInv, AllOffered, EachOffered
<1> QED
  BY <1>1, InvariantHolds, PTL
===============================================================================
