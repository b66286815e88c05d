--------------------------- MODULE KnownHostsProofs ----------------------------
(***************************************************************************)
(* Proofs about KnownHosts: the list holds the hosts that were added and   *)
(* not deleted, and an entry object can be relied on as long as its host   *)
(* is among them, for any number of hosts, all arguments, lines and files, *)
(* and wherever malloc puts the nodes.                                     *)
(***************************************************************************)
EXTENDS KnownHosts, SequenceTheorems, TLAPS

-------------------------------------------------------------------------------
(* The inductive invariant. *)

TypeInv ==
    /\ mem = [a \in Addr |-> mem[a]]
    /\ next \in 1..(MaxAdds + 1)
    /\ careless \in BOOLEAN

\* A node is in the list once, and what is allocated is in the list.
ListInv ==
    /\ list \in Seq(Addr)
    /\ \A i, j \in DOMAIN list : list[i] = list[j] => i = j
    /\ live = {list[i] : i \in DOMAIN list}

\* The list holds the hosts meant, each under a number of its own.
BookInv ==
    ~careless =>
        /\ book = [i \in DOMAIN list |-> mem[list[i]]]
        /\ \A i \in DOMAIN list : mem[list[i]].id \in 1..(next - 1)
        /\ \A i, j \in DOMAIN list : mem[list[i]].id = mem[list[j]].id => i = j

EntryInv ==
    /\ \A e \in entries : e.store \in Addr /\ e.id \in 1..(next - 1)
    /\ EntriesRight

IInv == TypeInv /\ ListInv /\ BookInv /\ EntryInv

-------------------------------------------------------------------------------
(* Facts about the operators. *)

\* Removing an element of a sequence leaves the others in their order.
LEMMA RemoveAtIs ==
    ASSUME NEW R, NEW s \in Seq(R), NEW i \in DOMAIN s
    PROVE  /\ RemoveAt(s, i) \in Seq(R)
           /\ Len(RemoveAt(s, i)) = Len(s) - 1
           /\ DOMAIN RemoveAt(s, i) = 1..(Len(s) - 1)
           /\ \A j \in 1..(Len(s) - 1) :
                 RemoveAt(s, i)[j] = IF j < i THEN s[j] ELSE s[j + 1]
<1> DEFINE front == SubSeq(s, 1, i - 1)
           back == SubSeq(s, i + 1, Len(s))
<1>1. i \in 1..Len(s) /\ Len(s) \in Nat
  OBVIOUS
<1>2. /\ front \in Seq(R) /\ Len(front) = i - 1
      /\ \A j \in 1..(i - 1) : front[j] = s[j]
  BY <1>1
<1>3. /\ back \in Seq(R) /\ Len(back) = Len(s) - i
      /\ \A j \in 1..(Len(s) - i) : back[j] = s[i + j]
  BY <1>1
<1>4. RemoveAt(s, i) = front \o back
  BY DEF RemoveAt
<1> HIDE DEF front, back
<1>5. /\ front \o back \in Seq(R) /\ Len(front \o back) = Len(s) - 1
      /\ DOMAIN (front \o back) = 1..(Len(s) - 1)
  BY <1>1, <1>2, <1>3
<1>6. \A k \in 1..(Len(front) + Len(back)) :
         (front \o back)[k] = IF k <= Len(front) THEN front[k] ELSE back[k - Len(front)]
  BY <1>2, <1>3, ConcatProperties
<1>7. ASSUME NEW j \in 1..(Len(s) - 1)
      PROVE  (front \o back)[j] = IF j < i THEN s[j] ELSE s[j + 1]
  <2>1. CASE j < i
    BY <1>1, <1>2, <1>3, <1>6, <2>1
  <2>2. CASE ~(j < i)
    <3>1. /\ j \in 1..(Len(front) + Len(back)) /\ ~(j <= Len(front))
          /\ j - (i - 1) \in 1..(Len(s) - i)
      BY <1>1, <1>2, <1>3, <2>2
    <3>2. (front \o back)[j] = back[j - Len(front)]
      BY <1>6, <3>1
    <3>3. i + (j - (i - 1)) = j + 1
      BY <1>1
    <3>4. back[j - (i - 1)] = s[i + (j - (i - 1))]
      BY <1>3, <3>1
    <3> QED BY <1>2, <2>2, <3>2, <3>3, <3>4
  <2> QED BY <2>1, <2>2
<1> QED BY <1>4, <1>5, <1>7

\* A node of the list is found.
LEMMA PlaceIs ==
    ASSUME IInv, NEW a \in live
    PROVE  Place(a) \in DOMAIN list /\ list[Place(a)] = a
<1>1. \E i \in DOMAIN list : list[i] = a
  BY DEF IInv, ListInv
<1> QED BY <1>1 DEF Place

-------------------------------------------------------------------------------
(* The actions. *)

LEMMA InitInv == Init => IInv
<1> SUFFICES ASSUME Init PROVE IInv
  OBVIOUS
<1> USE DEF Init
<1>1. TypeInv
  <2>1. \A a \in Addr : mem[a] = NoNode
    OBVIOUS
  <2>2. mem = [a \in Addr |-> mem[a]]
    BY <2>1
  <2>3. 1 \in 1..(MaxAdds + 1)
    BY KnownHostsAssumption
  <2> QED BY <2>2, <2>3 DEF TypeInv
<1>2. ListInv
  BY DEF ListInv
<1>3. BookInv
  BY DEF BookInv
<1>4. EntryInv
  BY DEF EntryInv, EntriesRight
<1> QED BY <1>1, <1>2, <1>3, <1>4 DEF IInv

\* The actions that leave the list alone and at most make entry objects for
\* nodes of the list.
LEMMA KeepsInv ==
    ASSUME IInv, UNCHANGED <<mem, live, list, next, book>>,
           careless' \in BOOLEAN, careless => careless',
           NEW I \in SUBSET DOMAIN list, careless => I = {},
           entries' = entries \cup {Entry(list[i]) : i \in I}
    PROVE  IInv'
<1> USE DEF IInv
<1>1. TypeInv'
  BY DEF TypeInv
<1>2. ListInv'
  BY DEF ListInv
<1>3. BookInv'
  BY DEF BookInv, TypeInv
<1>4. ASSUME NEW e \in entries'
      PROVE  /\ e.store \in Addr /\ e.id \in 1..(next - 1)
             /\ ~careless => (e.id \in Ids => Fresh(e))
  <2>1. CASE e \in entries
    BY <2>1 DEF EntryInv, EntriesRight
  <2>2. CASE \E i \in I : e = Entry(list[i])
    <3>1. PICK i \in I : e = Entry(list[i])
      BY <2>2
    <3>2. list[i] \in Addr /\ list[i] \in live
      BY DEF ListInv
    <3>3. ~careless /\ mem[list[i]].id \in 1..(next - 1)
      BY DEF BookInv, TypeInv
    <3> QED BY <3>1, <3>2, <3>3 DEF Entry, Fresh
  <2> QED BY <2>1, <2>2
<1>5. EntryInv'
  <2>1. \A e : Fresh(e)' <=> Fresh(e)
    BY DEF Fresh
  <2>2. Ids' = Ids
    BY DEF Ids
  <2> QED BY <1>4, <2>1, <2>2 DEF EntryInv, EntriesRight, TypeInv
<1> QED BY <1>1, <1>2, <1>3, <1>5

\* A new node: its memory was free, so no entry that is relied on points there.
LEMMA AddInv ==
    ASSUME IInv, NEW x, NEW named, NEW a, Add(x, named, a),
           entries' \in {entries, entries \cup {[store |-> a, id |-> next]}},
           careless' = careless
    PROVE  IInv'
<1> USE DEF IInv
<1> DEFINE node == Node(x, named)
<1>0. node.id = next
  BY DEF Node
<1>1. /\ next <= MaxAdds /\ a \in Addr /\ a \notin live
      /\ mem' = [mem EXCEPT ![a] = node]
      /\ live' = live \cup {a} /\ list' = Append(list, a)
      /\ book' = Append(book, node) /\ next' = next + 1
  BY DEF Add
<1> HIDE DEF node
<1>2. /\ list \in Seq(Addr) /\ Len(list) \in Nat /\ DOMAIN list = 1..Len(list)
      /\ next \in Nat /\ next >= 1 /\ MaxAdds \in Nat
  BY KnownHostsAssumption DEF TypeInv, ListInv
<1>3. /\ list' \in Seq(Addr) /\ DOMAIN list' = 1..(Len(list) + 1)
      /\ \A i \in DOMAIN list : list'[i] = list[i]
      /\ list'[Len(list) + 1] = a
  BY <1>1, <1>2
<1>4. /\ \A i \in DOMAIN list : list[i] \in Addr /\ list[i] # a
      /\ DOMAIN list' = DOMAIN list \cup {Len(list) + 1}
      /\ Len(list) + 1 \notin DOMAIN list
  BY <1>1, <1>2, <1>3 DEF ListInv
<1>5. /\ mem'[a] = node
      /\ \A b \in Addr : b # a => mem'[b] = mem[b]
      /\ mem' = [b \in Addr |-> mem'[b]]
  BY <1>1 DEF TypeInv
<1>6. TypeInv'
  BY <1>1, <1>2, <1>5 DEF TypeInv
<1>7. ListInv'
  <2>1. \A i, j \in DOMAIN list' : list'[i] = list'[j] => i = j
    BY <1>3, <1>4 DEF ListInv
  <2>2. live' = {list'[i] : i \in DOMAIN list'}
    BY <1>1, <1>3, <1>4 DEF ListInv
  <2> QED BY <1>3, <2>1, <2>2 DEF ListInv
<1>8. /\ \A i \in DOMAIN list : mem'[list'[i]] = mem[list[i]]
      /\ mem'[list'[Len(list) + 1]] = node
  BY <1>3, <1>4, <1>5
<1>9. ASSUME ~careless
      PROVE  book' = [i \in DOMAIN list' |-> mem'[list'[i]]]
  <2> DEFINE S == {mem[list[i]] : i \in DOMAIN list} \cup {node}
  <2>1. book = [i \in 1..Len(list) |-> mem[list[i]]]
    BY <1>2, <1>9 DEF BookInv
  <2>2. \A i \in 1..Len(list) : mem[list[i]] \in S
    BY <1>2
  <2>3. node \in S
    OBVIOUS
  <2> HIDE DEF S
  <2>4. book \in Seq(S) /\ Len(book) = Len(list)
    <3>1. book \in [1..Len(list) -> S]
      BY <2>1, <2>2
    <3> QED BY <1>2, <3>1
  <2>5. /\ book' \in Seq(S) /\ Len(book') = Len(list) + 1
        /\ \A i \in 1..Len(list) : book'[i] = book[i]
        /\ book'[Len(list) + 1] = node
    BY <1>1, <2>3, <2>4, AppendProperties
  <2>6. /\ book' = [i \in 1..(Len(list) + 1) |-> book'[i]]
        /\ \A i \in 1..(Len(list) + 1) : book'[i] = mem'[list'[i]]
    <3>1. book' \in [1..(Len(list) + 1) -> S]
      BY <2>5
    <3>2. \A i \in 1..(Len(list) + 1) : i \in 1..Len(list) \/ i = Len(list) + 1
      BY <1>2
    <3> QED BY <1>2, <1>8, <2>1, <2>5, <3>1, <3>2
  <2> QED BY <1>3, <2>6
<1>10. BookInv'
  <2> SUFFICES ASSUME ~careless
               PROVE  /\ \A i \in DOMAIN list' : mem'[list'[i]].id \in 1..(next' - 1)
                      /\ \A i, j \in DOMAIN list' :
                            mem'[list'[i]].id = mem'[list'[j]].id => i = j
    BY <1>9 DEF BookInv
  <2>1. \A i \in DOMAIN list : mem'[list'[i]].id \in 1..(next - 1)
    BY <1>8 DEF BookInv
  <2>2. \A i, j \in DOMAIN list : mem'[list'[i]].id = mem'[list'[j]].id => i = j
    BY <1>8 DEF BookInv
  <2>3. mem'[list'[Len(list) + 1]].id = next
    BY <1>0, <1>8
  <2> QED BY <1>1, <1>2, <1>4, <2>1, <2>2, <2>3
<1>11. EntryInv'
  <2>1. ASSUME NEW e \in entries'
        PROVE  e.store \in Addr /\ e.id \in 1..(next' - 1)
    <3>1. CASE e \in entries
      BY <1>1, <1>2, <3>1 DEF EntryInv
    <3>2. CASE e = [store |-> a, id |-> next]
      BY <1>1, <1>2, <3>2
    <3> QED BY <2>1, <3>1, <3>2
  <2>2. ASSUME ~careless, NEW e \in entries', e.id \in Ids'
        PROVE  Fresh(e)'
    <3>1. CASE e \in entries
      <4>1. e.id \in 1..(next - 1)
        BY <3>1 DEF EntryInv
      <4>2. PICK i \in DOMAIN list' : e.id = mem'[list'[i]].id
        BY <1>9, <2>2 DEF Ids
      <4>3. i \in DOMAIN list
        BY <1>0, <1>2, <1>4, <1>8, <4>1, <4>2
      <4>4. e.id \in Ids
        BY <1>8, <2>2, <4>2, <4>3 DEF Ids, BookInv
      <4>5. e.store \in live /\ e.store \in Addr /\ mem[e.store].id = e.id
        BY <2>2, <3>1, <4>4 DEF EntryInv, EntriesRight, Fresh
      <4> QED BY <1>1, <1>5, <4>5 DEF Fresh
    <3>2. CASE e = [store |-> a, id |-> next]
      BY <1>0, <1>1, <1>5, <3>2 DEF Fresh
    <3> QED BY <2>2, <3>1, <3>2
  <2> QED BY <2>1, <2>2 DEF EntryInv, EntriesRight
<1> QED BY <1>6, <1>7, <1>10, <1>11

\* A node goes.  If the entry is not stale its host is the one that goes, and
\* every other host keeps its memory.
LEMMA DeleteInv ==
    ASSUME IInv, NEW e, Delete(e)
    PROVE  IInv'
<1> USE DEF IInv
<1> DEFINE p == Place(e.store)
           from(j) == IF j < p THEN j ELSE j + 1
<1>1. /\ e \in entries /\ e.store \in live /\ list' = RemoveAt(list, p)
      /\ mem' = [mem EXCEPT ![e.store] = NoNode] /\ live' = live \ {e.store}
      /\ book' = Without(e.id) /\ careless' = (careless \/ ~Fresh(e))
      /\ entries' = entries /\ next' = next /\ ~careless
  BY DEF Delete, Unlink, Ready
<1>2. p \in DOMAIN list /\ list[p] = e.store
  BY <1>1, PlaceIs
<1> HIDE DEF p
<1>3. list \in Seq(Addr) /\ Len(list) \in Nat /\ DOMAIN list = 1..Len(list) /\ p \in 1..Len(list)
  BY <1>2 DEF ListInv
<1>4. /\ list' \in Seq(Addr) /\ DOMAIN list' = 1..(Len(list) - 1)
      /\ \A j \in DOMAIN list' : list'[j] = list[from(j)]
  <2>1. /\ list' \in Seq(Addr) /\ DOMAIN list' = 1..(Len(list) - 1)
        /\ \A j \in 1..(Len(list) - 1) : list'[j] = IF j < p THEN list[j] ELSE list[j + 1]
    BY <1>1, <1>2, <1>3, RemoveAtIs
  <2> QED BY <2>1
<1>5. /\ \A j \in DOMAIN list' : from(j) \in DOMAIN list /\ from(j) # p
      /\ \A j, k \in DOMAIN list' : from(j) = from(k) => j = k
      /\ \A i \in DOMAIN list : i # p => \E j \in DOMAIN list' : from(j) = i
  <2>1. \A j \in 1..(Len(list) - 1) : from(j) \in 1..Len(list) /\ from(j) # p
    BY <1>3
  <2>2. \A j, k \in 1..(Len(list) - 1) : from(j) = from(k) => j = k
    BY <1>3
  <2>3. ASSUME NEW i \in 1..Len(list), i # p
        PROVE  \E j \in 1..(Len(list) - 1) : from(j) = i
    <3>1. CASE i < p
      BY <1>3, <3>1
    <3>2. CASE i > p
      <4>1. i - 1 \in 1..(Len(list) - 1) /\ from(i - 1) = i
        BY <1>3, <3>2
      <4> QED BY <4>1
    <3> QED BY <1>3, <2>3, <3>1, <3>2
  <2> QED BY <1>3, <1>4, <2>1, <2>2, <2>3
<1> HIDE DEF from
<1>6. /\ \A b \in Addr : b # e.store => mem'[b] = mem[b]
      /\ mem' = [b \in Addr |-> mem'[b]]
  BY <1>1 DEF TypeInv
<1>7. \A j \in DOMAIN list' : /\ list'[j] \in Addr /\ list'[j] # e.store
                              /\ mem'[list'[j]] = mem[list[from(j)]]
  <2>1. \A j \in DOMAIN list' : list'[j] \in Addr
    BY <1>4
  <2>2. \A j \in DOMAIN list' : list'[j] # e.store
    BY <1>2, <1>4, <1>5 DEF ListInv
  <2> QED BY <1>4, <1>6, <2>1, <2>2
<1>8. TypeInv'
  BY <1>1, <1>6 DEF TypeInv, Fresh
<1>9. ListInv'
  <2>1. \A j, k \in DOMAIN list' : list'[j] = list'[k] => j = k
    BY <1>4, <1>5 DEF ListInv
  <2>2. live' = {list'[j] : j \in DOMAIN list'}
    <3>1. ASSUME NEW b \in live' PROVE \E j \in DOMAIN list' : b = list'[j]
      <4>1. PICK i \in DOMAIN list : b = list[i]
        BY <1>1, <3>1 DEF ListInv
      <4>2. i # p
        BY <1>1, <1>2, <3>1, <4>1
      <4> QED BY <1>4, <1>5, <4>1, <4>2
    <3>2. ASSUME NEW j \in DOMAIN list' PROVE list'[j] \in live'
      BY <1>1, <1>4, <1>5, <1>7 DEF ListInv
    <3> QED BY <3>1, <3>2
  <2> QED BY <1>4, <2>1, <2>2 DEF ListInv
<1>10. ASSUME ~careless'
       PROVE  book' = [j \in DOMAIN list' |-> mem'[list'[j]]]
  <2> DEFINE S == {mem[list[i]] : i \in DOMAIN list}
  <2>1. book = [i \in 1..Len(list) |-> mem[list[i]]]
    BY <1>1, <1>3 DEF BookInv
  <2>2. \A i \in 1..Len(list) : mem[list[i]] \in S
    BY <1>3
  <2> HIDE DEF S
  <2>3. book \in Seq(S) /\ Len(book) = Len(list) /\ DOMAIN book = 1..Len(list)
    <3>1. book \in [1..Len(list) -> S]
      BY <2>1, <2>2
    <3> QED BY <1>3, <3>1
  <2>4. mem[list[p]].id = e.id
    BY <1>1, <1>2, <1>10 DEF Fresh
  <2>5. book' = RemoveAt(book, p)
    <3>1. book[p].id = e.id
      BY <1>3, <2>1, <2>4
    <3>2. \A i \in DOMAIN book : book[i].id = e.id => i = p
      BY <1>1, <1>3, <2>1, <2>3, <2>4 DEF BookInv
    <3>3. e.id \in Ids
      BY <1>3, <2>3, <3>1 DEF Ids
    <3>4. (CHOOSE i \in DOMAIN book : book[i].id = e.id) = p
      BY <1>3, <2>3, <3>1, <3>2
    <3> QED BY <1>1, <3>3, <3>4 DEF Without
  <2>6. /\ book' \in Seq(S) /\ DOMAIN book' = 1..(Len(list) - 1)
        /\ \A j \in 1..(Len(list) - 1) : book'[j] = book[from(j)]
    <3>1. /\ book' \in Seq(S) /\ DOMAIN book' = 1..(Len(list) - 1)
          /\ \A j \in 1..(Len(list) - 1) : book'[j] = IF j < p THEN book[j] ELSE book[j + 1]
      BY <1>3, <2>3, <2>5, RemoveAtIs
    <3> QED BY <3>1 DEF from
  <2>7. /\ book' = [j \in DOMAIN list' |-> book'[j]]
        /\ \A j \in DOMAIN list' : book'[j] = mem'[list'[j]]
    <3>1. book' \in [1..(Len(list) - 1) -> S]
      BY <2>6
    <3>2. \A j \in DOMAIN list' : book'[j] = book[from(j)]
      BY <1>4, <2>6
    <3>3. \A j \in DOMAIN list' : book[from(j)] = mem[list[from(j)]]
      BY <1>3, <1>5, <2>1
    <3> QED BY <1>4, <1>7, <3>1, <3>2, <3>3
  <2> QED BY <2>7
<1>11. BookInv'
  <2>1. /\ \A j \in DOMAIN list' : mem'[list'[j]].id \in 1..(next' - 1)
        /\ \A j, k \in DOMAIN list' : mem'[list'[j]].id = mem'[list'[k]].id => j = k
    BY <1>1, <1>5, <1>7 DEF BookInv
  <2> QED BY <1>10, <2>1 DEF BookInv
<1>12. EntryInv'
  <2>1. ASSUME ~careless', NEW d \in entries, d.id \in Ids'
        PROVE  Fresh(d)'
    <3>1. PICK j \in DOMAIN list' : d.id = mem[list[from(j)]].id
      BY <1>7, <1>10, <2>1 DEF Ids
    <3>2. d.id \in Ids
      BY <1>1, <1>5, <3>1 DEF Ids, BookInv
    <3>3. d.store \in live /\ d.store \in Addr /\ mem[d.store].id = d.id
      BY <1>1, <3>2 DEF EntryInv, EntriesRight, Fresh
    <3>4. d.store # e.store
      BY <1>1, <1>2, <1>5, <3>1, <3>3 DEF BookInv
    <3> QED BY <1>1, <1>6, <3>3, <3>4 DEF Fresh
  <2> QED BY <1>1, <2>1 DEF EntryInv, EntriesRight
<1> QED BY <1>8, <1>9, <1>11, <1>12

LEMMA RenewInv ==
    ASSUME IInv, Renew
    PROVE  IInv'
<1> USE DEF IInv, Renew
<1>1. TypeInv'
  BY DEF TypeInv
<1>2. ListInv'
  <2>1. live' = {}
    BY DEF ListInv, ToSet
  <2> QED BY <2>1 DEF ListInv
<1>3. BookInv'
  BY DEF BookInv
<1>4. EntryInv'
  <2>1. Ids' = {}
    BY DEF Ids
  <2> QED BY <2>1 DEF EntryInv, EntriesRight
<1> QED BY <1>1, <1>2, <1>3, <1>4

\* What get lists are nodes of the list.
LEMMA GetKeepsInv ==
    ASSUME IInv, NEW prev, Get(prev)
    PROVE  IInv'
<1> DEFINE I == {i \in DOMAIN list : list[i] \in ToSet(After(prev))}
<1>1. list \in Seq(Addr) /\ ~careless /\ careless' \in BOOLEAN
  BY DEF IInv, ListInv, Get, Ready
<1>2. \A b \in ToSet(After(prev)) : \E i \in DOMAIN list : b = list[i]
  <2>1. CASE prev = NoEntry \/ prev.store \notin live
    BY <2>1 DEF After, ToSet
  <2>2. CASE ~(prev = NoEntry \/ prev.store \notin live)
    <3>1. Place(prev.store) \in DOMAIN list
      BY <2>2, PlaceIs
    <3>2. After(prev) = SubSeq(list, Place(prev.store) + 1, Len(list))
      BY <2>2 DEF After
    <3> HIDE DEF I
    <3>3. \A j \in DOMAIN After(prev) :
             /\ Place(prev.store) + j \in DOMAIN list
             /\ After(prev)[j] = list[Place(prev.store) + j]
      BY <1>1, <3>1, <3>2
    <3> QED BY <3>3 DEF ToSet
  <2> QED BY <2>1, <2>2
<1>3. {Entry(b) : b \in ToSet(After(prev))} = {Entry(list[i]) : i \in I}
  BY <1>2
<1>4. entries' = entries \cup {Entry(list[i]) : i \in I}
  BY <1>3 DEF Get
<1>5. I \in SUBSET DOMAIN list
  OBVIOUS
<1> HIDE DEF I
<1> QED BY <1>1, <1>4, <1>5, KeepsInv DEF Get

LEMMA NextInv ==
    ASSUME IInv, [Next]_vars
    PROVE  IInv'
<1>1. careless \in BOOLEAN
  BY DEF IInv, TypeInv
<1>2. ASSUME UNCHANGED <<mem, live, list, entries, next, book>>,
             careless' \in BOOLEAN, careless => careless'
      PROVE  IInv'
  <2>1. {} \in SUBSET DOMAIN list /\ entries' = entries \cup {Entry(list[i]) : i \in {}}
    BY <1>2
  <2> QED BY <1>2, <2>1, KeepsInv
<1>3. CASE UNCHANGED vars
  BY <1>1, <1>2, <1>3 DEF vars
<1>4. ASSUME NEW x, Addc(x) PROVE IInv'
  BY <1>4, AddInv DEF Addc
<1>5. ASSUME NEW x, AddcRaises(x) PROVE IInv'
  BY <1>1, <1>2, <1>5 DEF AddcRaises
<1>6. ASSUME NEW e, Delete(e) PROVE IInv'
  BY <1>6, DeleteInv
<1>7. ASSUME NEW e, DeleteStale(e) PROVE IInv'
  BY <1>2, <1>7 DEF DeleteStale
<1>8. CASE Renew
  BY <1>8, RenewInv
<1>9. ASSUME NEW op, NEW lines, Begin(op, lines) PROVE IInv'
  BY <1>1, <1>2, <1>9 DEF Begin
<1>10. CASE NextLine
  BY <1>1, <1>2, <1>10 DEF NextLine
<1>11. CASE AddName
  BY <1>11, AddInv DEF AddName
<1>12. CASE ReadEnds
  BY <1>1, <1>2, <1>12 DEF ReadEnds
<1>13. CASE Writefile
  BY <1>1, <1>2, <1>13 DEF Writefile
<1>14. ASSUME NEW q, Checkp(q) PROVE IInv'
  <2>1. /\ UNCHANGED <<mem, live, list, next, book, careless>> /\ ~careless
        /\ \/ \E i \in DOMAIN list : entries' = entries \cup {Entry(list[i])}
           \/ UNCHANGED entries
    BY <1>14 DEF Checkp, Ready
  <2>2. CASE UNCHANGED entries
    BY <1>1, <1>2, <2>1, <2>2
  <2>3. CASE \E i \in DOMAIN list : entries' = entries \cup {Entry(list[i])}
    <3>1. PICK i \in DOMAIN list : entries' = entries \cup {Entry(list[i])}
      BY <2>3
    <3>2. /\ {i} \in SUBSET DOMAIN list
          /\ entries' = entries \cup {Entry(list[j]) : j \in {i}}
      BY <3>1
    <3> QED BY <1>1, <2>1, <3>2, KeepsInv
  <2> QED BY <2>1, <2>2, <2>3
<1>15. ASSUME NEW prev, Get(prev) PROVE IInv'
  BY <1>15, GetKeepsInv
<1>16. ASSUME NEW e, EntryRead(e) PROVE IInv'
  BY <1>1, <1>2, <1>16 DEF EntryRead
<1> QED
  BY <1>3, <1>4, <1>5, <1>6, <1>7, <1>8, <1>9, <1>10, <1>11, <1>12, <1>13, <1>14,
     <1>15, <1>16 DEF Next, Change, Ask, Readline, Readfile

-------------------------------------------------------------------------------
(* The theorems. *)

(***************************************************************************)
(* The invariant holds: whatever the program does with the collection.     *)
(***************************************************************************)
THEOREM InvariantHolds == Spec => []IInv
<1>1. IInv /\ [Next]_vars => IInv'
  BY NextInv
<1> QED BY <1>1, InitInv, PTL DEF Spec

(***************************************************************************)
(* knownhost_add, libssh2_knownhost_del, the reading of lines and files    *)
(* and libssh2_knownhost_free keep the list equal to the hosts that were   *)
(* added and not deleted, in their order, unless an entry was used after   *)
(* its host was gone.                                                      *)
(***************************************************************************)
THEOREM CollectionIsRight == Spec => []CollectionRight
<1>1. IInv => CollectionRight
  BY DEF IInv, BookInv, CollectionRight, Nodes
<1> QED BY <1>1, InvariantHolds, PTL

(***************************************************************************)
(* A KnownHostEntry shows its host, and get(entry) lists the hosts after   *)
(* it, as long as the host is in the collection, although the entry keeps  *)
(* nothing alive and memory is used again.                                 *)
(***************************************************************************)
THEOREM PointersAreRight == Spec => []PointersRight
<1>1. ASSUME IInv PROVE TypeOK
  <2>1. live \subseteq Addr /\ \A i \in DOMAIN list : list[i] \in live
    BY <1>1 DEF IInv, ListInv
  <2>2. \A e \in entries : e.store \in Addr /\ e.id \in 1..MaxAdds
    BY <1>1, KnownHostsAssumption DEF IInv, EntryInv, TypeInv
  <2> QED BY <1>1, <2>1, <2>2 DEF IInv, TypeInv, TypeOK
<1>2. ASSUME IInv PROVE GetRight
  <2> SUFFICES ASSUME ~careless, NEW e \in entries, NEW i \in DOMAIN book, e.id = book[i].id
               PROVE  [j \in DOMAIN After(e) |-> mem[After(e)[j]]]
                         = SubSeq(book, i + 1, Len(book))
    BY DEF GetRight
  <2> DEFINE S == {mem[list[k]] : k \in DOMAIN list}
  <2>1. list \in Seq(Addr) /\ Len(list) \in Nat /\ DOMAIN list = 1..Len(list)
    BY <1>2 DEF IInv, ListInv
  <2>2. book = [k \in 1..Len(list) |-> mem[list[k]]]
    BY <1>2, <2>1 DEF IInv, BookInv
  <2>3. \A k \in 1..Len(list) : mem[list[k]] \in S
    BY <2>1
  <2> HIDE DEF S
  <2>4. book \in Seq(S) /\ Len(book) = Len(list) /\ i \in 1..Len(list)
    <3>1. book \in [1..Len(list) -> S]
      BY <2>2, <2>3
    <3> QED BY <2>1, <2>2, <3>1
  <2>5. Fresh(e) /\ e.id # 0
    <3>1. e.id \in Ids
      BY DEF Ids
    <3> QED BY <1>2, <3>1 DEF IInv, EntryInv, EntriesRight
  <2>6. Place(e.store) = i
    <3>1. Place(e.store) \in DOMAIN list /\ list[Place(e.store)] = e.store
      BY <1>2, <2>5, PlaceIs DEF Fresh
    <3>2. mem[list[Place(e.store)]].id = mem[list[i]].id
      BY <2>2, <2>4, <2>5, <3>1 DEF Fresh
    <3> QED BY <1>2, <2>1, <2>4, <3>1, <3>2 DEF IInv, BookInv
  <2>7. After(e) = SubSeq(list, i + 1, Len(list))
    <3>1. e # NoEntry
      BY <2>5 DEF NoEntry
    <3> QED BY <2>5, <2>6, <3>1 DEF After, Fresh
  <2>8. /\ DOMAIN After(e) = 1..(Len(list) - i)
        /\ \A j \in 1..(Len(list) - i) : After(e)[j] = list[i + j]
    BY <2>1, <2>4, <2>7
  <2> DEFINE rest == SubSeq(book, i + 1, Len(book))
  <2>9. /\ rest \in Seq(S) /\ Len(rest) = Len(list) - i
        /\ \A j \in 1..(Len(list) - i) : rest[j] = book[i + j]
    BY <2>1, <2>4
  <2> HIDE DEF rest
  <2>10. \A j \in 1..(Len(list) - i) : rest[j] = mem[After(e)[j]]
    <3>1. \A j \in 1..(Len(list) - i) : i + j \in 1..Len(list)
      BY <2>1, <2>4
    <3> QED BY <2>2, <2>8, <2>9, <3>1
  <2>11. rest = [j \in DOMAIN After(e) |-> rest[j]]
    <3>1. DOMAIN rest = 1..(Len(list) - i)
      BY <2>9
    <3> QED BY <2>8, <2>9, <3>1
  <2> QED BY <2>8, <2>10, <2>11 DEF rest
<1>3. IInv => PointersRight
  BY <1>1, <1>2 DEF PointersRight, IInv, EntryInv
<1> QED BY <1>3, InvariantHolds, PTL
===============================================================================
