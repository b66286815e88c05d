------------------------------ MODULE KnownHosts ------------------------------
(***************************************************************************)
(* A collection of known hosts: KnownHost and KnownHostEntry               *)
(* (ssh2/knownhost.pyx) over libssh2/src/knownhost.c.  The program adds    *)
(* hosts, reads them from a file or a line, checks the key of a server,    *)
(* deletes entries and writes the file.                                    *)
(*                                                                         *)
(* An entry object is a pointer into the C list and keeps neither the node *)
(* nor the collection alive.  Memory is modelled by addresses: malloc may  *)
(* give the memory of a deleted node to a new one, and an old entry object *)
(* then points to a host it was not made for.                              *)
(*                                                                         *)
(* A host name is <<host, port>>, standing for "[host]:port", or           *)
(* <<host, -1>> for "host".  The text of a key is <<n, k>>: key k, base64- *)
(* encoded n times.  A hashed name equals the hash of a name iff the names *)
(* are equal.  Comments behind a key, which nothing looks at, and RSA1     *)
(* keys are left out; keys have the 20 characters that a line must have,   *)
(* also when a line is cut: the buffer ends in the key.                    *)
(***************************************************************************)
EXTENDS Integers, SequencesExt

CONSTANTS
    Addr,        \* where a struct known_host may lie
    NoSave,      \* the file is not one that writefile has written
    ShortHost,   \* hosts whose names have one or two characters
    FileBuf,     \* size of the line buffers of readfile and writefile
    Args,        \* what addc may be given
    Lines,       \* the lines that readline may be given
    Files,       \* the files that may be there at the start
    Queries,     \* what checkp may be given
    MaxAdds      \* bound: how many hosts are added at most

(***************************************************************************)
(* The data of a host, given to addc or in a line.  form: how the name is  *)
(* stored; type: the type of the key, "none" if the mask has none; named:  *)
(* the name of an unknown type is known; len: the length of its line with  *)
(* the newline.  enc of an argument says how the key is given.             *)
(***************************************************************************)
Forms == {"plain", "sha1", "custom"}
Types == {"rsa", "ed25519", "unknown"}

ASSUME KnownHostsAssumption ==
    /\ FileBuf \in Nat /\ MaxAdds \in Nat
    /\ \A x \in Args : x.form \in Forms /\ x.type \in Types \cup {"none"}
    /\ \A l \in Lines \cup UNION {ToSet(f) : f \in Files} :
         l.kind \in {"skip", "bad", "hosts"} /\ (l.kind # "hosts" => l.len < FileBuf)
    /\ \A q \in Queries : q.form \in Forms /\ q.type \in Types \cup {"none"}

VARIABLES
    mem,        \* mem[a]: the struct known_host at a, also after it is freed
    live,       \* the addresses that are allocated
    list,       \* hosts->head, the addresses in order
    entries,    \* the entry objects of the program: address and host meant
    next,       \* number of the next host
    file,       \* the lines of the file
    saved,      \* the hosts that writefile has put in it
    call,       \* a readline or readfile that is running
    answer,     \* what the last call has answered, if it was a read
    book,       \* the hosts that were added and not deleted, in order
    careless    \* an entry was used after its host was gone

vars == <<mem, live, list, entries, next, file, saved, call, answer, book, careless>>

Idle == [op |-> "none"]
Nothing == [op |-> "none"]

NoNode == [id |-> 0]    \* memory that was never used, or cleared by delete
NoEntry == [id |-> 0]   \* None in place of an entry object

Init ==
    /\ mem = [a \in Addr |-> NoNode] /\ live = {} /\ list = <<>>
    /\ entries = {} /\ next = 1
    /\ file \in Files /\ saved = NoSave
    /\ call = Idle /\ answer = Nothing
    /\ book = <<>> /\ careless = FALSE

\* No call is running.  What follows the use of freed memory is undefined and
\* not followed.
Ready == call = Idle /\ ~careless

Nodes == [i \in DOMAIN list |-> mem[list[i]]]
Ids == {book[i].id : i \in DOMAIN book}

-------------------------------------------------------------------------------
(* Adding. *)

\* "key is raw, we base64 encode it and store it as such".
Stored(key, enc) == IF enc = "raw" THEN <<key[1] + 1, key[2]>> ELSE key

Node(x, named) ==
    [id |-> next, form |-> x.form, name |-> x.name, type |-> x.type,
     key |-> Stored(x.key, x.enc), named |-> named, len |-> x.len]

\* knownhost_add, when it succeeds, with the new node at a.
Add(x, named, a) ==
    /\ next <= MaxAdds
    /\ a \in Addr \ live
    /\ mem' = [mem EXCEPT ![a] = Node(x, named)]
    /\ live' = live \cup {a}
    /\ list' = Append(list, a)
    /\ book' = Append(book, Node(x, named))
    /\ next' = next + 1

\* Bug: the first node is wrapped in place of the one that was found.
EntryFirst(a) == [store |-> list[1], id |-> mem[a].id]
\* PyKnownHostEntry, and what knownhost_to_external fills in.
Entry(a) == [store |-> a, id |-> mem[a].id]

\* KnownHost.addc.
Addc(x) ==
    /\ Ready /\ x.type # "none"
    /\ \E a \in Addr : Add(x, FALSE, a)
                       /\ entries' = entries \cup {[store |-> a, id |-> next]}
    /\ answer' = Nothing
    /\ UNCHANGED <<file, saved, call, careless>>

\* No key type: nothing is added and the entry object is lost.
AddcRaises(x) ==
    /\ Ready /\ x.type = "none"
    /\ answer' = Nothing
    /\ UNCHANGED <<mem, live, list, entries, next, file, saved, call, book, careless>>

-------------------------------------------------------------------------------
(* Checking. *)

\* The names that are looked for, the one with the port first.
Combos(q) == IF q.port >= 0 THEN <<<<q.host, q.port>>, <<q.host, -1>>>>
                            ELSE <<<<q.host, -1>>>>

SameHost(n, q, name) ==
    /\ n.form = q.form \/ (n.form = "sha1" /\ q.form = "plain")
    /\ n.name = name

\* "never match on an unknown key type; if key_type is set to zero, ignore it".
TypesFit(n, q) == q.type # "unknown" /\ q.type \in {"none", n.type}

\* Bug: the search ends at the first host whose key is another.
LookAtFirst(n, i, q, name, acc) ==
    IF acc.match # 0 \/ acc.badkey # 0 \/ ~SameHost(n, q, name) \/ ~TypesFit(n, q)
      THEN acc
      ELSE IF Stored(q.key, q.enc) = n.key THEN [acc EXCEPT !.match = i]
                                           ELSE [acc EXCEPT !.badkey = i]

\* One turn of the inner loop: node i of the list is looked at.
LookAt(n, i, q, name, acc) ==
    IF acc.match # 0 \/ ~SameHost(n, q, name) \/ ~TypesFit(n, q) THEN acc
    ELSE IF Stored(q.key, q.enc) = n.key
      THEN [acc EXCEPT !.match = i]
      ELSE [acc EXCEPT !.badkey = IF @ = 0 THEN i ELSE @]

(***************************************************************************)
(* knownhost_check: the position of the node that is given back, and the   *)
(* verdict.  A host with another key is remembered and the search goes on. *)
(***************************************************************************)
KnownhostCheck(nodes, q) ==
    LET pass(acc, name) ==
            FoldLeft(LAMBDA b, i : LookAt(nodes[i], i, q, name, b), acc,
                     [i \in DOMAIN nodes |-> i])
        end == FoldLeft(pass, [match |-> 0, badkey |-> 0], Combos(q))
    IN  CASE q.form = "sha1" -> [rc |-> "MISMATCH", at |-> 0]
          [] end.match # 0   -> [rc |-> "MATCH", at |-> end.match]
          [] end.badkey # 0  -> [rc |-> "MISMATCH", at |-> end.badkey]
          [] OTHER           -> [rc |-> "NOTFOUND", at |-> 0]

\* KnownHost.checkp: only a match hands out an entry, the rest raises.
Checkp(q) ==
    LET r == KnownhostCheck(Nodes, q)
    IN  /\ Ready
        /\ \/ /\ r.rc = "MATCH"
              /\ \E i \in DOMAIN list : i = r.at /\ entries' = entries \cup {Entry(list[i])}
           \/ r.rc # "MATCH" /\ UNCHANGED entries
        /\ answer' = Nothing
        /\ UNCHANGED <<mem, live, list, next, file, saved, call, book, careless>>

-------------------------------------------------------------------------------
(* Entries. *)

\* The entry object e still points to the host it was made for.
Fresh(e) == e.store \in live /\ mem[e.store].id = e.id

\* Where address a is in the list.
Place(a) == CHOOSE i \in DOMAIN list : list[i] = a

\* Bug: the first node is taken off.
UnlinkFirst(a) == list' = Tail(list)
\* _libssh2_list_remove.
Unlink(a) == list' = RemoveAt(list, Place(a))

\* The hosts without the one with this number.
Without(id) ==
    IF id \in Ids THEN RemoveAt(book, CHOOSE i \in DOMAIN book : book[i].id = id) ELSE book

(***************************************************************************)
(* KnownHost.delete.  The struct is cleared before it is freed, so that    *)
(* the magic number of a deleted entry is wrong, until its memory is used  *)
(* again.                                                                  *)
(***************************************************************************)
Delete(e) ==
    /\ Ready /\ e \in entries
    /\ e.store \in live
    /\ Unlink(e.store)
    /\ mem' = [mem EXCEPT ![e.store] = NoNode]
    /\ live' = live \ {e.store}
    /\ book' = Without(e.id)
    /\ careless' = (careless \/ ~Fresh(e))
    /\ answer' = Nothing
    /\ UNCHANGED <<entries, next, file, saved, call>>

\* The memory has been freed.  As long as it is not used for other things a
\* cleared magic number is noticed; the one that knownhost_free leaves is not.
DeleteStale(e) ==
    /\ Ready /\ e \in entries
    /\ e.store \notin live
    /\ careless' = TRUE
    /\ answer' = Nothing
    /\ UNCHANGED <<mem, live, list, entries, next, file, saved, call, book>>

\* The part of the list behind prev; all of it if prev is cleared.
After(prev) ==
    IF prev = NoEntry \/ prev.store \notin live THEN list
    ELSE SubSeq(list, Place(prev.store) + 1, Len(list))

\* KnownHost.get: new entry objects for the hosts behind prev.
Get(prev) ==
    /\ Ready /\ prev \in entries \cup {NoEntry}
    /\ entries' = entries \cup {Entry(a) : a \in ToSet(After(prev))}
    /\ careless' = (careless \/ (prev # NoEntry /\ ~Fresh(prev)))
    /\ answer' = Nothing
    /\ UNCHANGED <<mem, live, list, next, file, saved, call, book>>

\* The last reference to the KnownHost is dropped and another one is made:
\* libssh2_knownhost_free and _init.  Nothing is cleared.
Renew ==
    /\ Ready
    /\ live' = live \ ToSet(list)
    /\ list' = <<>> /\ book' = <<>>
    /\ answer' = Nothing
    /\ UNCHANGED <<mem, entries, next, file, saved, call, careless>>

-------------------------------------------------------------------------------
(* Files.  A line of kind "hosts" has one or more names with one key.      *)

\* readline or readfile begins.
Begin(op, lines) ==
    /\ Ready
    /\ call' = [op |-> op, lines |-> lines, names |-> <<>>, num |-> 0,
                had |-> Len(list)]
    /\ answer' = Nothing
    /\ UNCHANGED <<mem, live, list, entries, next, file, saved, book, careless>>

Readline(line) == Begin("readline", <<line>>)
Readfile == Begin("readfile", file)

End(rc) ==
    /\ answer' = [op |-> call.op, rc |-> rc, lines |-> file, had |-> call.had]
    /\ call' = Idle

\* "if((hostlen > 2) && memcmp(host, "|1|", 3))": a name of one or two
\* characters is taken for a hashed one.
AsHashed(line) ==
    /\ line.form = "plain" /\ Len(line.names) = 1
    /\ line.names[1][1] \in ShortHost /\ line.names[1][2] < 0

\* The names that a line adds, the last one first.  A hashed name without
\* salt adds nothing: "XXX: This should be an error, shouldn't it?"
NamesOf(line) == IF AsHashed(line) THEN <<>> ELSE Reverse(line.names)

CutKey(key) == <<-1, key[2]>>    \* the part of a key that fits the buffer

\* fgets cuts a line that does not fit with its newline and the zero.  If only
\* the newline is left, that is an empty line; else the end of the key is a
\* line of its own, which is no legal one.
Pieces(line) ==
    LET rest(kind) == [line EXCEPT !.kind = kind, !.len = @ - (FileBuf - 1)]
    IN  CASE call.op = "readline" \/ line.len < FileBuf -> <<line>>
          [] line.len = FileBuf -> <<line, rest("skip")>>
          [] line.len > FileBuf ->
               <<[line EXCEPT !.key = CutKey(@), !.len = FileBuf], rest("bad")>>

NextLine ==
    LET p == Pieces(Head(call.lines))
        line == p[1]
    IN  /\ call # Idle /\ call.names = <<>> /\ call.lines # <<>>
        /\ IF line.kind = "bad" THEN End(-1)
           ELSE /\ call' = [call EXCEPT !.lines = Tail(p) \o Tail(@), !.num = @ + 1,
                              !.names = IF line.kind = "skip" THEN <<>>
                                        ELSE [i \in DOMAIN NamesOf(line) |->
                                                [name |-> NamesOf(line)[i], line |-> line]]]
                /\ answer' = answer
        /\ UNCHANGED <<mem, live, list, entries, next, file, saved, book, careless>>

\* oldstyle_hostline and hashed_hostline: one name of the line is added.
AddName ==
    /\ call # Idle /\ call.names # <<>>
    /\ LET n == Head(call.names)
           x == [form |-> n.line.form, name |-> n.name, type |-> n.line.type,
                 key |-> n.line.key, enc |-> "base64", len |-> n.line.len]
       IN  \E a \in Addr : Add(x, n.line.type = "unknown", a)
    /\ call' = [call EXCEPT !.names = Tail(@)]
    /\ UNCHANGED <<entries, file, saved, answer, careless>>

\* readfile answers with the number of lines, a newline that fgets has left
\* counting as one; readline with 0.
ReadEnds ==
    /\ call # Idle /\ call.names = <<>> /\ call.lines = <<>>
    /\ End(IF call.op = "readfile" THEN call.num ELSE 0)
    /\ UNCHANGED <<mem, live, list, entries, next, file, saved, book, careless>>

\* knownhost_writeline: the type must have a name.
HasTypeName(n) == n.type # "unknown" \/ n.named
\* A custom name is written like a plain one.
LineOf(n) == [kind |-> "hosts", form |-> IF n.form = "sha1" THEN "sha1" ELSE "plain",
              names |-> <<n.name>>, type |-> n.type, key |-> n.key, len |-> n.len]

\* Bug: the terminating zero is forgotten.
FitsBarely(n, buflen) == n.len <= buflen
\* "required_size <= buflen", with the terminating zero.
Fits(n, buflen) == n.len + 1 <= buflen

\* KnownHost.writeline, which doubles its buffer until the line fits, and the
\* attributes of an entry: memory is read, nothing changes.
EntryRead(e) ==
    /\ Ready /\ e \in entries
    /\ careless' = (careless \/ ~Fresh(e))
    /\ answer' = Nothing
    /\ UNCHANGED <<mem, live, list, entries, next, file, saved, call, book>>

\* The loop of writefile ends at the first entry that cannot be written.
Written ==
    LET bad == SelectInSeq(Nodes, LAMBDA n : ~HasTypeName(n) \/ ~Fits(n, FileBuf))
    IN  IF bad = 0 THEN Nodes ELSE SubSeq(Nodes, 1, bad - 1)

\* KnownHost.writefile; the file is overwritten in any case.
Writefile ==
    /\ Ready
    /\ file' = [i \in DOMAIN Written |-> LineOf(Written[i])]
    /\ saved' = IF Written = Nodes THEN Nodes ELSE NoSave
    /\ answer' = Nothing
    /\ UNCHANGED <<mem, live, list, entries, next, call, book, careless>>

-------------------------------------------------------------------------------

Change ==
    \/ \E x \in Args : Addc(x) \/ AddcRaises(x)
    \/ \E e \in entries : Delete(e) \/ DeleteStale(e)
    \/ Renew
    \/ \E l \in Lines : Readline(l)
    \/ Readfile \/ NextLine \/ AddName \/ ReadEnds
    \/ Writefile

Ask ==
    \/ \E q \in Queries : Checkp(q)
    \/ \E e \in entries \cup {NoEntry} : Get(e)
    \/ \E e \in entries : EntryRead(e)

Next == Change \/ Ask

Spec == Init /\ [][Next]_vars

-------------------------------------------------------------------------------
(* Properties. *)

TypeOK ==
    /\ live \subseteq Addr /\ next \in 1..(MaxAdds + 1)
    /\ \A i \in DOMAIN list : list[i] \in live
    /\ \A e \in entries : e.store \in Addr /\ e.id \in 1..MaxAdds
    /\ careless \in BOOLEAN

(***************************************************************************)
(* The list holds the hosts that were added and not deleted, in the order  *)
(* in which they were added, unless an entry object was used after its     *)
(* host was deleted: it may then be the memory of another host, which      *)
(* delete takes off the list.                                              *)
(***************************************************************************)
CollectionRight == ~careless => Nodes = book

(***************************************************************************)
(* An entry object shows the host it was made for as long as that host is  *)
(* in the collection, wherever later hosts are allocated.                  *)
(***************************************************************************)
EntriesRight == ~careless => \A e \in entries : e.id \in Ids => Fresh(e)

(***************************************************************************)
(* The verdict of checkp for a plain or a custom name is right for the     *)
(* hosts that were added, in whatever order and form, and not deleted: a   *)
(* match iff one of the names has this key, with a type that is not at     *)
(* odds; a mismatch iff the name is there with other keys only.  A key     *)
(* under the name with the port is preferred.                              *)
(***************************************************************************)
Meant(q, name) ==
    {n \in ToSet(book) : /\ n.name = name
                         /\ IF q.form = "custom" THEN n.form = "custom"
                                                 ELSE n.form # "custom"
                         /\ q.type = "none" \/ (q.type = n.type /\ q.type # "unknown")}
KeyIs(n, q) == n.key[2] = q.key[2] /\ n.key[1] = q.key[1] + (IF q.enc = "raw" THEN 1 ELSE 0)

VerdictRight ==
    ~careless => \A q \in Queries :
        LET r == KnownhostCheck(Nodes, q)
            all == UNION {Meant(q, name) : name \in ToSet(Combos(q))}
            first == {n \in Meant(q, Combos(q)[1]) : KeyIs(n, q)}
        IN  \/ q.form = "sha1"
            \/ /\ r.rc = "MATCH"
               /\ KeyIs(Nodes[r.at], q)
               /\ Nodes[r.at] \in (IF first # {} THEN first ELSE all)
            \/ r.rc = "MISMATCH" /\ all # {} /\ \A n \in all : ~KeyIs(n, q)
            \/ r.rc = "NOTFOUND" /\ all = {}

(***************************************************************************)
(* get(prev) lists the hosts that were added after prev, each once.         *)
(***************************************************************************)
GetRight ==
    ~careless => \A e \in entries : \A i \in DOMAIN book :
        e.id = book[i].id =>
            [j \in DOMAIN After(e) |-> mem[After(e)[j]]] = SubSeq(book, i + 1, Len(book))

(***************************************************************************)
(* Entry objects can be relied on as long as their hosts are in the        *)
(* collection: to look at the host, and to ask get for those after it.     *)
(***************************************************************************)
PointersRight == TypeOK /\ EntriesRight /\ GetRight

(***************************************************************************)
(* A file that writefile has written without an error gives the same       *)
(* verdicts when it is read into an empty collection, also at the size of  *)
(* the line buffers.  Not so for custom names, which come back as plain    *)
(* ones, and for names of one or two characters, which are dropped.        *)
(***************************************************************************)
Portable(nodes) ==
    \A i \in DOMAIN nodes : /\ nodes[i].form # "custom"
                            /\ nodes[i].name[1] \in ShortHost => nodes[i].name[2] >= 0

RoundTrip ==
    answer.op = "readfile" /\ answer.had = 0 /\ saved # NoSave =>
        (Portable(saved) =>
          /\ answer.rc = Len(saved)
          /\ \A q \in Queries : KnownhostCheck(Nodes, q) = KnownhostCheck(saved, q))

(***************************************************************************)
(* readfile adds every name of every line in front of the first illegal    *)
(* one, with the key of its line, and no other, and answers with an error  *)
(* iff there is an illegal line: what was added before it stays.  A line   *)
(* is read whole if it fits the buffer without its newline.  A longer one  *)
(* is illegal, but its names are added with what fits of the key.          *)
(***************************************************************************)
KeyRead(line) == IF line.len <= FileBuf THEN line.key ELSE CutKey(line.key)

FileAdded ==
    answer.op = "readfile" =>
        LET lines == answer.lines
            bad == {i \in DOMAIN lines : lines[i].kind = "bad" \/ lines[i].len > FileBuf}
            seen == {lines[i] : i \in {j \in DOMAIN lines : \A b \in bad : j <= b}}
            good == {l \in seen : l.kind = "hosts" /\ ~AsHashed(l)}
        IN  /\ answer.rc < 0 <=> bad # {}
            /\ {<<Nodes[i].name, Nodes[i].key>> : i \in (answer.had + 1)..Len(list)}
               = UNION {{<<name, KeyRead(l)>> : name \in ToSet(l.names)} : l \in good}

(***************************************************************************)
(* Reading a file adds what the file says, and a file that was written     *)
(* says what the collection holds.                                         *)
(***************************************************************************)
FilesRight == FileAdded /\ RoundTrip

\* KnownHost.readfile "Returns number of successfully read host entries".
\* Violated by lines with several names or none.
CountRight ==
    answer.op = "readfile" /\ answer.rc >= 0 => answer.rc = Len(list) - answer.had
===============================================================================
