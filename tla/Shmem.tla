-------------------------------- MODULE Shmem --------------------------------
(***************************************************************************)
(* The emulation of System V shared memory that is preloaded into X        *)
(* clients.  A process keeps the segments it has created or attached in a  *)
(* table; a listener thread hands out the descriptors of its segments over *)
(* a socket whose number is the upper half of their ids; a key is a        *)
(* symbolic link to an id.                                                 *)
(*                                                                         *)
(* A call holds the mutex of its process throughout, also while it waits   *)
(* for the listener of another process, which needs that process's mutex.  *)
(* One thread of each process makes calls.  A link and a table entry carry *)
(* the segment they were made for, which the program does not know: a      *)
(* segment is the process that made it and the number of its ids before.   *)
(***************************************************************************)
EXTENDS Integers, Sequences, FiniteSets, SequencesExt

CONSTANTS
  Procs,       \* places for processes
  Keys,        \* keys other than IPC_PRIVATE
  SockIds,     \* socket numbers (getpid() + i) & 0xffff
  CounterMod,  \* 0x8000, after which shmem_counter starts again
  Base,        \* 0x10000, the number of ids for a socket
  Half,        \* 0x8000, the first socket number whose ids are negative
  MaxProcs,    \* bound: processes started
  MaxCalls     \* bound: calls

Private == "IPC_PRIVATE"

ASSUME ShmemAssumption ==
  /\ CounterMod \in Nat \ {0} /\ Base \in Nat /\ CounterMod <= Base
  /\ Half \in Nat /\ SockIds \subseteq 0..(2 * Half - 1)
  /\ MaxProcs \in Nat /\ MaxCalls \in Nat
  /\ Private \notin Keys

NoSock  == -1             \* before the first shmget; ashv_local_socket_id is 0
NoSeg   == <<0, 0>>
NoLink  == [id |-> 0, seg |-> NoSeg]

\* Ids are 32-bit integers; division truncates towards zero, so that a negative
\* id yields the number of no socket.
ashv_shmid_from_counter(s, counter) == (IF s < Half THEN s ELSE s - 2 * Half) * Base + counter
ashv_socket_id_from_shmid(id) == IF id >= 0 THEN id \div Base ELSE -((-id) \div Base)

VARIABLES
  life,     \* the number of the process in a place, 0 if there is none
  started,  \* processes started
  sock,     \* ashv_local_socket_id
  orphans,  \* socket numbers still bound by a child that inherited the socket
  counter,  \* shmem_counter
  issued,   \* ids issued by the process
  table,    \* shmem
  link,     \* the symbolic link of a key, with the segment it was made for
  shmPc,    \* where a process is in a call; its mutex is held unless "idle"
  call,     \* the call: what it is, its key, the id it asks for, the link it
            \* read and the id it has allocated
  calls,    \* calls made
  raced,    \* history: keys whose link was removed by a process that had read
            \* an earlier one
  misjudged \* history: keys whose segment was there, but asking for it failed

shmVars == <<life, started, sock, orphans, counter, issued, table, link, shmPc, call, calls,
             raced, misjudged>>

NoCall == [op |-> "none", key |-> Private, id |-> 0, seen |-> NoLink, new |-> NoLink]
\* A call begins.
Begin(p) ==
  /\ life[p] # 0 /\ shmPc[p] = "idle"
  /\ calls < MaxCalls /\ calls' = calls + 1
Bound == {sock[p] : p \in {q \in Procs : life[q] # 0}} \cup orphans
Segment(p) == <<life[p], issued[p] + 1>>

ashv_local_socket_id(p) == IF sock[p] = NoSock THEN 0 ELSE sock[p]

\* ashv_find_local_index: the first entry with the id, 0 if there is none.
ashv_find_local_index(p, id) ==
  IF \E i \in DOMAIN table[p] : table[p][i].id = id
  THEN CHOOSE i \in DOMAIN table[p] :
         table[p][i].id = id /\ \A j \in 1..(i - 1) : table[p][j].id # id
  ELSE 0

Entry(id, seg, key, mapped) ==
  [id |-> id, seg |-> seg, key |-> key, mapped |-> mapped, marked |-> FALSE]

ShmInit ==
  /\ life = [p \in Procs |-> 0] /\ started = 0
  /\ sock = [p \in Procs |-> NoSock] /\ orphans = {}
  /\ counter = [p \in Procs |-> 0] /\ issued = [p \in Procs |-> 0]
  /\ table = [p \in Procs |-> <<>>]
  /\ link = [k \in Keys |-> NoLink]
  /\ shmPc = [p \in Procs |-> "idle"] /\ call = [p \in Procs |-> NoCall]
  /\ calls = 0 /\ raced = {} /\ misjudged = {}

-----------------------------------------------------------------------------
\* A process starts; a forked one keeps the counter of its parent
\* (ashv_check_pid resets everything else).
ashv_check_pid(p) ==
  /\ life[p] = 0 /\ started < MaxProcs
  /\ started' = started + 1
  /\ life' = [life EXCEPT ![p] = started + 1]
  /\ sock' = [sock EXCEPT ![p] = NoSock]
  /\ \E c \in {0} \cup {counter[q] : q \in {r \in Procs : life[r] # 0}} :
       counter' = [counter EXCEPT ![p] = c]
  /\ issued' = [issued EXCEPT ![p] = 0]
  /\ UNCHANGED <<orphans, table, link, shmPc, call, calls, raced, misjudged>>

\* A process ends; its socket stays bound if a child has inherited it.
ProcessGone(p) ==
  /\ life[p] # 0
  /\ life' = [life EXCEPT ![p] = 0]
  /\ orphans' \in {orphans, orphans \cup ({sock[p]} \ {NoSock})}
  /\ table' = [table EXCEPT ![p] = <<>>]
  /\ shmPc' = [shmPc EXCEPT ![p] = "idle"] /\ call' = [call EXCEPT ![p] = NoCall]
  /\ UNCHANGED <<started, sock, counter, issued, link, calls, raced, misjudged>>

\* shmget binds the first free socket name and starts the listener.
Bind(p) ==
  IF sock[p] # NoSock THEN UNCHANGED sock
  ELSE \E s \in SockIds \ Bound : sock' = [sock EXCEPT ![p] = s]

\* A bug: the counter starts again one id early.
NextCounterMutant(p) == (counter[p] + 1) % (CounterMod - 1)

NextCounter(p) == (counter[p] + 1) % CounterMod

Issue(p) ==
  /\ counter' = [counter EXCEPT ![p] = NextCounter(p)]
  /\ issued' = [issued EXCEPT ![p] = @ + 1]

\* ashmem_create_region may fail; then the table is as before.
Create(p, id, seg, key) ==
  table' \in {table, [table EXCEPT ![p] = Append(@, Entry(id, seg, key, FALSE))]}

shmgetPrivate(p) ==
  /\ Begin(p) /\ Bind(p) /\ Issue(p)
  /\ Create(p, ashv_shmid_from_counter(sock'[p], NextCounter(p)), Segment(p), Private)
  /\ UNCHANGED <<life, started, orphans, link, shmPc, call, raced, misjudged>>

shmget(p, k) ==
  /\ Begin(p) /\ Bind(p)
  /\ shmPc' = [shmPc EXCEPT ![p] = "readlink"]
  /\ call' = [call EXCEPT ![p] = [NoCall EXCEPT !.op = "get", !.key = k]]
  /\ UNCHANGED <<life, started, orphans, counter, issued, table, link, raced, misjudged>>

\* Back to the caller.
Return(p) ==
  /\ shmPc' = [shmPc EXCEPT ![p] = "idle"]
  /\ call' = [call EXCEPT ![p] = NoCall]

\* (1) and (2): the key's segment is in the table, or its process is asked; an
\* id that is 0 counts for none.
ReadLink(p) ==
  /\ shmPc[p] = "readlink"
  /\ LET l == link[call[p].key]
         i == ashv_find_local_index(p, l.id)
     IN \/ /\ l = NoLink
           /\ shmPc' = [shmPc EXCEPT ![p] = "symlink"] /\ UNCHANGED call
        \/ l # NoLink /\ l.id # 0 /\ i # 0 /\ Return(p)
        \/ /\ l # NoLink /\ (l.id = 0 \/ i = 0)
           /\ shmPc' = [shmPc EXCEPT ![p] = IF l.id = 0 THEN "unlink" ELSE "ask"]
           /\ call' = [call EXCEPT ![p].seen = l, ![p].id = l.id]
  /\ UNCHANGED <<life, started, sock, orphans, counter, issued, table, link, calls, raced,
                 misjudged>>

\* readlink fails although there is a link.
ReadLinkFails(p) ==
  /\ shmPc[p] = "readlink" /\ link[call[p].key] # NoLink
  /\ shmPc' = [shmPc EXCEPT ![p] = "symlink"]
  /\ UNCHANGED <<life, started, sock, orphans, counter, issued, table, link, call, calls, raced,
                 misjudged>>

(***************************************************************************)
(* ashv_read_remote_segment, and ashv_thread_function of the process asked,*)
(* which looks the id up when it gets the mutex.                           *)
(***************************************************************************)
Asked(p) ==
  {q \in Procs : life[q] # 0 /\ sock[q] # NoSock /\ sock[q] = ashv_socket_id_from_shmid(call[p].id)}

Answers(p, q) == q \in Asked(p) /\ shmPc[q] = "idle"

AskFound(p) ==
  /\ shmPc[p] = "ask"
  /\ \E q \in Procs :
       /\ Answers(p, q)
       /\ LET i == ashv_find_local_index(q, call[p].id)
          IN /\ i # 0
             /\ table' = [table EXCEPT ![p] =
                  Append(@, Entry(call[p].id, table[q][i].seg, table[q][i].key,
                                  call[p].op = "at"))]
             /\ Return(p)
  /\ UNCHANGED <<life, started, sock, orphans, counter, issued, link, calls, raced, misjudged>>

\* An answer that is none: shmget takes the link for a stale one, shmat fails.
NoAnswer(p) ==
  IF call[p].op = "get"
  THEN shmPc' = [shmPc EXCEPT ![p] = "unlink"] /\ UNCHANGED call
  ELSE Return(p)

\* Nothing is bound to the name, or the listener does not know the id.
AskFails(p) ==
  /\ shmPc[p] = "ask"
  /\ \/ Asked(p) = {} /\ ashv_socket_id_from_shmid(call[p].id) \notin orphans
     \/ \E q \in Procs : Answers(p, q) /\ ashv_find_local_index(q, call[p].id) = 0
  /\ NoAnswer(p)
  /\ UNCHANGED <<life, started, sock, orphans, counter, issued, table, link, calls, raced,
                 misjudged>>

\* The segments that processes have made for a key and still have; one that has
\* the id 0 or a negative one does not count, as nobody can ask for it.
OwnSegments(k) ==
  UNION {{e.seg : e \in {f \in Range(table[p]) : f.key = k /\ f.seg[1] = life[p] /\ f.id > 0}} :
           p \in Procs}

\* Whatever the process asked does: there is no socket to be had, sending or
\* receiving fails, no descriptor comes with the answer, or it has no size.
AskBreaks(p) ==
  /\ shmPc[p] = "ask"
  /\ NoAnswer(p)
  /\ misjudged' = IF call[p].op = "get" /\ call[p].seen.seg \in OwnSegments(call[p].key)
                  THEN misjudged \cup {call[p].key} ELSE misjudged
  /\ UNCHANGED <<life, started, sock, orphans, counter, issued, table, link, calls, raced>>

\* unlink removes the link that is there by now.
Unlink(p) ==
  /\ shmPc[p] = "unlink"
  /\ shmPc' = [shmPc EXCEPT ![p] = "symlink"]
  /\ link' = [link EXCEPT ![call[p].key] = NoLink]
  /\ raced' = IF link[call[p].key] \in {NoLink, call[p].seen} THEN raced
              ELSE raced \cup {call[p].key}
  /\ UNCHANGED <<life, started, sock, orphans, counter, issued, table, call, calls, misjudged>>

\* Nobody looks at what unlink returns.
UnlinkFails(p) ==
  /\ shmPc[p] = "unlink" /\ link[call[p].key] # NoLink
  /\ shmPc' = [shmPc EXCEPT ![p] = "symlink"]
  /\ UNCHANGED <<life, started, sock, orphans, counter, issued, table, link, call, calls, raced,
                 misjudged>>

\* A bug: an existing link is replaced.
LinkFreeMutant(k) == TRUE

LinkFree(k) == link[k] = NoLink

\* A bug: only the symbolic link is tried again.
LinkExistsMutant == "symlink"

\* Where the loop goes on when the link could not be made.
LinkExists == "readlink"

\* An id is allocated once for the call.
NewLink(p) ==
  IF call[p].new # NoLink THEN call[p].new
  ELSE [id |-> ashv_shmid_from_counter(sock[p], NextCounter(p)), seg |-> Segment(p)]

IssueOnce(p) == IF call[p].new = NoLink THEN Issue(p) ELSE UNCHANGED <<counter, issued>>

NotLinked(p) ==
  /\ shmPc' = [shmPc EXCEPT ![p] = LinkExists]
  /\ call' = [call EXCEPT ![p].new = NewLink(p)]
  /\ UNCHANGED <<link, table>>

\* (3) and (4): the link is made, and the segment before anyone can ask for it,
\* or the link is read again.
Symlink(p) ==
  /\ shmPc[p] = "symlink"
  /\ IssueOnce(p)
  /\ IF LinkFree(call[p].key)
     THEN /\ link' = [link EXCEPT ![call[p].key] = NewLink(p)]
          /\ Create(p, NewLink(p).id, NewLink(p).seg, call[p].key)
          /\ Return(p)
     ELSE NotLinked(p)
  /\ UNCHANGED <<life, started, sock, orphans, calls, raced, misjudged>>

\* symlink fails for another reason than that there is a link, which makes no
\* difference.
SymlinkFails(p) ==
  /\ shmPc[p] = "symlink" /\ link[call[p].key] = NoLink
  /\ IssueOnce(p) /\ NotLinked(p)
  /\ UNCHANGED <<life, started, sock, orphans, calls, raced, misjudged>>

-----------------------------------------------------------------------------
KnownIds == UNION {{e.id : e \in Range(table[p])} : p \in Procs}

\* Is the segment of another process, as far as its id tells?
Remote(p, id) == ashv_socket_id_from_shmid(id) # ashv_local_socket_id(p)

\* An attached segment is mapped once, however often it is attached.
shmat(p, id) ==
  /\ Begin(p)
  /\ LET i == ashv_find_local_index(p, id)
     IN IF i # 0
        THEN table' = [table EXCEPT ![p][i].mapped = TRUE] /\ UNCHANGED <<shmPc, call>>
        ELSE /\ Remote(p, id)
             /\ shmPc' = [shmPc EXCEPT ![p] = "ask"]
             /\ call' = [call EXCEPT ![p] = [NoCall EXCEPT !.op = "at", !.id = id]]
             /\ UNCHANGED table
  /\ UNCHANGED <<life, started, sock, orphans, counter, issued, link, raced, misjudged>>

\* A bug: a segment is deleted when it is detached, whosever it is.
shmdtMutant(p, i) ==
  /\ Begin(p) /\ table[p][i].mapped
  /\ table' = [table EXCEPT ![p] = RemoveAt(@, i)]
  /\ UNCHANGED <<life, started, sock, orphans, counter, issued, link, shmPc, call, raced,
                 misjudged>>

shmdt(p, i) ==
  /\ Begin(p) /\ table[p][i].mapped
  /\ table' = [table EXCEPT ![p] = IF @[i].marked \/ Remote(p, @[i].id)
                                   THEN RemoveAt(@, i) ELSE [@ EXCEPT ![i].mapped = FALSE]]
  /\ UNCHANGED <<life, started, sock, orphans, counter, issued, link, shmPc, call, raced,
                 misjudged>>

\* IPC_RMID; the link of the key stays.
shmctl(p, id) ==
  /\ Begin(p)
  /\ LET i == ashv_find_local_index(p, id)
     IN /\ i # 0
        /\ table' = [table EXCEPT ![p] = IF @[i].mapped THEN [@ EXCEPT ![i].marked = TRUE]
                                                        ELSE RemoveAt(@, i)]
  /\ UNCHANGED <<life, started, sock, orphans, counter, issued, link, shmPc, call, raced,
                 misjudged>>

ShmGoOn(p) == ReadLink(p) \/ AskFound(p) \/ AskFails(p) \/ Unlink(p) \/ Symlink(p)

\* The file system fails a call.
Refused(p) == ReadLinkFails(p) \/ UnlinkFails(p) \/ SymlinkFails(p)

ShmNext ==
  \E p \in Procs :
    \/ ashv_check_pid(p) \/ ProcessGone(p)
    \/ shmgetPrivate(p) \/ \E k \in Keys : shmget(p, k)
    \/ ShmGoOn(p) \/ AskBreaks(p) \/ Refused(p)
    \/ \E id \in KnownIds : shmat(p, id) \/ shmctl(p, id)
    \/ \E i \in DOMAIN table[p] : shmdt(p, i)

ShmSpec == ShmInit /\ [][ShmNext]_shmVars
-----------------------------------------------------------------------------
(***************************************************************************)
(* The types of the variables; the processes of different places, their    *)
(* sockets and the children that hold sockets are different ones.          *)
(***************************************************************************)
ShmTypeOK ==
  /\ started \in 0..MaxProcs /\ life \in [Procs -> 0..MaxProcs]
  /\ sock \in [Procs -> {NoSock} \cup SockIds] /\ orphans \subseteq SockIds
  /\ counter \in [Procs -> 0..(CounterMod - 1)] /\ issued \in [Procs -> 0..MaxCalls]
  /\ shmPc \in [Procs -> {"idle", "readlink", "ask", "unlink", "symlink"}]
  /\ \A p \in Procs : (shmPc[p] = "idle") = (call[p] = NoCall)
  /\ \A p, q \in Procs : life[p] # 0 /\ sock[p] # NoSock =>
       /\ sock[p] \notin orphans
       /\ p # q /\ life[q] # 0 => sock[p] # sock[q] /\ life[p] # life[q]

Alive(seg) == \E p \in Procs : life[p] = seg[1]

\* Why an id may stand for two segments: their process has issued CounterMod
\* ids between them, or one of them is what is left of a process that is gone.
Reissued(a, b) == a[1] = b[1] /\ (a[2] - b[2] >= CounterMod \/ b[2] - a[2] >= CounterMod)
Leftover(a, b) == a[1] # b[1] /\ ~(Alive(a) /\ Alive(b))

(***************************************************************************)
(* An id stands for one segment, in all processes and in the link of a     *)
(* key, unless the counter has wrapped around or a socket number has been  *)
(* taken over from a process that is gone (ashv_shmid_from_counter looks   *)
(* at neither).  So shmget returns the segment the link was made for: it   *)
(* compares neither the key it gets from the listener nor the one in its   *)
(* own table with the key it was asked for.                                *)
(***************************************************************************)
SameSegment(e, f) ==
  e.id = f.id => e.seg = f.seg \/ Reissued(e.seg, f.seg) \/ Leftover(e.seg, f.seg)

OneIdOneSegment ==
  \A p \in Procs : \A i \in DOMAIN table[p] :
    /\ \A q \in Procs : \A j \in DOMAIN table[q] : SameSegment(table[p][i], table[q][j])
    /\ \A k \in Keys : link[k] # NoLink => SameSegment(table[p][i], link[k])

(***************************************************************************)
(* A key has at most one segment in the tables of the processes that made  *)
(* one for it, unless a process removed another link than the one it had   *)
(* read, or took the link for stale because asking for the segment failed, *)
(* which shmget does not tell from a segment that is gone.                 *)
(***************************************************************************)
OneSegmentPerKey ==
  \A k \in Keys \ (raced \cup misjudged) : Cardinality(OwnSegments(k)) <= 1

(***************************************************************************)
(* A segment leaves the table of the process that made it only because the *)
(* process ends or has removed it with IPC_RMID, unless its id is negative:*)
(* then shmdt takes it for the segment of another process.                 *)
(***************************************************************************)
OwnSegmentKept ==
  [][\A p \in Procs : \A i \in DOMAIN table[p] :
       LET e == table[p][i]
       IN e.seg[1] = life[p] /\ life'[p] = life[p] /\ sock[p] < Half
            /\ e.seg \notin {f.seg : f \in Range(table'[p])}
          => e.marked \/ shmctl(p, e.id)]_shmVars

(***************************************************************************)
(* A call comes back, unless processes wait for one another's mutexes, or  *)
(* one waits for its own, or the socket asked is held by a child without a *)
(* listener; or the file system refuses to read, remove or make links      *)
(* again and again, when shmget goes round for ever with its mutex and     *)
(* whoever asks its process waits.                                         *)
(***************************************************************************)
Hangs(p) ==
  \E S \in SUBSET Procs :
    p \in S /\ \A q \in S : shmPc[q] = "ask" /\
      (ashv_socket_id_from_shmid(call[q].id) \in orphans \/ Asked(q) \cap S # {})

CallReturns ==
  \/ \A p \in Procs : shmPc[p] # "idle" ~> shmPc[p] = "idle" \/ Hangs(p)
  \/ []<><<\E p \in Procs : Refused(p)>>_shmVars

ShmFairness == \A p \in Procs : WF_shmVars(ShmGoOn(p))
===============================================================================
