------------------------------ MODULE ShmemProofs ------------------------------
(***************************************************************************)
(* Proofs about Shmem, for any processes, keys, socket numbers and ranges  *)
(* of the counter.                                                         *)
(***************************************************************************)
EXTENDS Shmem, FiniteSetTheorems, WellFoundedInduction, TLAPS

(***************************************************************************)
(* The inductive invariant.  Its first part is about types and calls.      *)
(***************************************************************************)
Entries == [id : Int, seg : Nat \X Nat, key : Keys \cup {Private},
            mapped : BOOLEAN, marked : BOOLEAN]
Links   == [id : Int, seg : Nat \X Nat]
Calls   == [op : {"none", "get", "at"}, key : Keys \cup {Private}, id : Int,
            seen : Links, new : Links]

\* A process that has begun a call exists, and an id is issued once for it.
InCall(p) ==
  /\ life[p] = 0 => shmPc[p] = "idle" /\ table[p] = <<>>
  /\ shmPc[p] \in {"readlink", "unlink", "symlink"} => call[p].op = "get"
  /\ call[p].op = "get" => call[p].key \in Keys /\ sock[p] # NoSock
  /\ shmPc[p] = "ask" /\ call[p].op = "get" => call[p].id = call[p].seen.id
  /\ issued[p] + (IF call[p].op = "get" /\ call[p].new = NoLink THEN 1 ELSE 0) <= calls

ShmTypes ==
  /\ ShmTypeOK
  /\ table \in [Procs -> Seq(Entries)]
  /\ link \in [Keys -> Links]
  /\ call \in [Procs -> Calls]
  /\ calls \in 0..MaxCalls /\ raced \subseteq Keys /\ misjudged \subseteq Keys
  /\ \A p \in Procs : life[p] <= started /\ InCall(p)
  /\ \A p, q \in Procs : p # q /\ life[p] # 0 => life[p] # life[q]

\* The second part is about the pairs of an id and its segment that the system
\* holds: in tables, in links and in what was read of links, and those of a call
\* that is still to make a link.
Pair(e)  == [id |-> e.id, seg |-> e.seg]
InTables == UNION {{Pair(table[p][i]) : i \in DOMAIN table[p]} : p \in Procs}
Shown    == InTables \cup (({link[k] : k \in Keys} \cup {call[p].seen : p \in Procs}) \ {NoLink})
Pairs    == Shown \cup ({call[p].new : p \in Procs} \ {NoLink})

\* The counter d ids ago.
Back(n, d) == IF n >= d THEN n - d ELSE n - d + CounterMod

\* A living process has made the pair when its counter was at c.
MadeBy(p, x) ==
  /\ sock[p] # NoSock /\ x.seg[2] \in 1..issued[p]
  /\ \E c \in 0..(CounterMod - 1) :
       /\ x.id = ashv_shmid_from_counter(sock[p], c)
       /\ issued[p] - x.seg[2] < CounterMod => c = Back(counter[p], issued[p] - x.seg[2])

Made(x) ==
  /\ x.seg[1] \in 1..started
  /\ \A p \in Procs : life[p] = x.seg[1] => MadeBy(p, x)

Distinct(x, y) == SameSegment(x, y) /\ (x.seg = y.seg => x.id = y.id)

PairsOK == \A x \in Pairs : Made(x) /\ \A y \in Pairs : Distinct(x, y)

\* An id that is not linked yet is not known to anyone else.
NewOK ==
  \A p \in Procs : call[p].new # NoLink =>
    call[p].new.seg[1] = life[p] /\ \A x \in Shown : x.seg # call[p].new.seg

\* The third part is about links: they are those of the segments in the tables
\* of the processes that made them, and the one that a process is about to
\* remove is not, unless the process has misjudged it.
Own(p, i) == table[p][i].seg[1] = life[p] /\ table[p][i].id > 0

KeyOK ==
  \A p \in Procs : \A i \in DOMAIN table[p] :
    Own(p, i) /\ table[p][i].key \in Keys \ (raced \cup misjudged)
      => link[table[p][i].key].seg = table[p][i].seg

UnlinkOK ==
  \A p \in Procs : shmPc[p] = "unlink" /\ call[p].key \notin misjudged =>
    \A q \in Procs : \A i \in DOMAIN table[q] :
      Own(q, i) /\ table[q][i].key = call[p].key => table[q][i].seg # call[p].seen.seg

-----------------------------------------------------------------------------
(***************************************************************************)
(* Sequences and numbers.                                                  *)
(***************************************************************************)
LEMMA HasLeast ==
  ASSUME NEW T \in SUBSET Nat, T # {}
  PROVE  \E x \in T : \A y \in T : ~(y < x)
<1>1. \E x \in T : \A y \in T : ~(<<y, x>> \in OpToRel(<, Nat))
  BY NatLessThanWellFounded, WFMin
<1>2. \A x, y \in Nat : y < x => <<y, x>> \in OpToRel(<, Nat)
  BY DEF OpToRel
<1> QED BY <1>1, <1>2

LEMMA ConcatIs ==
  ASSUME NEW S, NEW a \in Seq(S), NEW b \in Seq(S)
  PROVE  /\ a \o b \in Seq(S) /\ Len(a) \in Nat /\ Len(b) \in Nat
         /\ DOMAIN (a \o b) = 1..(Len(a) + Len(b))
         /\ \A j \in 1..Len(a) : (a \o b)[j] = a[j]
         /\ \A j \in 1..Len(b) : (a \o b)[Len(a) + j] = b[j]
OBVIOUS

\* What is left of a sequence without one of its elements.
LEMMA RemoveIs ==
  ASSUME NEW S, NEW s \in Seq(S), NEW i \in DOMAIN s
  PROVE  /\ RemoveAt(s, i) \in Seq(S)
         /\ \A j \in DOMAIN RemoveAt(s, i) : \E k \in DOMAIN s : k # i /\ RemoveAt(s, i)[j] = s[k]
         /\ \A k \in DOMAIN s : k # i => \E j \in DOMAIN RemoveAt(s, i) : RemoveAt(s, i)[j] = s[k]
<1> DEFINE n == Len(s)
           u == SubSeq(s, 1, i - 1)
           v == SubSeq(s, i + 1, n)
           t == u \o v
<1>1. n \in Nat /\ i \in 1..n /\ DOMAIN s = 1..n
  OBVIOUS
<1>2. u \in Seq(S) /\ Len(u) = i - 1 /\ \A j \in 1..(i - 1) : u[j] = s[j]
  BY <1>1
<1>3. v \in Seq(S) /\ Len(v) = n - i /\ \A j \in 1..(n - i) : v[j] = s[i + j]
  BY <1>1
<1> HIDE DEF u, v
<1>4. /\ t \in Seq(S) /\ DOMAIN t = 1..(Len(u) + Len(v))
      /\ \A j \in 1..Len(u) : t[j] = u[j]
      /\ \A j \in 1..Len(v) : t[Len(u) + j] = v[j]
  <2>1. u \in Seq(S) /\ v \in Seq(S)
    BY <1>2, <1>3
  <2> QED BY <2>1, ConcatIs
<1>5. DOMAIN t = 1..(n - 1)
  BY <1>1, <1>2, <1>3, <1>4
<1> HIDE DEF t, n
<1>6. ASSUME NEW j \in 1..(n - 1) PROVE t[j] = IF j < i THEN s[j] ELSE s[j + 1]
  <2>1. CASE j < i
    <3>1. j \in 1..(i - 1) /\ j \in 1..Len(u)
      BY <1>1, <1>2, <2>1
    <3>2. t[j] = u[j]
      BY <1>4, <3>1
    <3>3. u[j] = s[j]
      BY <1>2, <3>1
    <3> QED BY <2>1, <3>2, <3>3
  <2>2. CASE ~(j < i)
    <3> DEFINE m == j - (i - 1)
    <3>1. m \in 1..(n - i) /\ (i - 1) + m = j /\ i + m = j + 1
      BY <1>1, <2>2
    <3> HIDE DEF m
    <3>2. t[(i - 1) + m] = v[m]
      BY <1>2, <1>3, <1>4, <3>1
    <3>3. v[m] = s[i + m]
      BY <1>3, <3>1
    <3> QED BY <2>2, <3>1, <3>2, <3>3
  <2> QED BY <2>1, <2>2
<1>7. ASSUME NEW j \in DOMAIN t PROVE \E k \in DOMAIN s : k # i /\ t[j] = s[k]
  <2>1. j \in 1..(n - 1) /\ j \in DOMAIN s /\ j + 1 \in DOMAIN s
    BY <1>1, <1>5
  <2>2. CASE j < i
    BY <1>6, <2>1, <2>2
  <2>3. CASE ~(j < i)
    <3>1. j + 1 # i /\ t[j] = s[j + 1]
      BY <1>1, <1>6, <2>1, <2>3
    <3> QED BY <2>1, <3>1
  <2> QED BY <2>2, <2>3
<1>8. ASSUME NEW k \in DOMAIN s, k # i PROVE \E j \in DOMAIN t : t[j] = s[k]
  <2>1. CASE k < i
    <3>1. k \in 1..(n - 1) /\ t[k] = s[k]
      BY <1>1, <1>6, <2>1
    <3> QED BY <1>5, <3>1
  <2>2. CASE ~(k < i)
    <3>1. k - 1 \in 1..(n - 1) /\ ~(k - 1 < i) /\ (k - 1) + 1 = k
      BY <1>1, <1>8, <2>2
    <3> QED BY <1>5, <1>6, <3>1
  <2> QED BY <2>1, <2>2
<1> QED BY <1>4, <1>7, <1>8 DEF RemoveAt, t, u, v, n

\* ashv_find_local_index finds an entry with the id if there is one.
LEMMA FindIs ==
  ASSUME NEW p \in Procs, NEW S, table[p] \in Seq(S), NEW id
  PROVE  LET i == ashv_find_local_index(p, id)
         IN  IF \E j \in DOMAIN table[p] : table[p][j].id = id
             THEN i \in DOMAIN table[p] /\ table[p][i].id = id /\ i # 0
             ELSE i = 0
<1>1. CASE \E j \in DOMAIN table[p] : table[p][j].id = id
  <2> DEFINE T == {j \in DOMAIN table[p] : table[p][j].id = id}
             n == Len(table[p])
  <2>1. n \in Nat /\ DOMAIN table[p] = 1..n
    OBVIOUS
  <2>2. PICK x \in T : \A y \in T : ~(y < x)
    <3>1. T \in SUBSET Nat /\ T # {}
      BY <1>1, <2>1
    <3> HIDE DEF T
    <3> QED BY <3>1, HasLeast
  <2>3. x \in DOMAIN table[p] /\ table[p][x].id = id /\ \A j \in 1..(x - 1) : table[p][j].id # id
    <3>1. \A j \in 1..(x - 1) : j \in DOMAIN table[p] /\ j < x
      BY <2>1
    <3> QED BY <2>2, <3>1
  <2>4. LET i == ashv_find_local_index(p, id) IN i \in DOMAIN table[p] /\ table[p][i].id = id
    BY <1>1, <2>3 DEF ashv_find_local_index
  <2> QED BY <1>1, <2>1, <2>4
<1>2. CASE ~ \E j \in DOMAIN table[p] : table[p][j].id = id
  BY <1>2 DEF ashv_find_local_index
<1> QED BY <1>1, <1>2

\* The bits of ids.
Signed(s) == IF s < Half THEN s ELSE s - 2 * Half

LEMMA Parts ==
  ASSUME NEW a \in Int, NEW b \in Int, NEW c \in 0..(CounterMod - 1), NEW d \in 0..(CounterMod - 1),
         a * Base + c = b * Base + d
  PROVE  a = b /\ c = d
<1>0. Base \in Nat /\ CounterMod \in Nat /\ CounterMod <= Base
  BY ShmemAssumption
<1>1. ASSUME NEW x \in Int, NEW y \in Int, x < y PROVE y * Base >= x * Base + Base
  <2> DEFINE e == y - x - 1
  <2>1. e \in Nat /\ y = x + 1 + e
    BY <1>1
  <2> HIDE DEF e
  <2>2. e * Base >= 0
    BY <1>0, <2>1
  <2>3. y * Base = x * Base + Base + e * Base
    BY <1>0, <2>1
  <2>4. x * Base \in Int /\ y * Base \in Int /\ e * Base \in Int
    BY <1>0, <2>1
  <2> QED BY <1>0, <2>2, <2>3, <2>4
<1>2. a * Base \in Int /\ b * Base \in Int
  BY <1>0
<1>3. ~(a < b)
  BY <1>0, <1>1, <1>2
<1>4. ~(b < a)
  BY <1>0, <1>1, <1>2
<1>5. a = b
  BY <1>3, <1>4
<1> QED BY <1>2, <1>5

LEMMA IdParts ==
  ASSUME NEW s \in SockIds, NEW t \in SockIds,
         NEW c \in 0..(CounterMod - 1), NEW d \in 0..(CounterMod - 1),
         ashv_shmid_from_counter(s, c) = ashv_shmid_from_counter(t, d)
  PROVE  s = t /\ c = d
<1>1. s \in 0..(2 * Half - 1) /\ t \in 0..(2 * Half - 1) /\ Half \in Nat
  BY ShmemAssumption
<1>2. Signed(s) \in Int /\ Signed(t) \in Int
  BY <1>1 DEF Signed
<1>3. Signed(s) * Base + c = Signed(t) * Base + d
  BY DEF ashv_shmid_from_counter, Signed
<1>4. Signed(s) = Signed(t) /\ c = d
  BY <1>2, <1>3, Parts
<1> QED BY <1>1, <1>4 DEF Signed

LEMMA IdIs ==
  ASSUME NEW s \in SockIds, NEW c \in 0..(CounterMod - 1)
  PROVE  LET id == ashv_shmid_from_counter(s, c)
         IN  /\ id \in Int /\ (s < Half <=> id >= 0)
             /\ s < Half => ashv_socket_id_from_shmid(id) = s
<1> DEFINE x == Signed(s)
           id == x * Base + c
<1>0. /\ Base \in Nat /\ CounterMod \in Nat /\ CounterMod > 0 /\ CounterMod <= Base /\ c \in Nat /\ c < Base
      /\ s \in 0..(2 * Half - 1) /\ Half \in Nat
  BY ShmemAssumption
<1>1. ashv_shmid_from_counter(s, c) = id
  BY DEF ashv_shmid_from_counter, Signed
<1>2. x \in Int /\ (s < Half => x = s) /\ (~(s < Half) => x <= -1)
  BY <1>0 DEF Signed
<1> HIDE DEF x
<1>3. x * Base \in Int /\ (x <= -1 => x * Base <= -Base) /\ (x >= 0 => x * Base >= 0)
  BY <1>0, <1>2
<1>4. id \in Int
  BY <1>0, <1>3
<1>5. s < Half <=> id >= 0
  BY <1>0, <1>2, <1>3
<1>6. ASSUME s < Half PROVE ashv_socket_id_from_shmid(id) = s
  <2>1. id >= 0 /\ x = s
    BY <1>2, <1>5, <1>6
  <2>2. (s * Base + c) \div Base = s
    BY <1>0
  <2> QED BY <2>1, <2>2 DEF ashv_socket_id_from_shmid
<1> QED BY <1>1, <1>4, <1>5, <1>6

-----------------------------------------------------------------------------
(***************************************************************************)
(* Types and calls.                                                        *)
(***************************************************************************)
LEMMA NoCallType == /\ NoLink \in Links /\ NoCall \in Calls
                    /\ \A k \in Keys : [NoCall EXCEPT !.op = "get", !.key = k] \in Calls
                    /\ \A id \in Int : [NoCall EXCEPT !.op = "at", !.id = id] \in Calls
<1>1. NoLink \in Links
  BY DEF NoLink, NoSeg, Links
<1>2. NoCall \in Calls
  BY <1>1 DEF NoCall, Calls
<1>3. \A k \in Keys : [NoCall EXCEPT !.op = "get", !.key = k] \in Calls
  BY <1>2 DEF Calls
<1>4. \A id \in Int : [NoCall EXCEPT !.op = "at", !.id = id] \in Calls
  BY <1>2 DEF Calls
<1> QED BY <1>1, <1>2, <1>3, <1>4

LEMMA ShmTypesInit == ShmInit => ShmTypes
<1> SUFFICES ASSUME ShmInit PROVE ShmTypes
  OBVIOUS
<1>1. <<>> \in Seq(Entries)
  OBVIOUS
<1>2. ShmTypeOK
  BY ShmemAssumption DEF ShmInit, ShmTypeOK, NoSock
<1>3. \A p \in Procs : life[p] <= started /\ InCall(p)
  BY ShmemAssumption DEF ShmInit, InCall, NoCall
<1>4. /\ table \in [Procs -> Seq(Entries)] /\ link \in [Keys -> Links] /\ call \in [Procs -> Calls]
      /\ calls \in 0..MaxCalls /\ raced \subseteq Keys /\ misjudged \subseteq Keys
  <2>1. table \in [Procs -> Seq(Entries)]
    BY <1>1 DEF ShmInit
  <2>2. link \in [Keys -> Links] /\ call \in [Procs -> Calls]
    BY NoCallType DEF ShmInit
  <2> QED BY <2>1, <2>2, ShmemAssumption DEF ShmInit
<1>5. \A p \in Procs : life[p] = 0
  BY DEF ShmInit
<1> QED BY <1>2, <1>3, <1>4, <1>5 DEF ShmTypes

\* The processes of ShmTypeOK.
Apart ==
  \A p, q \in Procs : life[p] # 0 /\ sock[p] # NoSock =>
    /\ sock[p] \notin orphans
    /\ p # q /\ life[q] # 0 => sock[p] # sock[q] /\ life[p] # life[q]

\* Of the types, all that a call changes.
CallTypes ==
  /\ counter \in [Procs -> 0..(CounterMod - 1)] /\ issued \in [Procs -> 0..MaxCalls]
  /\ shmPc \in [Procs -> {"idle", "readlink", "ask", "unlink", "symlink"}]
  /\ \A p \in Procs : (shmPc[p] = "idle") = (call[p] = NoCall)
  /\ table \in [Procs -> Seq(Entries)]
  /\ link \in [Keys -> Links]
  /\ call \in [Procs -> Calls]
  /\ calls \in 0..MaxCalls /\ raced \subseteq Keys /\ misjudged \subseteq Keys
  /\ \A p \in Procs : InCall(p)

LifeTypes ==
  /\ \A p \in Procs : life[p] <= started
  /\ \A p, q \in Procs : p # q /\ life[p] # 0 => life[p] # life[q]
  /\ started \in 0..MaxProcs /\ life \in [Procs -> 0..MaxProcs]
  /\ sock \in [Procs -> {NoSock} \cup SockIds] /\ orphans \subseteq SockIds
  /\ Apart

LEMMA TypesParts == ShmTypes => CallTypes /\ LifeTypes
BY DEF ShmTypes, ShmTypeOK, CallTypes, LifeTypes, Apart

LEMMA PartsTypes == (CallTypes /\ LifeTypes)' => ShmTypes'
BY DEF ShmTypes, ShmTypeOK, CallTypes, LifeTypes, Apart

\* A process gets a socket number that is free.
LEMMA BindLife ==
  ASSUME LifeTypes, NEW p \in Procs, life[p] # 0, Bind(p), UNCHANGED <<started, life, orphans>>
  PROVE  /\ LifeTypes' /\ sock'[p] \in SockIds /\ sock'[p] # NoSock
         /\ \A q \in Procs \ {p} : sock'[q] = sock[q]
         /\ sock[p] # NoSock => sock'[p] = sock[p]
<1>0. /\ sock \in [Procs -> {NoSock} \cup SockIds] /\ NoSock \notin SockIds
      /\ life \in [Procs -> 0..MaxProcs] /\ orphans \subseteq SockIds /\ started \in 0..MaxProcs
  BY ShmemAssumption DEF LifeTypes, NoSock
<1>1. CASE sock[p] # NoSock
  BY <1>0, <1>1 DEF Bind, LifeTypes, Apart
<1>2. CASE sock[p] = NoSock
  <2>1. PICK s \in SockIds \ Bound : sock' = [sock EXCEPT ![p] = s]
    BY <1>2 DEF Bind
  <2>2. s \notin orphans /\ \A q \in Procs : life[q] # 0 => sock[q] # s
    BY <2>1 DEF Bound
  <2>3. /\ sock'[p] = s /\ \A q \in Procs \ {p} : sock'[q] = sock[q]
        /\ sock' \in [Procs -> {NoSock} \cup SockIds]
    BY <1>0, <2>1
  <2>4. Apart'
    <3> SUFFICES ASSUME NEW q \in Procs, NEW r \in Procs, life[q] # 0, sock'[q] # NoSock
                 PROVE  /\ sock'[q] \notin orphans
                        /\ q # r /\ life[r] # 0 => sock'[q] # sock'[r] /\ life[q] # life[r]
      BY DEF Apart
    <3> QED BY <2>2, <2>3 DEF LifeTypes, Apart
  <2> QED BY <1>0, <1>2, <2>1, <2>3, <2>4 DEF LifeTypes
<1> QED BY <1>1, <1>2

\* A step of one process: what is left to show is about that process.
LEMMA OneCall ==
  ASSUME CallTypes, NEW p \in Procs,
         counter' \in [Procs -> 0..(CounterMod - 1)], issued' \in [Procs -> Nat],
         NEW pc \in {"idle", "readlink", "ask", "unlink", "symlink"}, NEW c \in Calls,
         shmPc' = [shmPc EXCEPT ![p] = pc], call' = [call EXCEPT ![p] = c],
         (pc = "idle") = (c = NoCall),
         table' \in [Procs -> Seq(Entries)], link' \in [Keys -> Links],
         calls' \in 0..MaxCalls, calls <= calls', raced' \subseteq Keys, misjudged' \subseteq Keys,
         \A q \in Procs \ {p} :
           UNCHANGED <<life[q], sock[q], issued[q], table[q]>>,
         InCall(p)'
  PROVE  CallTypes'
<1>0. /\ shmPc \in [Procs -> {"idle", "readlink", "ask", "unlink", "symlink"}]
      /\ call \in [Procs -> Calls] /\ issued \in [Procs -> Nat] /\ calls \in Nat /\ MaxCalls \in Nat
  BY ShmemAssumption DEF CallTypes
<1>1. \A q \in Procs \ {p} : UNCHANGED <<shmPc[q], call[q]>>
  BY <1>0
<1>2. shmPc'[p] = pc /\ call'[p] = c
  BY <1>0
<1>3. ASSUME NEW q \in Procs PROVE InCall(q)'
  <2>1. CASE q = p
    BY <2>1
  <2>2. CASE q # p
    <3>1. UNCHANGED <<life[q], sock[q], issued[q], table[q], shmPc[q], call[q]>>
      BY <1>1, <2>2
    <3>2. issued[q] \in Nat /\ calls' \in Nat
      BY <1>0
    <3>3. InCall(q)
      BY DEF CallTypes
    <3> QED BY <1>0, <3>1, <3>2, <3>3 DEF InCall
  <2> QED BY <2>1, <2>2
<1>4. ASSUME NEW q \in Procs PROVE issued'[q] \in 0..MaxCalls
  <2>1. issued'[q] \in Nat /\ calls' \in Nat /\ calls' <= MaxCalls
    BY <1>0
  <2>2. issued'[q] + (IF call'[q].op = "get" /\ call'[q].new = NoLink THEN 1 ELSE 0) <= calls'
    BY <1>3 DEF InCall
  <2> QED BY <1>0, <2>1, <2>2
<1>5. ASSUME NEW q \in Procs PROVE (shmPc'[q] = "idle") = (call'[q] = NoCall)
  <2>1. CASE q = p
    BY <1>2, <2>1
  <2>2. CASE q # p
    <3>1. (shmPc[q] = "idle") = (call[q] = NoCall)
      BY DEF CallTypes
    <3> QED BY <1>1, <2>2, <3>1
  <2> QED BY <2>1, <2>2
<1>6. issued' \in [Procs -> 0..MaxCalls]
  BY <1>4
<1>7. shmPc' \in [Procs -> {"idle", "readlink", "ask", "unlink", "symlink"}] /\ call' \in [Procs -> Calls]
  BY <1>0
<1> QED BY <1>3, <1>5, <1>6, <1>7 DEF CallTypes

LEMMA LifeSame == LifeTypes /\ UNCHANGED <<started, life, sock, orphans>> => LifeTypes'
BY DEF LifeTypes, Apart

\* What Create leaves in the tables.
LEMMA CreateType ==
  ASSUME CallTypes, NEW p \in Procs, NEW id \in Int, NEW seg \in Nat \X Nat,
         NEW key \in Keys \cup {Private}, Create(p, id, seg, key)
  PROVE  /\ table' \in [Procs -> Seq(Entries)]
         /\ \A q \in Procs \ {p} : table'[q] = table[q]
         /\ table'[p] = table[p] \/ table'[p] = Append(table[p], Entry(id, seg, key, FALSE))
         /\ Entry(id, seg, key, FALSE) \in Entries
<1>1. Entry(id, seg, key, FALSE) \in Entries
  BY DEF Entry, Entries
<1>2. table \in [Procs -> Seq(Entries)]
  BY DEF CallTypes
<1>3. Append(table[p], Entry(id, seg, key, FALSE)) \in Seq(Entries)
  <2>1. table[p] \in Seq(Entries)
    BY <1>2
  <2>2. \A e \in Entries : Append(table[p], e) \in Seq(Entries)
    BY <2>1
  <2> QED BY <1>1, <2>2
<1> QED BY <1>1, <1>2, <1>3 DEF Create

LEMMA IssueType ==
  ASSUME CallTypes, NEW p \in Procs, Issue(p)
  PROVE  /\ counter' \in [Procs -> 0..(CounterMod - 1)] /\ issued' \in [Procs -> Nat]
         /\ \A q \in Procs \ {p} : UNCHANGED <<counter[q], issued[q]>>
         /\ issued'[p] = issued[p] + 1 /\ issued[p] \in Nat
         /\ counter'[p] = NextCounter(p)
         /\ NextCounter(p) \in 0..(CounterMod - 1)
         /\ NextCounter(p) = IF counter[p] = CounterMod - 1 THEN 0 ELSE counter[p] + 1
<1>1. /\ counter \in [Procs -> 0..(CounterMod - 1)] /\ issued \in [Procs -> Nat]
      /\ CounterMod \in Nat /\ CounterMod > 0
  BY ShmemAssumption DEF CallTypes
<1>2. NextCounter(p) = IF counter[p] = CounterMod - 1 THEN 0 ELSE counter[p] + 1
  <2>1. counter[p] \in 0..(CounterMod - 1)
    BY <1>1
  <2>2. \A x \in 0..(CounterMod - 1) : (x + 1) % CounterMod = IF x = CounterMod - 1 THEN 0 ELSE x + 1
    BY <1>1
  <2> QED BY <2>1, <2>2 DEF NextCounter
<1>3. NextCounter(p) \in 0..(CounterMod - 1)
  BY <1>1, <1>2
<1> QED BY <1>1, <1>2, <1>3 DEF Issue

LEMMA BeginTypes ==
  ASSUME ShmTypes, NEW p \in Procs, Begin(p)
  PROVE  /\ life[p] # 0 /\ calls' = calls + 1 /\ calls' \in 0..MaxCalls /\ calls <= calls'
         /\ shmPc[p] = "idle" /\ call[p] = NoCall /\ issued[p] <= calls
<1>1. call[p] = NoCall /\ issued[p] + (IF call[p].op = "get" /\ call[p].new = NoLink THEN 1 ELSE 0) <= calls
  BY DEF Begin, ShmTypes, ShmTypeOK, InCall
<1>2. NoCall.op = "none"
  BY DEF NoCall
<1>3. issued[p] \in Nat
  BY ShmemAssumption DEF ShmTypes, ShmTypeOK
<1>4. issued[p] <= calls
  BY <1>1, <1>2, <1>3
<1> QED BY <1>1, <1>4, ShmemAssumption DEF Begin, ShmTypes

LEMMA IdType ==
  ASSUME NEW s \in SockIds, NEW c \in 0..(CounterMod - 1)
  PROVE  ashv_shmid_from_counter(s, c) \in Int
BY IdIs

LEMMA PrivateTypes ==
  ASSUME ShmTypes, NEW p \in Procs, shmgetPrivate(p)
  PROVE  ShmTypes'
<1> DEFINE id == ashv_shmid_from_counter(sock'[p], NextCounter(p))
<1>1. /\ Begin(p) /\ Bind(p) /\ Issue(p) /\ Create(p, id, Segment(p), Private)
      /\ UNCHANGED <<life, started, orphans, link, shmPc, call, raced, misjudged>>
  BY DEF shmgetPrivate
<1>2. CallTypes /\ LifeTypes
  BY TypesParts
<1>3. /\ life[p] # 0 /\ calls' = calls + 1 /\ calls' \in 0..MaxCalls /\ calls <= calls'
      /\ shmPc[p] = "idle" /\ call[p] = NoCall /\ issued[p] <= calls
  BY <1>1, BeginTypes
<1>4. LifeTypes' /\ sock'[p] \in SockIds /\ \A q \in Procs \ {p} : sock'[q] = sock[q]
  BY <1>1, <1>2, <1>3, BindLife
<1>5. /\ counter' \in [Procs -> 0..(CounterMod - 1)] /\ issued' \in [Procs -> Nat]
      /\ \A q \in Procs \ {p} : UNCHANGED <<counter[q], issued[q]>>
      /\ issued'[p] = issued[p] + 1 /\ issued[p] \in Nat /\ NextCounter(p) \in 0..(CounterMod - 1)
  BY <1>1, <1>2, IssueType
<1>6. id \in Int /\ Segment(p) \in Nat \X Nat
  <2>1. life[p] \in Nat
    BY <1>2, ShmemAssumption DEF LifeTypes
  <2> QED BY <1>4, <1>5, <2>1, IdType DEF Segment
<1> HIDE DEF id
<1>7. table' \in [Procs -> Seq(Entries)] /\ \A q \in Procs \ {p} : table'[q] = table[q]
  BY <1>1, <1>2, <1>6, CreateType
<1>8. /\ shmPc' = [shmPc EXCEPT ![p] = "idle"] /\ call' = [call EXCEPT ![p] = NoCall]
      /\ link' \in [Keys -> Links] /\ raced' \subseteq Keys /\ misjudged' \subseteq Keys
  BY <1>1, <1>2, <1>3 DEF CallTypes
<1>9. InCall(p)'
  <2>1. NoCall.op = "none" /\ life'[p] # 0 /\ shmPc'[p] = "idle" /\ call'[p] = NoCall
    BY <1>1, <1>3 DEF NoCall
  <2>2. issued'[p] <= calls' /\ issued'[p] \in Nat
    BY <1>2, <1>3, <1>5 DEF CallTypes
  <2> QED BY <2>1, <2>2 DEF InCall
<1>10. CallTypes'
  BY <1>1, <1>2, <1>3, <1>4, <1>5, <1>7, <1>8, <1>9, OneCall, NoCallType
<1> QED BY <1>4, <1>10, PartsTypes

LEMMA GetTypes ==
  ASSUME ShmTypes, NEW p \in Procs, NEW k \in Keys, shmget(p, k)
  PROVE  ShmTypes'
<1> DEFINE c == [NoCall EXCEPT !.op = "get", !.key = k]
<1>1. /\ Begin(p) /\ Bind(p)
      /\ shmPc' = [shmPc EXCEPT ![p] = "readlink"] /\ call' = [call EXCEPT ![p] = c]
      /\ UNCHANGED <<life, started, orphans, counter, issued, table, link, raced, misjudged>>
  BY DEF shmget
<1>2. CallTypes /\ LifeTypes
  BY TypesParts
<1>3. /\ life[p] # 0 /\ calls' = calls + 1 /\ calls' \in 0..MaxCalls /\ calls <= calls'
      /\ shmPc[p] = "idle" /\ call[p] = NoCall /\ issued[p] <= calls
  BY <1>1, BeginTypes
<1>4. LifeTypes' /\ sock'[p] # NoSock /\ \A q \in Procs \ {p} : sock'[q] = sock[q]
  BY <1>1, <1>2, <1>3, BindLife
<1>5. c \in Calls /\ c # NoCall /\ c.op = "get" /\ c.key = k /\ c.new = NoLink
  BY NoCallType DEF NoCall
<1> HIDE DEF c
<1>6. counter' \in [Procs -> 0..(CounterMod - 1)] /\ issued' \in [Procs -> Nat] /\ issued[p] \in Nat
      /\ table' \in [Procs -> Seq(Entries)] /\ link' \in [Keys -> Links]
      /\ raced' \subseteq Keys /\ misjudged' \subseteq Keys
  BY <1>1, <1>2 DEF CallTypes
<1>7. InCall(p)'
  <2>1. life'[p] # 0 /\ shmPc'[p] = "readlink" /\ call'[p] = c
    BY <1>1, <1>2, <1>3 DEF CallTypes
  <2>2. issued'[p] + 1 <= calls'
    BY <1>1, <1>2, <1>3, <1>6 DEF CallTypes
  <2> QED BY <1>4, <1>5, <2>1, <2>2 DEF InCall
<1>8. CallTypes'
  <2>1. \A q \in Procs \ {p} : UNCHANGED <<life[q], sock[q], issued[q], table[q]>>
    BY <1>1, <1>4
  <2>2. ("readlink" = "idle") = (c = NoCall)
    BY <1>5
  <2> QED BY <1>1, <1>2, <1>3, <1>5, <1>6, <1>7, <2>1, <2>2, OneCall
<1> QED BY <1>4, <1>8, PartsTypes

\* A step that goes on with a call, or ends it.
LEMMA GoOnTypes ==
  ASSUME ShmTypes, NEW p \in Procs, life[p] # 0,
         UNCHANGED <<life, started, sock, orphans, calls>>,
         counter' \in [Procs -> 0..(CounterMod - 1)], issued' \in [Procs -> Nat],
         \A q \in Procs \ {p} : issued'[q] = issued[q] /\ table'[q] = table[q],
         table' \in [Procs -> Seq(Entries)], link' \in [Keys -> Links],
         raced' \subseteq Keys, misjudged' \subseteq Keys,
         NEW pc \in {"idle", "readlink", "ask", "unlink", "symlink"}, NEW c \in Calls,
         shmPc' = [shmPc EXCEPT ![p] = pc], call' = [call EXCEPT ![p] = c],
         (pc = "idle") = (c = NoCall),
         pc \in {"readlink", "unlink", "symlink"} => c.op = "get",
         c.op = "get" => c.key \in Keys /\ sock[p] # NoSock,
         pc = "ask" /\ c.op = "get" => c.id = c.seen.id,
         issued'[p] + (IF c.op = "get" /\ c.new = NoLink THEN 1 ELSE 0) <= calls
  PROVE  ShmTypes'
<1>1. CallTypes /\ LifeTypes /\ LifeTypes'
  BY TypesParts, LifeSame
<1>2. shmPc'[p] = pc /\ call'[p] = c
  BY <1>1 DEF CallTypes
<1>3. InCall(p)'
  BY <1>2 DEF InCall
<1>4. calls' \in 0..MaxCalls /\ calls <= calls'
  BY <1>1, ShmemAssumption DEF CallTypes
<1>5. \A q \in Procs \ {p} : UNCHANGED <<life[q], sock[q], issued[q], table[q]>>
  OBVIOUS
<1>6. CallTypes'
  BY <1>1, <1>3, <1>4, <1>5, OneCall
<1> QED BY <1>1, <1>6, PartsTypes

LEMMA AskTypes ==
  ASSUME ShmTypes, NEW p \in Procs,
         \/ ReadLink(p) \/ AskFound(p) \/ AskFails(p) \/ AskBreaks(p) \/ Unlink(p)
         \/ ReadLinkFails(p) \/ UnlinkFails(p)
  PROVE  ShmTypes'
<1>0. CallTypes /\ LifeTypes
  BY TypesParts
<1>1. /\ counter \in [Procs -> 0..(CounterMod - 1)] /\ issued \in [Procs -> Nat]
      /\ table \in [Procs -> Seq(Entries)] /\ link \in [Keys -> Links]
      /\ raced \subseteq Keys /\ misjudged \subseteq Keys
      /\ call \in [Procs -> Calls] /\ call[p] \in Calls /\ issued[p] \in Nat
      /\ (shmPc[p] = "idle") = (call[p] = NoCall) /\ NoCall.op = "none"
  BY <1>0, ShmemAssumption DEF CallTypes, NoCall
<1>2. InCall(p)
  BY <1>0 DEF CallTypes
<1>3. shmPc[p] # "idle" => life[p] # 0
  BY <1>2 DEF InCall
<1>4. issued[p] <= calls
  BY <1>0, <1>1, <1>2 DEF InCall, CallTypes
\* A call that comes back.
<1>5. ASSUME Return(p), shmPc[p] # "idle", table' \in [Procs -> Seq(Entries)],
             \A q \in Procs \ {p} : table'[q] = table[q],
             UNCHANGED <<life, started, sock, orphans, counter, issued, link, calls, raced, misjudged>>
      PROVE  ShmTypes'
  <2>1. shmPc' = [shmPc EXCEPT ![p] = "idle"] /\ call' = [call EXCEPT ![p] = NoCall]
    BY <1>5 DEF Return
  <2>2. issued'[p] + (IF NoCall.op = "get" /\ NoCall.new = NoLink THEN 1 ELSE 0) <= calls
    BY <1>1, <1>4, <1>5
  <2>3. ("idle" = "idle") = (NoCall = NoCall)
    OBVIOUS
  <2>4. /\ counter' \in [Procs -> 0..(CounterMod - 1)] /\ issued' \in [Procs -> Nat]
        /\ \A q \in Procs \ {p} : issued'[q] = issued[q] /\ table'[q] = table[q]
        /\ link' \in [Keys -> Links]
        /\ raced' \subseteq Keys /\ misjudged' \subseteq Keys /\ NoCall \in Calls /\ life[p] # 0
        /\ UNCHANGED <<life, started, sock, orphans, calls>>
    BY <1>1, <1>3, <1>5, NoCallType
  <2> QED BY <1>1, <1>5, <2>1, <2>2, <2>3, <2>4, GoOnTypes
\* A call that goes on with nothing but what it asks for.
<1>6. ASSUME NEW pc \in {"readlink", "ask", "unlink", "symlink"}, NEW c \in Calls, shmPc[p] # "idle",
             shmPc' = [shmPc EXCEPT ![p] = pc], call' = [call EXCEPT ![p] = c],
             c.op = call[p].op, c.key = call[p].key, c.new = call[p].new, c # NoCall,
             pc # "ask" => c.op = "get", pc = "ask" /\ c.op = "get" => c.id = c.seen.id,
             link' \in [Keys -> Links], raced' \subseteq Keys, misjudged' \subseteq Keys,
             UNCHANGED <<life, started, sock, orphans, counter, issued, table, calls>>
      PROVE  ShmTypes'
  <2>1. issued[p] + (IF c.op = "get" /\ c.new = NoLink THEN 1 ELSE 0) <= calls
    BY <1>2, <1>6 DEF InCall
  <2>2. c.op = "get" => c.key \in Keys /\ sock[p] # NoSock
    BY <1>2, <1>6 DEF InCall
  <2> QED BY <1>1, <1>3, <1>6, <2>1, <2>2, GoOnTypes
<1>7. call' = call /\ shmPc[p] # "idle" => call' = [call EXCEPT ![p] = call[p]] /\ call[p] # NoCall
  BY <1>1
<1>8. CASE ReadLink(p)
  <2> DEFINE l == link[call[p].key]
  <2>1. /\ shmPc[p] = "readlink" /\ call[p].op = "get" /\ call[p].key \in Keys
        /\ UNCHANGED <<life, started, sock, orphans, counter, issued, table, link, calls,
                       raced, misjudged>>
    BY <1>2, <1>8 DEF ReadLink, InCall
  <2>2. CASE l = NoLink
    <3>1. shmPc' = [shmPc EXCEPT ![p] = "symlink"] /\ UNCHANGED call
      BY <1>8, <2>2 DEF ReadLink
    <3> QED BY <1>1, <1>6, <1>7, <2>1, <3>1
  <2>3. CASE l # NoLink /\ Return(p)
    BY <1>1, <1>5, <2>1, <2>3
  <2>4. CASE l # NoLink /\ ~Return(p)
    <3> DEFINE c == [call[p] EXCEPT !.seen = l, !.id = l.id]
               pc == IF l.id = 0 THEN "unlink" ELSE "ask"
    <3>1. shmPc' = [shmPc EXCEPT ![p] = pc] /\ call' = [call EXCEPT ![p] = c]
      BY <1>1, <1>8, <2>4 DEF ReadLink
    <3>2. l \in Links
      BY <1>1, <2>1
    <3>3. /\ c \in Calls /\ c.op = call[p].op /\ c.key = call[p].key /\ c.new = call[p].new
          /\ c.id = c.seen.id
      <4> HIDE DEF l
      <4> QED BY <1>1, <3>2 DEF Calls, Links
    <3>5. pc \in {"unlink", "ask"}
      OBVIOUS
    <3> HIDE DEF c, l, pc
    <3>4. c # NoCall
      BY <1>1, <2>1, <3>3
    <3> QED BY <1>1, <1>6, <2>1, <3>1, <3>3, <3>4, <3>5
  <2> QED BY <2>2, <2>3, <2>4
<1>9. CASE AskFound(p)
  <2>1. /\ shmPc[p] = "ask" /\ Return(p)
        /\ UNCHANGED <<life, started, sock, orphans, counter, issued, link, calls, raced, misjudged>>
    BY <1>9 DEF AskFound
  <2>2. PICK q \in Procs : \E i \in DOMAIN table[q] :
          table' = [table EXCEPT ![p] =
                      Append(@, Entry(call[p].id, table[q][i].seg, table[q][i].key, call[p].op = "at"))]
    <3>1. PICK q \in Procs : LET i == ashv_find_local_index(q, call[p].id) IN
            /\ i # 0
            /\ table' = [table EXCEPT ![p] =
                 Append(@, Entry(call[p].id, table[q][i].seg, table[q][i].key, call[p].op = "at"))]
      BY <1>9 DEF AskFound
    <3>2. ashv_find_local_index(q, call[p].id) \in DOMAIN table[q]
      <4>1. table[q] \in Seq(Entries)
        BY <1>1
      <4> QED BY <3>1, <4>1, FindIs
    <3> QED BY <3>1, <3>2
  <2>7. PICK i \in DOMAIN table[q] :
          table' = [table EXCEPT ![p] =
                      Append(@, Entry(call[p].id, table[q][i].seg, table[q][i].key, call[p].op = "at"))]
    BY <2>2
  <2> DEFINE e == Entry(call[p].id, table[q][i].seg, table[q][i].key, call[p].op = "at")
  <2>3. e \in Entries
    <3>1. table[q][i] \in Entries
      BY <1>1
    <3>2. call[p].id \in Int /\ (call[p].op = "at") \in BOOLEAN
      BY <1>1 DEF Calls
    <3> QED BY <3>1, <3>2 DEF Entries, Entry
  <2> HIDE DEF e
  <2>4. table' = [table EXCEPT ![p] = Append(table[p], e)]
    BY <2>7 DEF e
  <2>5. Append(table[p], e) \in Seq(Entries)
    <3>1. table[p] \in Seq(Entries)
      BY <1>1
    <3> QED BY <2>3, <3>1
  <2>6. table' \in [Procs -> Seq(Entries)] /\ \A r \in Procs \ {p} : table'[r] = table[r]
    BY <1>1, <2>4, <2>5
  <2> QED BY <1>5, <2>1, <2>6
\* An answer that is none.
<1>10. ASSUME shmPc[p] = "ask", NoAnswer(p), misjudged' \subseteq Keys,
              UNCHANGED <<life, started, sock, orphans, counter, issued, table, link, calls, raced>>
       PROVE  ShmTypes'
  <2>1. CASE call[p].op = "get"
    <3>1. shmPc' = [shmPc EXCEPT ![p] = "unlink"] /\ UNCHANGED call
      BY <1>10, <2>1 DEF NoAnswer
    <3> QED BY <1>1, <1>6, <1>7, <1>10, <2>1, <3>1
  <2>2. CASE call[p].op # "get"
    <3>1. Return(p)
      BY <1>10, <2>2 DEF NoAnswer
    <3>2. /\ shmPc' = [shmPc EXCEPT ![p] = "idle"] /\ call' = [call EXCEPT ![p] = NoCall]
          /\ issued'[p] + (IF NoCall.op = "get" /\ NoCall.new = NoLink THEN 1 ELSE 0) <= calls
          /\ ("idle" = "idle") = (NoCall = NoCall)
      BY <1>1, <1>4, <1>10, <3>1 DEF Return
    <3>3. /\ counter' \in [Procs -> 0..(CounterMod - 1)] /\ issued' \in [Procs -> Nat]
          /\ table' \in [Procs -> Seq(Entries)] /\ link' \in [Keys -> Links] /\ raced' \subseteq Keys
          /\ \A q \in Procs \ {p} : issued'[q] = issued[q] /\ table'[q] = table[q]
      BY <1>1, <1>10
    <3> QED BY <1>1, <1>3, <1>10, <3>2, <3>3, NoCallType, GoOnTypes
  <2> QED BY <2>1, <2>2
<1>14. CASE AskFails(p)
  BY <1>1, <1>10, <1>14 DEF AskFails
<1>15. CASE AskBreaks(p)
  <2>1. call[p].op = "get" => call[p].key \in Keys
    BY <1>2 DEF InCall
  <2>2. misjudged' \subseteq Keys
    BY <1>1, <1>15, <2>1 DEF AskBreaks
  <2> QED BY <1>10, <1>15, <2>2 DEF AskBreaks
<1>11. CASE Unlink(p)
  <2>1. /\ shmPc[p] = "unlink" /\ call[p].op = "get" /\ call[p].key \in Keys
        /\ shmPc' = [shmPc EXCEPT ![p] = "symlink"] /\ UNCHANGED call
        /\ UNCHANGED <<life, started, sock, orphans, counter, issued, table, calls>>
    BY <1>2, <1>11 DEF Unlink, InCall
  <2>2. link' \in [Keys -> Links] /\ raced' \subseteq Keys /\ misjudged' \subseteq Keys
    BY <1>1, <1>11, <2>1, NoCallType DEF Unlink
  <2> QED BY <1>1, <1>6, <1>7, <2>1, <2>2
<1>12. CASE ReadLinkFails(p)
  <2>1. /\ shmPc[p] = "readlink" /\ call[p].op = "get"
        /\ shmPc' = [shmPc EXCEPT ![p] = "symlink"] /\ UNCHANGED call
        /\ UNCHANGED <<life, started, sock, orphans, counter, issued, table, link, calls, raced,
                       misjudged>>
    BY <1>2, <1>12 DEF ReadLinkFails, InCall
  <2> QED BY <1>1, <1>6, <1>7, <2>1
<1>13. CASE UnlinkFails(p)
  <2>1. /\ shmPc[p] = "unlink" /\ call[p].op = "get"
        /\ shmPc' = [shmPc EXCEPT ![p] = "symlink"] /\ UNCHANGED call
        /\ UNCHANGED <<life, started, sock, orphans, counter, issued, table, link, calls, raced,
                       misjudged>>
    BY <1>2, <1>13 DEF UnlinkFails, InCall
  <2> QED BY <1>1, <1>6, <1>7, <2>1
<1> QED BY <1>8, <1>9, <1>11, <1>12, <1>13, <1>14, <1>15

\* The two ways on from the making of a link.
LEMMA SymlinkWays ==
  ASSUME NEW p \in Procs, Symlink(p) \/ SymlinkFails(p)
  PROVE  /\ shmPc[p] = "symlink" /\ UNCHANGED <<life, started, sock, orphans, calls, raced, misjudged>>
         /\ call[p].new = NoLink => Issue(p)
         /\ call[p].new # NoLink => UNCHANGED <<counter, issued>>
         /\ \/ /\ LinkFree(call[p].key)
               /\ link' = [link EXCEPT ![call[p].key] = NewLink(p)]
               /\ Create(p, NewLink(p).id, NewLink(p).seg, call[p].key)
               /\ Return(p)
            \/ NotLinked(p)
BY DEF Symlink, SymlinkFails, IssueOnce

LEMMA SymlinkTypes ==
  ASSUME ShmTypes, NEW p \in Procs, Symlink(p) \/ SymlinkFails(p)
  PROVE  ShmTypes'
<1> DEFINE k == call[p].key
           new == NewLink(p)
<1>0. CallTypes /\ LifeTypes
  BY TypesParts
<1>1. /\ table \in [Procs -> Seq(Entries)] /\ link \in [Keys -> Links]
      /\ raced \subseteq Keys /\ misjudged \subseteq Keys
      /\ call[p] \in Calls /\ counter \in [Procs -> 0..(CounterMod - 1)]
      /\ issued \in [Procs -> Nat] /\ issued[p] \in Nat /\ calls \in Nat
      /\ (shmPc[p] = "idle") = (call[p] = NoCall) /\ NoCall.op = "none"
  BY <1>0, ShmemAssumption DEF CallTypes, NoCall
<1>2. shmPc[p] = "symlink" /\ UNCHANGED <<life, started, sock, orphans, calls, raced, misjudged>>
  BY SymlinkWays
<1>3. /\ life[p] # 0 /\ call[p].op = "get" /\ k \in Keys /\ sock[p] # NoSock
      /\ issued[p] + (IF call[p].new = NoLink THEN 1 ELSE 0) <= calls
  BY <1>0, <1>2 DEF CallTypes, InCall
<1>4. sock[p] \in SockIds /\ life[p] \in Nat
  BY <1>0, <1>3, ShmemAssumption DEF LifeTypes
<1>5. /\ counter' \in [Procs -> 0..(CounterMod - 1)] /\ issued' \in [Procs -> Nat]
      /\ \A q \in Procs \ {p} : issued'[q] = issued[q]
      /\ issued'[p] <= calls
  <2>1. CASE call[p].new = NoLink
    <3>1. Issue(p)
      BY <2>1, SymlinkWays
    <3> QED BY <1>0, <1>1, <1>3, <2>1, <3>1, IssueType
  <2>2. CASE call[p].new # NoLink
    <3>1. UNCHANGED <<counter, issued>>
      BY <2>2, SymlinkWays
    <3> QED BY <1>1, <1>3, <2>2, <3>1
  <2> QED BY <2>1, <2>2
<1>6. new \in Links /\ new # NoLink /\ new.id \in Int /\ new.seg \in Nat \X Nat
  <2>1. CASE call[p].new = NoLink
    <3>1. NextCounter(p) \in 0..(CounterMod - 1)
      <4>1. Issue(p)
        BY <2>1, SymlinkWays
      <4> QED BY <1>0, <4>1, IssueType
    <3> DEFINE id == ashv_shmid_from_counter(sock[p], NextCounter(p))
    <3>2. id \in Int
      BY <1>4, <3>1, IdIs
    <3> HIDE DEF id
    <3>3. Segment(p) \in Nat \X Nat /\ Segment(p)[1] # 0
      BY <1>1, <1>3, <1>4 DEF Segment
    <3>4. new = [id |-> id, seg |-> Segment(p)]
      BY <2>1 DEF NewLink, id
    <3>5. NoLink.seg[1] = 0
      BY DEF NoLink, NoSeg
    <3> QED BY <3>2, <3>3, <3>4, <3>5 DEF Links
  <2>2. CASE call[p].new # NoLink
    BY <1>1, <2>2 DEF NewLink, Calls, Links
  <2> QED BY <2>1, <2>2
<1>7. \/ /\ link' = [link EXCEPT ![k] = new]
         /\ Create(p, new.id, new.seg, k)
         /\ Return(p)
      \/ NotLinked(p)
  BY SymlinkWays
<1>10. NotLinked(p) => /\ shmPc' = [shmPc EXCEPT ![p] = LinkExists]
                       /\ call' = [call EXCEPT ![p].new = new]
                       /\ UNCHANGED <<link, table>>
  BY DEF NotLinked
<1> HIDE DEF new, k
<1>8. CASE link' = [link EXCEPT ![k] = new] /\ Create(p, new.id, new.seg, k) /\ Return(p)
  <2>1. table' \in [Procs -> Seq(Entries)] /\ \A q \in Procs \ {p} : table'[q] = table[q]
    BY <1>0, <1>3, <1>6, <1>8, CreateType
  <2>2. link' \in [Keys -> Links]
    BY <1>1, <1>3, <1>6, <1>8
  <2>3. shmPc' = [shmPc EXCEPT ![p] = "idle"] /\ call' = [call EXCEPT ![p] = NoCall]
    BY <1>8 DEF Return
  <2>4. issued'[p] + (IF NoCall.op = "get" /\ NoCall.new = NoLink THEN 1 ELSE 0) <= calls
    BY <1>1, <1>3, <1>5
  <2>5. ("idle" = "idle") = (NoCall = NoCall)
    OBVIOUS
  <2>6. NoCall \in Calls /\ raced' \subseteq Keys /\ misjudged' \subseteq Keys
    BY <1>1, <1>2, NoCallType
  <2> QED BY <1>1, <1>2, <1>3, <1>5, <2>1, <2>2, <2>3, <2>4, <2>5, <2>6, GoOnTypes
<1>9. CASE NotLinked(p)
  <2> DEFINE c == [call[p] EXCEPT !.new = new]
  <2>1. shmPc' = [shmPc EXCEPT ![p] = "readlink"] /\ call' = [call EXCEPT ![p] = c]
    BY <1>0, <1>9, <1>10 DEF LinkExists, CallTypes
  <2>2. /\ c \in Calls /\ c.op = "get" /\ c.key = call[p].key /\ c.new = new
    BY <1>1, <1>3, <1>6 DEF Calls
  <2> HIDE DEF c
  <2>3. ("readlink" = "idle") = (c = NoCall)
    BY <1>1, <2>2
  <2>4. issued'[p] + (IF c.op = "get" /\ c.new = NoLink THEN 1 ELSE 0) <= calls
    BY <1>1, <1>5, <1>6, <2>2
  <2>5. /\ table' \in [Procs -> Seq(Entries)] /\ \A q \in Procs \ {p} : table'[q] = table[q]
        /\ link' \in [Keys -> Links] /\ raced' \subseteq Keys /\ misjudged' \subseteq Keys
    BY <1>1, <1>2, <1>9, <1>10
  <2> QED BY <1>1, <1>2, <1>3, <1>5, <2>1, <2>2, <2>3, <2>4, <2>5, GoOnTypes DEF k
<1> QED BY <1>7, <1>8, <1>9

\* Changing one entry.
LEMMA SetIs ==
  ASSUME NEW s \in Seq(Entries), NEW i \in DOMAIN s, NEW e \in Entries
  PROVE  /\ [s EXCEPT ![i] = e] \in Seq(Entries)
         /\ DOMAIN [s EXCEPT ![i] = e] = DOMAIN s
         /\ \A j \in DOMAIN s : [s EXCEPT ![i] = e][j] = IF j = i THEN e ELSE s[j]
OBVIOUS

\* Does entry f come from e?
From(f, e) == f.id = e.id /\ f.seg = e.seg /\ f.key = e.key

\* What calls that work on the table leave in it.
LEMMA TableStep ==
  ASSUME ShmTypes, NEW p \in Procs,
         \/ \E id \in Int : shmat(p, id) \/ shmctl(p, id)
         \/ \E i \in DOMAIN table[p] : shmdt(p, i)
  PROVE  /\ table' \in [Procs -> Seq(Entries)]
         /\ \A q \in Procs \ {p} : table'[q] = table[q]
         /\ \A j \in DOMAIN table'[p] : \E i \in DOMAIN table[p] : From(table'[p][j], table[p][i])
<1> DEFINE s == table[p]
<1>1. table \in [Procs -> Seq(Entries)] /\ s \in Seq(Entries)
  BY DEF ShmTypes
<1>2. ASSUME NEW u \in Seq(Entries), table' = [table EXCEPT ![p] = u],
             \A j \in DOMAIN u : \E i \in DOMAIN s : From(u[j], s[i])
      PROVE  /\ table' \in [Procs -> Seq(Entries)]
             /\ \A q \in Procs \ {p} : table'[q] = table[q]
             /\ \A j \in DOMAIN table'[p] : \E i \in DOMAIN table[p] : From(table'[p][j], table[p][i])
  <2>1. table' \in [Procs -> Seq(Entries)] /\ table'[p] = u /\ \A q \in Procs \ {p} : table'[q] = table[q]
    BY <1>1, <1>2
  <2> QED BY <1>2, <2>1
<1>3. ASSUME NEW i \in DOMAIN s, NEW e \in Entries, From(e, s[i])
      PROVE  /\ [s EXCEPT ![i] = e] \in Seq(Entries)
             /\ \A j \in DOMAIN [s EXCEPT ![i] = e] : \E k \in DOMAIN s : From([s EXCEPT ![i] = e][j], s[k])
  <2> HIDE DEF s
  <2>1. \A j \in DOMAIN s : From(s[j], s[j])
    BY DEF From
  <2>2. /\ [s EXCEPT ![i] = e] \in Seq(Entries)
        /\ DOMAIN [s EXCEPT ![i] = e] = DOMAIN s
        /\ \A j \in DOMAIN s : [s EXCEPT ![i] = e][j] = IF j = i THEN e ELSE s[j]
    BY <1>1, SetIs
  <2> DEFINE u == [s EXCEPT ![i] = e]
  <2> HIDE DEF u
  <2>3. u \in Seq(Entries) /\ DOMAIN u = DOMAIN s /\ \A j \in DOMAIN s : u[j] = IF j = i THEN e ELSE s[j]
    BY <2>2 DEF u
  <2>4. \A j \in DOMAIN u : \E k \in DOMAIN s : From(u[j], s[k])
    BY <1>3, <2>1, <2>3
  <2> QED BY <2>3, <2>4 DEF u
<1>4. ASSUME NEW i \in DOMAIN s
      PROVE  /\ RemoveAt(s, i) \in Seq(Entries)
             /\ \A j \in DOMAIN RemoveAt(s, i) : \E k \in DOMAIN s : From(RemoveAt(s, i)[j], s[k])
  <2> HIDE DEF s
  <2> QED BY <1>1, RemoveIs DEF From
<1>5. ASSUME NEW i \in DOMAIN s, NEW b \in BOOLEAN
      PROVE  /\ [s[i] EXCEPT !.mapped = b] \in Entries /\ From([s[i] EXCEPT !.mapped = b], s[i])
             /\ [s[i] EXCEPT !.marked = b] \in Entries /\ From([s[i] EXCEPT !.marked = b], s[i])
  <2>1. s[i] \in Entries
    BY <1>1
  <2> QED BY <2>1 DEF Entries, From
<1>6. ASSUME UNCHANGED table
      PROVE  /\ table' \in [Procs -> Seq(Entries)]
             /\ \A q \in Procs \ {p} : table'[q] = table[q]
             /\ \A j \in DOMAIN table'[p] : \E i \in DOMAIN table[p] : From(table'[p][j], table[p][i])
  BY <1>1, <1>6 DEF From
<1>7. ASSUME NEW id \in Int, shmat(p, id)
      PROVE  /\ table' \in [Procs -> Seq(Entries)]
             /\ \A q \in Procs \ {p} : table'[q] = table[q]
             /\ \A j \in DOMAIN table'[p] : \E i \in DOMAIN table[p] : From(table'[p][j], table[p][i])
  <2> DEFINE i == ashv_find_local_index(p, id)
  <2>1. CASE i # 0
    <3>1. i \in DOMAIN s
      BY <1>1, <2>1, FindIs
    <3>2. table' = [table EXCEPT ![p][i].mapped = TRUE]
      BY <1>7, <2>1 DEF shmat
    <3> HIDE DEF i
    <3>3. table' = [table EXCEPT ![p] = [s EXCEPT ![i] = [s[i] EXCEPT !.mapped = TRUE]]]
      BY <3>2
    <3> DEFINE e == [s[i] EXCEPT !.mapped = TRUE]
               u == [s EXCEPT ![i] = e]
    <3>4. e \in Entries /\ From(e, s[i])
      BY <1>5, <3>1
    <3> HIDE DEF e
    <3>5. u \in Seq(Entries) /\ \A j \in DOMAIN u : \E k \in DOMAIN s : From(u[j], s[k])
      BY <1>3, <3>4, <3>1
    <3>6. table' = [table EXCEPT ![p] = u]
      BY <3>3 DEF e
    <3> HIDE DEF u, s
    <3> QED BY <1>2, <3>5, <3>6
  <2>2. CASE i = 0
    BY <1>6, <1>7, <2>2 DEF shmat
  <2> QED BY <2>1, <2>2
<1>8. ASSUME NEW id \in Int, shmctl(p, id)
      PROVE  /\ table' \in [Procs -> Seq(Entries)]
             /\ \A q \in Procs \ {p} : table'[q] = table[q]
             /\ \A j \in DOMAIN table'[p] : \E i \in DOMAIN table[p] : From(table'[p][j], table[p][i])
  <2> DEFINE i == ashv_find_local_index(p, id)
  <2>1. i \in DOMAIN s
    BY <1>1, <1>8, FindIs DEF shmctl
  <2>2. table' = [table EXCEPT ![p] = IF s[i].mapped THEN [s EXCEPT ![i].marked = TRUE] ELSE RemoveAt(s, i)]
    BY <1>8 DEF shmctl
  <2> HIDE DEF i
  <2>3. CASE s[i].mapped
    <3>1. table' = [table EXCEPT ![p] = [s EXCEPT ![i] = [s[i] EXCEPT !.marked = TRUE]]]
      BY <2>2, <2>3
    <3> DEFINE e == [s[i] EXCEPT !.marked = TRUE]
               u == [s EXCEPT ![i] = e]
    <3>4. e \in Entries /\ From(e, s[i])
      BY <1>5, <2>1
    <3> HIDE DEF e
    <3>5. u \in Seq(Entries) /\ \A j \in DOMAIN u : \E k \in DOMAIN s : From(u[j], s[k])
      BY <1>3, <3>4, <2>1
    <3>6. table' = [table EXCEPT ![p] = u]
      BY <3>1 DEF e
    <3> HIDE DEF u, s
    <3> QED BY <1>2, <3>5, <3>6
  <2>4. CASE ~s[i].mapped
    BY <1>2, <1>4, <2>1, <2>2, <2>4
  <2> QED BY <2>3, <2>4
<1>9. ASSUME NEW i \in DOMAIN s, shmdt(p, i)
      PROVE  /\ table' \in [Procs -> Seq(Entries)]
             /\ \A q \in Procs \ {p} : table'[q] = table[q]
             /\ \A j \in DOMAIN table'[p] : \E k \in DOMAIN table[p] : From(table'[p][j], table[p][k])
  <2>1. table' = [table EXCEPT ![p] = IF s[i].marked \/ Remote(p, s[i].id)
                                      THEN RemoveAt(s, i) ELSE [s EXCEPT ![i].mapped = FALSE]]
    BY <1>9 DEF shmdt
  <2>2. CASE s[i].marked \/ Remote(p, s[i].id)
    BY <1>2, <1>4, <2>1, <2>2
  <2>3. CASE ~(s[i].marked \/ Remote(p, s[i].id))
    <3>1. table' = [table EXCEPT ![p] = [s EXCEPT ![i] = [s[i] EXCEPT !.mapped = FALSE]]]
      BY <2>1, <2>3
    <3> DEFINE e == [s[i] EXCEPT !.mapped = FALSE]
               u == [s EXCEPT ![i] = e]
    <3>4. e \in Entries /\ From(e, s[i])
      BY <1>5, <1>9
    <3> HIDE DEF e
    <3>5. u \in Seq(Entries) /\ \A j \in DOMAIN u : \E k \in DOMAIN s : From(u[j], s[k])
      BY <1>3, <3>4, <1>9
    <3>6. table' = [table EXCEPT ![p] = u]
      BY <3>1 DEF e
    <3> HIDE DEF u, s
    <3> QED BY <1>2, <3>5, <3>6
  <2> QED BY <2>2, <2>3
<1> QED BY <1>7, <1>8, <1>9

LEMMA TableTypes ==
  ASSUME ShmTypes, NEW p \in Procs,
         \/ \E id \in Int : shmat(p, id) \/ shmctl(p, id)
         \/ \E i \in DOMAIN table[p] : shmdt(p, i)
  PROVE  ShmTypes'
<1>0. CallTypes /\ LifeTypes
  BY TypesParts
<1>1. /\ Begin(p) /\ UNCHANGED <<life, started, sock, orphans, counter, issued, link, raced, misjudged>>
      /\ \/ UNCHANGED <<shmPc, call>>
         \/ \E id \in Int : /\ shmPc' = [shmPc EXCEPT ![p] = "ask"]
                            /\ call' = [call EXCEPT ![p] = [NoCall EXCEPT !.op = "at", !.id = id]]
  BY DEF shmat, shmctl, shmdt
<1>2. /\ life[p] # 0 /\ calls' = calls + 1 /\ calls' \in 0..MaxCalls /\ calls <= calls'
      /\ shmPc[p] = "idle" /\ call[p] = NoCall /\ issued[p] <= calls
  BY <1>1, BeginTypes
<1>3. table' \in [Procs -> Seq(Entries)] /\ \A q \in Procs \ {p} : table'[q] = table[q]
  BY TableStep
<1>4. /\ counter' \in [Procs -> 0..(CounterMod - 1)] /\ issued' \in [Procs -> Nat] /\ issued[p] \in Nat
      /\ link' \in [Keys -> Links]
      /\ raced' \subseteq Keys /\ misjudged' \subseteq Keys /\ calls \in Nat /\ issued' = issued
      /\ call \in [Procs -> Calls]
      /\ shmPc \in [Procs -> {"idle", "readlink", "ask", "unlink", "symlink"}]
  <2>1. UNCHANGED <<counter, issued, link, raced, misjudged>>
    BY <1>1
  <2> QED BY <1>0, <2>1, ShmemAssumption DEF CallTypes
<1>5. \E pc \in {"idle", "ask"}, c \in Calls :
        /\ shmPc' = [shmPc EXCEPT ![p] = pc] /\ call' = [call EXCEPT ![p] = c]
        /\ (pc = "idle") = (c = NoCall) /\ c.op # "get"
  <2>1. CASE UNCHANGED <<shmPc, call>>
    <3>1. shmPc' = [shmPc EXCEPT ![p] = "idle"] /\ call' = [call EXCEPT ![p] = NoCall]
      BY <1>2, <1>4, <2>1
    <3>2. ("idle" = "idle") = (NoCall = NoCall) /\ NoCall.op # "get"
      BY DEF NoCall
    <3> QED BY <3>1, <3>2, NoCallType
  <2>2. ASSUME NEW id \in Int, shmPc' = [shmPc EXCEPT ![p] = "ask"],
               call' = [call EXCEPT ![p] = [NoCall EXCEPT !.op = "at", !.id = id]]
        PROVE  \E pc \in {"idle", "ask"}, c \in Calls :
                 /\ shmPc' = [shmPc EXCEPT ![p] = pc] /\ call' = [call EXCEPT ![p] = c]
                 /\ (pc = "idle") = (c = NoCall) /\ c.op # "get"
    <3> DEFINE c == [NoCall EXCEPT !.op = "at", !.id = id]
    <3>1. c \in Calls /\ c.op = "at" /\ NoCall.op = "none"
      BY NoCallType DEF NoCall
    <3> HIDE DEF c
    <3>2. ("ask" = "idle") = (c = NoCall)
      BY <3>1
    <3> QED BY <2>2, <3>1, <3>2 DEF c
  <2> QED BY <1>1, <2>1, <2>2
<1>6. PICK pc \in {"idle", "ask"}, c \in Calls :
        /\ shmPc' = [shmPc EXCEPT ![p] = pc] /\ call' = [call EXCEPT ![p] = c]
        /\ (pc = "idle") = (c = NoCall) /\ c.op # "get"
  BY <1>5
<1>7. InCall(p)'
  <2>1. life'[p] # 0 /\ shmPc'[p] = pc /\ call'[p] = c /\ issued'[p] <= calls' /\ issued'[p] \in Nat
    <3>1. life' = life
      BY <1>1
    <3> QED BY <1>2, <1>4, <1>6, <3>1
  <2> QED BY <1>6, <2>1 DEF InCall
<1>8. \A q \in Procs \ {p} : UNCHANGED <<life[q], sock[q], issued[q], table[q]>>
  BY <1>1, <1>3
<1>9. CallTypes'
  BY <1>0, <1>2, <1>3, <1>4, <1>6, <1>7, <1>8, OneCall
<1> QED BY <1>0, <1>1, <1>9, LifeSame, PartsTypes

LEMMA PidTypes ==
  ASSUME ShmTypes, NEW p \in Procs, ashv_check_pid(p)
  PROVE  /\ ShmTypes' /\ sock'[p] = NoSock /\ issued'[p] = 0 /\ life'[p] = started'
         /\ started' = started + 1 /\ started \in Nat
         /\ \A q \in Procs \ {p} : UNCHANGED <<life[q], sock[q], counter[q], issued[q]>>
<1>0. CallTypes /\ LifeTypes
  BY TypesParts
<1>1. /\ life[p] = 0 /\ started < MaxProcs /\ started' = started + 1
      /\ life' = [life EXCEPT ![p] = started + 1] /\ sock' = [sock EXCEPT ![p] = NoSock]
      /\ issued' = [issued EXCEPT ![p] = 0]
      /\ UNCHANGED <<orphans, table, link, shmPc, call, calls, raced, misjudged>>
  BY DEF ashv_check_pid
<1>2. \E c \in 0..(CounterMod - 1) : counter' = [counter EXCEPT ![p] = c]
  <2>1. 0 \in 0..(CounterMod - 1) /\ \A q \in Procs : counter[q] \in 0..(CounterMod - 1)
    BY <1>0, ShmemAssumption DEF CallTypes
  <2> QED BY <2>1 DEF ashv_check_pid
<1>3. /\ counter \in [Procs -> 0..(CounterMod - 1)] /\ issued \in [Procs -> Nat]
      /\ issued \in [Procs -> 0..MaxCalls] /\ MaxCalls \in Nat
      /\ sock \in [Procs -> {NoSock} \cup SockIds] /\ life \in [Procs -> 0..MaxProcs]
      /\ started \in Nat /\ MaxProcs \in Nat
  BY <1>0, ShmemAssumption DEF CallTypes, LifeTypes
<1>4. /\ sock'[p] = NoSock /\ issued'[p] = 0 /\ life'[p] = started + 1
      /\ \A q \in Procs \ {p} : UNCHANGED <<life[q], sock[q], counter[q], issued[q]>>
  BY <1>1, <1>2, <1>3
<1>5. /\ counter' \in [Procs -> 0..(CounterMod - 1)] /\ issued' \in [Procs -> 0..MaxCalls]
      /\ sock' \in [Procs -> {NoSock} \cup SockIds] /\ life' \in [Procs -> 0..MaxProcs]
      /\ started' \in 0..MaxProcs
  BY <1>1, <1>2, <1>3
<1>6. \A q \in Procs : life[q] <= started /\ life[q] \in Nat
  BY <1>0, <1>3 DEF LifeTypes
<1>7. LifeTypes'
  <2>1. \A q \in Procs : life'[q] <= started'
    BY <1>1, <1>3, <1>4, <1>6
  <2>2. \A q, r \in Procs : q # r /\ life'[q] # 0 => life'[q] # life'[r]
    <3> SUFFICES ASSUME NEW q \in Procs, NEW r \in Procs, q # r, life'[q] # 0
                 PROVE  life'[q] # life'[r]
      OBVIOUS
    <3>1. CASE q = p
      BY <1>3, <1>4, <1>6, <3>1
    <3>2. CASE r = p
      BY <1>3, <1>4, <1>6, <3>2
    <3>3. CASE q # p /\ r # p
      BY <1>0, <1>4, <3>3 DEF LifeTypes
    <3> QED BY <3>1, <3>2, <3>3
  <2>3. Apart'
    <3> SUFFICES ASSUME NEW q \in Procs, NEW r \in Procs, life'[q] # 0, sock'[q] # NoSock
                 PROVE  /\ sock'[q] \notin orphans'
                        /\ q # r /\ life'[r] # 0 => sock'[q] # sock'[r] /\ life'[q] # life'[r]
      BY DEF Apart
    <3>1. q # p
      BY <1>4
    <3>2. sock[q] \notin orphans /\ (r # p /\ q # r /\ life[r] # 0 => sock[q] # sock[r])
      BY <1>0, <1>4, <3>1 DEF LifeTypes, Apart
    <3> QED BY <1>1, <1>4, <2>2, <3>1, <3>2
  <2> QED BY <1>0, <1>1, <1>5, <2>1, <2>2, <2>3 DEF LifeTypes
<1>8. \A q \in Procs : InCall(q)'
  <2> SUFFICES ASSUME NEW q \in Procs PROVE InCall(q)'
    OBVIOUS
  <2>1. InCall(q)
    BY <1>0 DEF CallTypes
  <2>2. CASE q # p
    BY <1>1, <1>4, <2>1, <2>2 DEF InCall
  <2>3. CASE q = p
    <3>1. shmPc[p] = "idle" /\ table[p] = <<>> /\ call[p] = NoCall
      BY <1>0, <1>1, <2>1, <2>3 DEF InCall, CallTypes
    <3>2. NoCall.op = "none" /\ calls \in Nat
      BY <1>0 DEF NoCall, CallTypes
    <3> QED BY <1>1, <1>4, <2>3, <3>1, <3>2 DEF InCall
  <2> QED BY <2>2, <2>3
<1>9. CallTypes'
  BY <1>0, <1>1, <1>5, <1>8 DEF CallTypes
<1> QED BY <1>1, <1>3, <1>4, <1>7, <1>9, PartsTypes

LEMMA GoneTypes ==
  ASSUME ShmTypes, NEW p \in Procs, ProcessGone(p)
  PROVE  ShmTypes' /\ life'[p] = 0 /\ table'[p] = <<>> /\ call'[p] = NoCall
<1>0. CallTypes /\ LifeTypes
  BY TypesParts
<1>1. /\ life[p] # 0 /\ life' = [life EXCEPT ![p] = 0]
      /\ orphans' \in {orphans, orphans \cup ({sock[p]} \ {NoSock})}
      /\ table' = [table EXCEPT ![p] = <<>>]
      /\ shmPc' = [shmPc EXCEPT ![p] = "idle"] /\ call' = [call EXCEPT ![p] = NoCall]
      /\ UNCHANGED <<started, sock, counter, issued, link, calls, raced, misjudged>>
  BY DEF ProcessGone
<1>2. /\ life \in [Procs -> 0..MaxProcs] /\ sock \in [Procs -> {NoSock} \cup SockIds]
      /\ orphans \subseteq SockIds /\ table \in [Procs -> Seq(Entries)] /\ call \in [Procs -> Calls]
      /\ shmPc \in [Procs -> {"idle", "readlink", "ask", "unlink", "symlink"}]
      /\ started \in Nat /\ MaxProcs \in Nat
  BY <1>0, ShmemAssumption DEF CallTypes, LifeTypes
<1>3. /\ life'[p] = 0 /\ table'[p] = <<>> /\ call'[p] = NoCall /\ shmPc'[p] = "idle"
      /\ \A q \in Procs \ {p} : UNCHANGED <<life[q], table[q], call[q], shmPc[q]>>
  BY <1>1, <1>2
<1>4. LifeTypes'
  <2>1. life' \in [Procs -> 0..MaxProcs] /\ orphans' \subseteq SockIds /\ \A q \in Procs : life'[q] <= started'
    BY <1>0, <1>1, <1>2, <1>3 DEF LifeTypes
  <2>2. \A q, r \in Procs : q # r /\ life'[q] # 0 => life'[q] # life'[r]
    BY <1>0, <1>3 DEF LifeTypes
  <2>3. Apart'
    <3> SUFFICES ASSUME NEW q \in Procs, NEW r \in Procs, life'[q] # 0, sock[q] # NoSock
                 PROVE  /\ sock[q] \notin orphans'
                        /\ q # r /\ life'[r] # 0 => sock[q] # sock[r] /\ life'[q] # life'[r]
      BY <1>1 DEF Apart
    <3>1. q # p /\ life[q] # 0
      BY <1>3
    <3>2. sock[q] \notin orphans /\ sock[q] # sock[p]
      BY <1>0, <1>1, <3>1 DEF LifeTypes, Apart
    <3>3. q # r /\ life'[r] # 0 => sock[q] # sock[r]
      BY <1>0, <1>3, <3>1 DEF LifeTypes, Apart
    <3> QED BY <1>1, <2>2, <3>2, <3>3
  <2> QED BY <1>0, <1>1, <2>1, <2>2, <2>3 DEF LifeTypes
<1>5. \A q \in Procs : InCall(q)'
  <2> SUFFICES ASSUME NEW q \in Procs PROVE InCall(q)'
    OBVIOUS
  <2>1. InCall(q)
    BY <1>0 DEF CallTypes
  <2>2. CASE q # p
    BY <1>1, <1>3, <2>1, <2>2 DEF InCall
  <2>3. CASE q = p
    <3>1. NoCall.op = "none" /\ calls \in Nat /\ issued[p] \in Nat /\ issued[p] <= calls
      BY <1>0, <2>1, <2>3, ShmemAssumption DEF NoCall, CallTypes, InCall
    <3> QED BY <1>1, <1>3, <2>3, <3>1 DEF InCall
  <2> QED BY <2>2, <2>3
<1>6. /\ table' \in [Procs -> Seq(Entries)] /\ call' \in [Procs -> Calls]
      /\ shmPc' \in [Procs -> {"idle", "readlink", "ask", "unlink", "symlink"}]
  <2>1. <<>> \in Seq(Entries)
    OBVIOUS
  <2> QED BY <1>1, <1>2, <2>1, NoCallType
<1>7. \A q \in Procs : (shmPc'[q] = "idle") = (call'[q] = NoCall)
  <2> SUFFICES ASSUME NEW q \in Procs PROVE (shmPc'[q] = "idle") = (call'[q] = NoCall)
    OBVIOUS
  <2>1. CASE q = p
    BY <1>3, <2>1
  <2>2. CASE q # p
    <3>1. (shmPc[q] = "idle") = (call[q] = NoCall)
      BY <1>0 DEF CallTypes
    <3> QED BY <1>3, <2>2, <3>1
  <2> QED BY <2>1, <2>2
<1>8. CallTypes'
  BY <1>0, <1>1, <1>5, <1>6, <1>7 DEF CallTypes
<1> QED BY <1>3, <1>4, <1>8, PartsTypes

\* The ids that processes know are those of the tables.
LEMMA KnownType == ShmTypes => KnownIds \subseteq Int
<1> SUFFICES ASSUME ShmTypes, NEW p \in Procs, NEW e \in Range(table[p]) PROVE e.id \in Int
  BY DEF KnownIds
<1>1. table[p] \in Seq(Entries)
  BY DEF ShmTypes
<1>2. PICK i \in DOMAIN table[p] : e = table[p][i]
  BY DEF Range
<1>3. e \in Entries
  BY <1>1, <1>2
<1> QED BY <1>3 DEF Entries

LEMMA ShmTypesNext == ShmTypes /\ [ShmNext]_shmVars => ShmTypes'
<1> SUFFICES ASSUME ShmTypes, [ShmNext]_shmVars PROVE ShmTypes'
  OBVIOUS
<1>1. CASE UNCHANGED shmVars
  BY <1>1 DEF shmVars, ShmTypes, ShmTypeOK, InCall
<1>2. CASE ShmNext
  <2>1. PICK p \in Procs :
          \/ ashv_check_pid(p) \/ ProcessGone(p)
          \/ shmgetPrivate(p) \/ \E k \in Keys : shmget(p, k)
          \/ ShmGoOn(p) \/ AskBreaks(p) \/ Refused(p)
          \/ \E id \in KnownIds : shmat(p, id) \/ shmctl(p, id)
          \/ \E i \in DOMAIN table[p] : shmdt(p, i)
    BY <1>2 DEF ShmNext
  <2>2. CASE ashv_check_pid(p)
    BY <2>2, PidTypes
  <2>3. CASE ProcessGone(p)
    BY <2>3, GoneTypes
  <2>4. CASE shmgetPrivate(p)
    BY <2>4, PrivateTypes
  <2>5. CASE \E k \in Keys : shmget(p, k)
    BY <2>5, GetTypes
  <2>6. CASE ShmGoOn(p) \/ AskBreaks(p) \/ Refused(p)
    BY <2>6, AskTypes, SymlinkTypes DEF ShmGoOn, Refused
  <2>7. CASE \/ \E id \in KnownIds : shmat(p, id) \/ shmctl(p, id)
             \/ \E i \in DOMAIN table[p] : shmdt(p, i)
    BY <2>7, KnownType, TableTypes
  <2> QED BY <2>1, <2>2, <2>3, <2>4, <2>5, <2>6, <2>7
<1> QED BY <1>1, <1>2

(***************************************************************************)
(* The variables keep their types; in particular two processes never have  *)
(* the same socket number, nor one that a child of a process that is gone  *)
(* still holds.                                                            *)
(***************************************************************************)
THEOREM TypeCorrect == ShmSpec => []ShmTypeOK
<1>1. ShmTypes => ShmTypeOK
  BY DEF ShmTypes
<1> QED BY <1>1, ShmTypesInit, ShmTypesNext, PTL DEF ShmSpec

-----------------------------------------------------------------------------
(***************************************************************************)
(* Ids and segments.                                                       *)
(***************************************************************************)
LEMMA InShown ==
  /\ \A p \in Procs : \A i \in DOMAIN table[p] : Pair(table[p][i]) \in Shown
  /\ \A k \in Keys : link[k] \in Shown \cup {NoLink}
  /\ \A p \in Procs : call[p].seen \in Shown \cup {NoLink}
  /\ \A p \in Procs : call[p].new \in Pairs \cup {NoLink}
  /\ Shown \subseteq Pairs
BY DEF Shown, Pairs, InTables

LEMMA ShownWithin ==
  ASSUME NEW N,
         \A p \in Procs : \A i \in DOMAIN table'[p] : Pair(table'[p][i]) \in N,
         \A k \in Keys : link'[k] \in N \cup {NoLink},
         \A p \in Procs : call'[p].seen \in N \cup {NoLink}
  PROVE  Shown' \subseteq N
BY DEF Shown, InTables

LEMMA PairsType ==
  ASSUME ShmTypes
  PROVE  \A x \in Pairs : x \in Links /\ x.id \in Int /\ x.seg \in Nat \X Nat
                          /\ x.seg[1] \in Nat /\ x.seg[2] \in Nat
<1>1. \A p \in Procs : table[p] \in Seq(Entries) /\ call[p] \in Calls
  BY DEF ShmTypes
<1>2. \A k \in Keys : link[k] \in Links
  BY DEF ShmTypes
<1>3. \A e \in Entries : Pair(e) \in Links
  BY DEF Pair, Entries, Links
<1>4. \A p \in Procs : call[p].seen \in Links /\ call[p].new \in Links
  BY <1>1 DEF Calls
<1>5. \A p \in Procs : \A i \in DOMAIN table[p] : Pair(table[p][i]) \in Links
  <2> SUFFICES ASSUME NEW p \in Procs, NEW i \in DOMAIN table[p] PROVE Pair(table[p][i]) \in Links
    OBVIOUS
  <2>1. table[p][i] \in Entries
    BY <1>1
  <2> QED BY <1>3, <2>1
<1>6. Pairs \subseteq Links
  BY <1>2, <1>4, <1>5 DEF Pairs, Shown, InTables
<1>7. \A x \in Links : x.id \in Int /\ x.seg \in Nat \X Nat /\ x.seg[1] \in Nat /\ x.seg[2] \in Nat
  BY DEF Links
<1> QED BY <1>6, <1>7

\* A step keeps what is known of the pairs if it makes no new ones and leaves
\* the processes alone, but for those that start and end.
LEMMA PairsStay ==
  ASSUME ShmTypes, ShmTypes', PairsOK, started <= started', Pairs' \subseteq Pairs,
         \A q \in Procs :
           \/ /\ UNCHANGED <<life[q], counter[q], issued[q]>>
              /\ sock[q] # NoSock => UNCHANGED sock[q]
           \/ life'[q] = 0 \/ life'[q] > started
  PROVE  PairsOK'
<1>1. started \in Nat /\ started' \in Nat /\ \A q \in Procs : life'[q] \in Nat
  <2>1. LifeTypes
    BY TypesParts
  <2>2. started' \in 0..MaxProcs /\ life' \in [Procs -> 0..MaxProcs]
    BY DEF ShmTypes, ShmTypeOK
  <2> QED BY <2>1, <2>2, ShmemAssumption DEF LifeTypes
<1>2. ASSUME NEW x \in Pairs, NEW q \in Procs, life'[q] = x.seg[1]
      PROVE  life[q] = x.seg[1] /\ UNCHANGED <<counter[q], issued[q], sock[q]>> /\ MadeBy(q, x)
  <2>1. x.seg[1] \in 1..started /\ (life[q] = x.seg[1] => MadeBy(q, x))
    BY DEF PairsOK, Made
  <2>2. UNCHANGED <<life[q], counter[q], issued[q]>> /\ (sock[q] # NoSock => UNCHANGED sock[q])
    BY <1>1, <1>2, <2>1
  <2> QED BY <1>2, <2>1, <2>2 DEF MadeBy
<1>3. ASSUME NEW x \in Pairs PROVE Made(x)'
  <2>1. x.seg[1] \in 1..started
    BY DEF PairsOK, Made
  <2>2. x.seg[1] \in 1..started'
    BY <1>1, <2>1
  <2>3. ASSUME NEW q \in Procs, life'[q] = x.seg[1] PROVE MadeBy(q, x)'
    <3>1. UNCHANGED <<counter[q], issued[q], sock[q]>> /\ MadeBy(q, x)
      BY <1>2, <2>3
    <3> QED BY <3>1 DEF MadeBy
  <2> QED BY <2>1, <2>2, <2>3 DEF Made
<1>4. ASSUME NEW x \in Pairs, NEW y \in Pairs PROVE Distinct(x, y)'
  <2>1. (Alive(x.seg))' => Alive(x.seg)
    BY <1>2 DEF Alive
  <2>2. (Alive(y.seg))' => Alive(y.seg)
    BY <1>2 DEF Alive
  <2>3. Distinct(x, y)
    BY DEF PairsOK
  <2> QED BY <2>1, <2>2, <2>3 DEF Distinct, SameSegment, Leftover, Reissued
<1> QED BY <1>3, <1>4 DEF PairsOK

\* The counter has been where it goes next only a round ago.
LEMMA BackNext ==
  ASSUME NEW c \in 0..(CounterMod - 1), NEW d \in Nat, NEW n,
         n = IF c = CounterMod - 1 THEN 0 ELSE c + 1
  PROVE  /\ Back(n, 0) = n
         /\ d + 1 < CounterMod => Back(n, d + 1) = Back(c, d) /\ Back(c, d) # n
<1>1. CounterMod \in Nat /\ CounterMod > 0
  BY ShmemAssumption
<1> QED BY <1>1 DEF Back

\* A process issues an id.
LEMMA NewPair ==
  ASSUME ShmTypes, ShmTypes', PairsOK, NEW p \in Procs, life[p] # 0,
         UNCHANGED <<life, started>>, Issue(p),
         sock'[p] \in SockIds, sock[p] # NoSock => sock'[p] = sock[p],
         \A q \in Procs \ {p} : sock'[q] = sock[q],
         NEW n, n = [id |-> ashv_shmid_from_counter(sock'[p], NextCounter(p)), seg |-> Segment(p)],
         Pairs' \subseteq Pairs \cup {n}
  PROVE  PairsOK' /\ \A x \in Pairs : x.seg # n.seg
<1>0. CallTypes /\ LifeTypes
  BY TypesParts
<1>1. /\ \A q \in Procs \ {p} : UNCHANGED <<counter[q], issued[q]>>
      /\ issued'[p] = issued[p] + 1 /\ issued[p] \in Nat
      /\ counter'[p] = NextCounter(p) /\ NextCounter(p) \in 0..(CounterMod - 1)
      /\ NextCounter(p) = IF counter[p] = CounterMod - 1 THEN 0 ELSE counter[p] + 1
      /\ counter[p] \in 0..(CounterMod - 1)
  <2>1. counter[p] \in 0..(CounterMod - 1)
    BY <1>0 DEF CallTypes
  <2> QED BY <1>0, <2>1, IssueType
<1>2. /\ n.id = ashv_shmid_from_counter(sock'[p], NextCounter(p)) /\ n.seg = Segment(p)
      /\ n.seg[1] = life[p] /\ n.seg[2] = issued[p] + 1
  BY DEF Segment
<1>3. /\ life[p] \in 1..started /\ NoSock \notin SockIds /\ CounterMod \in Nat /\ CounterMod > 0
      /\ \A q \in Procs : sock[q] \in SockIds \cup {NoSock}
      /\ \A q \in Procs : life[q] = life[p] => q = p
  BY <1>0, ShmemAssumption DEF LifeTypes, NoSock
<1>4. \A x \in Pairs : x.seg[1] \in Nat /\ x.seg[2] \in Nat
  BY PairsType
\* The pairs that were there are as they were.
<1>5. ASSUME NEW x \in Pairs, life[p] = x.seg[1]
      PROVE  /\ MadeBy(p, x)' /\ sock'[p] = sock[p] /\ x.seg[2] <= issued[p]
             /\ \E c \in 0..(CounterMod - 1) :
                  /\ x.id = ashv_shmid_from_counter(sock[p], c)
                  /\ issued[p] + 1 - x.seg[2] < CounterMod => c # NextCounter(p)
  <2> DEFINE d == issued[p] - x.seg[2]
  <2>1. MadeBy(p, x)
    BY <1>5 DEF PairsOK, Made
  <2>2. sock[p] # NoSock /\ sock'[p] = sock[p] /\ x.seg[2] \in 1..issued[p]
    BY <2>1 DEF MadeBy
  <2>3. PICK c \in 0..(CounterMod - 1) :
          x.id = ashv_shmid_from_counter(sock[p], c) /\ (d < CounterMod => c = Back(counter[p], d))
    BY <2>1 DEF MadeBy
  <2>4. d \in Nat /\ issued'[p] - x.seg[2] = d + 1 /\ issued[p] + 1 - x.seg[2] = d + 1
    BY <1>1, <1>4, <2>2
  <2> HIDE DEF d
  <2>5. d + 1 < CounterMod => d < CounterMod
    BY <1>3, <2>4
  <2>6. d + 1 < CounterMod => Back(NextCounter(p), d + 1) = Back(counter[p], d)
                              /\ Back(counter[p], d) # NextCounter(p)
    BY <1>1, <2>4, BackNext
  <2>7. d + 1 < CounterMod => c = Back(counter'[p], d + 1) /\ c # NextCounter(p)
    BY <1>1, <2>3, <2>5, <2>6
  <2>8. x.seg[2] \in 1..issued'[p] /\ x.seg[2] <= issued[p]
    BY <1>1, <2>2
  <2> QED BY <2>2, <2>3, <2>4, <2>7, <2>8 DEF MadeBy
<1>6. ASSUME NEW x \in Pairs, NEW q \in Procs, life[q] = x.seg[1] PROVE MadeBy(q, x)'
  <2>1. CASE q = p
    BY <1>5, <1>6, <2>1
  <2>2. CASE q # p
    <3>1. MadeBy(q, x) /\ UNCHANGED <<counter[q], issued[q], sock[q]>>
      BY <1>1, <1>6, <2>2 DEF PairsOK, Made
    <3> QED BY <3>1 DEF MadeBy
  <2> QED BY <2>1, <2>2
<1>7. ASSUME NEW x \in Pairs PROVE Made(x)'
  BY <1>6 DEF PairsOK, Made
\* The new pair is not one of them.
<1>8. ASSUME NEW x \in Pairs PROVE x.seg # n.seg
  <2> SUFFICES ASSUME x.seg = n.seg PROVE FALSE
    OBVIOUS
  <2>1. x.seg[2] <= issued[p] /\ x.seg[2] = issued[p] + 1
    BY <1>2, <1>5
  <2> QED BY <1>1, <2>1
<1>9. Made(n)'
  <2>2. MadeBy(p, n)'
    <3>1. issued'[p] - n.seg[2] = 0 /\ n.seg[2] \in 1..issued'[p]
      BY <1>1, <1>2
    <3>2. Back(counter'[p], 0) = counter'[p]
      BY <1>1, <1>3 DEF Back
    <3>3. sock'[p] # NoSock
      BY <1>3
    <3> QED BY <1>1, <1>2, <3>1, <3>2, <3>3 DEF MadeBy
  <2> QED BY <1>2, <1>3, <2>2 DEF Made
<1>10. ASSUME NEW x \in Pairs, x.id = n.id PROVE Reissued(n.seg, x.seg) \/ ~Alive(x.seg)
  <2>1. CASE x.seg[1] = life[p]
    <3>1. PICK c \in 0..(CounterMod - 1) :
            /\ x.id = ashv_shmid_from_counter(sock[p], c)
            /\ issued[p] + 1 - x.seg[2] < CounterMod => c # NextCounter(p)
      BY <1>5, <2>1
    <3>2. sock'[p] = sock[p]
      BY <1>5, <2>1
    <3>3. c = NextCounter(p)
      BY <1>1, <1>2, <1>10, <3>1, <3>2, IdParts
    <3>4. n.seg[2] - x.seg[2] >= CounterMod
      BY <1>1, <1>2, <1>3, <1>4, <3>1, <3>3
    <3> QED BY <1>2, <2>1, <3>4 DEF Reissued
  <2>2. CASE x.seg[1] # life[p] /\ Alive(x.seg)
    <3>1. PICK q \in Procs : life[q] = x.seg[1]
      BY <2>2 DEF Alive
    <3>2. q # p /\ MadeBy(q, x) /\ life[q] # 0
      BY <2>2, <3>1 DEF PairsOK, Made
    <3>3. PICK c \in 0..(CounterMod - 1) : x.id = ashv_shmid_from_counter(sock[q], c)
      BY <3>2 DEF MadeBy
    <3>4. sock[q] \in SockIds
      BY <1>3, <3>2 DEF MadeBy
    <3>5. sock[q] = sock'[p]
      BY <1>1, <1>2, <1>10, <3>3, <3>4, IdParts
    <3>6. sock'[p] # sock'[q]
      <4>1. life'[p] # 0 /\ life'[q] # 0 /\ sock'[p] # NoSock
        BY <1>3, <3>2
      <4> QED BY <3>2, <4>1 DEF ShmTypes, ShmTypeOK
    <3> QED BY <3>2, <3>5, <3>6
  <2> QED BY <2>1, <2>2
<1>11. ASSUME NEW x \in Pairs PROVE Distinct(x, n)' /\ Distinct(n, x)'
  <2>1. x.seg # n.seg
    BY <1>8
  <2>2. x.id = n.id => Reissued(n.seg, x.seg) \/ (x.seg[1] # n.seg[1] /\ ~Alive(x.seg))
    <3>1. Alive(n.seg)
      BY <1>2 DEF Alive
    <3>2. x.seg[1] = n.seg[1] => Alive(x.seg)
      BY <3>1 DEF Alive
    <3> QED BY <1>10, <3>2
  <2>3. Reissued(n.seg, x.seg) => Reissued(x.seg, n.seg)
    BY DEF Reissued
  <2>4. (Alive(x.seg))' => Alive(x.seg)
    BY DEF Alive
  <2> QED BY <2>1, <2>2, <2>3, <2>4 DEF Distinct, SameSegment, Leftover, Reissued
<1>12. ASSUME NEW x \in Pairs, NEW y \in Pairs PROVE Distinct(x, y)'
  BY DEF PairsOK, Distinct, SameSegment, Leftover, Reissued, Alive
<1>13. Distinct(n, n)'
  BY DEF Distinct, SameSegment
<1>14. \A x \in Pairs' : Made(x)'
  BY <1>7, <1>9
<1>15. \A x, y \in Pairs' : Distinct(x, y)'
  BY <1>11, <1>12, <1>13
<1> QED BY <1>8, <1>14, <1>15 DEF PairsOK

\* A step that allocates no id leaves those that are not linked yet alone.
LEMMA NewStay ==
  ASSUME NewOK, Shown' \subseteq Shown,
         \A q \in Procs : \/ call'[q].new = NoLink
                          \/ call'[q].new = call[q].new /\ life'[q] = life[q]
  PROVE  NewOK' /\ Pairs' \subseteq Pairs
BY DEF NewOK, Pairs

LEMMA QuietPairs ==
  ASSUME ShmTypes, ShmTypes', PairsOK, NewOK, started <= started',
         \A q \in Procs :
           \/ /\ UNCHANGED <<life[q], counter[q], issued[q]>>
              /\ sock[q] # NoSock => UNCHANGED sock[q]
           \/ life'[q] = 0 \/ life'[q] > started,
         \A p \in Procs : \A i \in DOMAIN table'[p] : Pair(table'[p][i]) \in Shown,
         \A k \in Keys : link'[k] \in Shown \cup {NoLink},
         \A p \in Procs : call'[p].seen \in Shown \cup {NoLink},
         \A q \in Procs : \/ call'[q].new = NoLink
                          \/ call'[q].new = call[q].new /\ life'[q] = life[q]
  PROVE  PairsOK' /\ NewOK'
<1>1. Shown' \subseteq Shown
  BY ShownWithin
<1>2. NewOK' /\ Pairs' \subseteq Pairs
  BY <1>1, NewStay
<1> QED BY <1>2, PairsStay

LEMMA AppendIs ==
  ASSUME NEW s \in Seq(Entries), NEW e \in Entries
  PROVE  /\ \A j \in DOMAIN Append(s, e) : \/ Append(s, e)[j] = e
                                           \/ j \in DOMAIN s /\ Append(s, e)[j] = s[j]
         /\ \A j \in DOMAIN s : j \in DOMAIN Append(s, e) /\ Append(s, e)[j] = s[j]
OBVIOUS

\* The entry of another process is taken over.
LEMMA AskFoundIs ==
  ASSUME ShmTypes, NEW p \in Procs, AskFound(p)
  PROVE  \E q \in Procs : \E i \in DOMAIN table[q] : \E e \in Entries :
           /\ q # p /\ life[q] # 0 /\ sock[q] = ashv_socket_id_from_shmid(call[p].id)
           /\ e.id = call[p].id /\ From(e, table[q][i])
           /\ table' = [table EXCEPT ![p] = Append(table[p], e)]
<1>1. PICK q \in Procs : LET i == ashv_find_local_index(q, call[p].id) IN
        /\ Answers(p, q) /\ i # 0
        /\ table' = [table EXCEPT ![p] =
             Append(@, Entry(call[p].id, table[q][i].seg, table[q][i].key, call[p].op = "at"))]
  BY DEF AskFound
<1> DEFINE i == ashv_find_local_index(q, call[p].id)
           e == Entry(call[p].id, table[q][i].seg, table[q][i].key, call[p].op = "at")
<1>2. table[q] \in Seq(Entries) /\ call[p] \in Calls
  BY DEF ShmTypes
<1>3. i \in DOMAIN table[q] /\ table[q][i].id = call[p].id
  BY <1>1, <1>2, FindIs
<1>4. table' = [table EXCEPT ![p] = Append(table[p], e)]
  BY <1>1
<1> HIDE DEF i
<1>5. e \in Entries /\ e.id = call[p].id /\ From(e, table[q][i])
  <2>1. table[q][i] \in Entries
    BY <1>2, <1>3
  <2>2. call[p].id \in Int /\ (call[p].op = "at") \in BOOLEAN
    BY <1>2 DEF Calls
  <2>3. /\ e.id = call[p].id /\ e.seg = table[q][i].seg /\ e.key = table[q][i].key
    BY DEF Entry
  <2>4. e \in Entries
    BY <2>1, <2>2 DEF Entries, Entry
  <2> HIDE DEF e
  <2> QED BY <1>3, <2>3, <2>4 DEF From
<1> HIDE DEF e
<1>6. shmPc[p] = "ask" /\ shmPc[q] = "idle" /\ life[q] # 0 /\ sock[q] = ashv_socket_id_from_shmid(call[p].id)
  BY <1>1 DEF AskFound, Answers, Asked
<1> QED BY <1>3, <1>4, <1>5, <1>6

\* The pair of an entry is that of the entry it comes from.
LEMMA PairFrom == \A e, f : From(f, e) => Pair(f) = Pair(e)
BY DEF From, Pair

\* What the calls that create no segment do to the pairs.
LEMMA AskPairs ==
  ASSUME ShmTypes, ShmTypes', PairsOK, NewOK, NEW p \in Procs,
         \/ ReadLink(p) \/ AskFound(p) \/ AskFails(p) \/ AskBreaks(p) \/ Unlink(p)
         \/ ReadLinkFails(p) \/ UnlinkFails(p)
  PROVE  PairsOK' /\ NewOK'
<1>1. /\ call \in [Procs -> Calls] /\ table \in [Procs -> Seq(Entries)] /\ link \in [Keys -> Links]
      /\ started \in Nat
  BY ShmemAssumption DEF ShmTypes, ShmTypeOK
<1>2. UNCHANGED <<life, started, sock, counter, issued>>
  BY DEF ReadLink, AskFound, AskFails, AskBreaks, Unlink, ReadLinkFails, UnlinkFails
<1>3. NoCall.new = NoLink /\ NoCall.seen = NoLink
  BY DEF NoCall
<1>4. /\ \A q \in Procs : \A i \in DOMAIN table[q] : Pair(table[q][i]) \in Shown
      /\ \A k \in Keys : link[k] \in Shown \cup {NoLink}
      /\ \A q \in Procs : call[q].seen \in Shown \cup {NoLink}
  BY InShown
<1>5. \A k \in Keys : link'[k] \in Shown \cup {NoLink}
  <2>1. CASE Unlink(p)
    BY <1>1, <1>4, <2>1 DEF Unlink
  <2>2. CASE UNCHANGED link
    BY <1>4, <2>2
  <2> QED BY <2>1, <2>2 DEF ReadLink, AskFound, AskFails, AskBreaks, ReadLinkFails, UnlinkFails
<1>6. \A q \in Procs : \A i \in DOMAIN table'[q] : Pair(table'[q][i]) \in Shown
  <2>1. CASE AskFound(p)
    <3>1. PICK q \in Procs : \E i \in DOMAIN table[q] : \E e \in Entries :
            From(e, table[q][i]) /\ table' = [table EXCEPT ![p] = Append(table[p], e)]
      BY <2>1, AskFoundIs
    <3>2. PICK i \in DOMAIN table[q] : \E e \in Entries :
            From(e, table[q][i]) /\ table' = [table EXCEPT ![p] = Append(table[p], e)]
      BY <3>1
    <3>3. PICK e \in Entries :
            From(e, table[q][i]) /\ table' = [table EXCEPT ![p] = Append(table[p], e)]
      BY <3>2
    <3>4. Pair(e) \in Shown
      BY <1>4, <3>3, PairFrom
    <3>5. \A j \in DOMAIN Append(table[p], e) :
            \/ Append(table[p], e)[j] = e
            \/ j \in DOMAIN table[p] /\ Append(table[p], e)[j] = table[p][j]
      <4>1. table[p] \in Seq(Entries)
        BY <1>1
      <4> QED BY <4>1, AppendIs
    <3>6. table'[p] = Append(table[p], e) /\ \A r \in Procs \ {p} : table'[r] = table[r]
      BY <1>1, <3>3
    <3> QED BY <1>4, <3>4, <3>5, <3>6
  <2>2. CASE UNCHANGED table
    BY <1>4, <2>2
  <2> QED BY <2>1, <2>2 DEF ReadLink, AskFails, AskBreaks, Unlink, ReadLinkFails, UnlinkFails
<1>7. \A q \in Procs : /\ call'[q].seen \in Shown \cup {NoLink}
                       /\ call'[q].new = NoLink \/ call'[q].new = call[q].new
  <2>1. CASE UNCHANGED call
    BY <1>4, <2>1
  <2>2. CASE Return(p)
    BY <1>1, <1>3, <1>4, <2>2 DEF Return
  <2>3. CASE ReadLink(p) /\ ~UNCHANGED call /\ ~Return(p)
    <3> DEFINE l == link[call[p].key]
               c == [call[p] EXCEPT !.seen = l, !.id = l.id]
    <3>1. shmPc[p] = "readlink" /\ InCall(p)
      BY <2>3 DEF ReadLink, ShmTypes
    <3>2. call[p].key \in Keys
      BY <3>1 DEF InCall
    <3>3. call' = [call EXCEPT ![p] = c]
      BY <1>1, <2>3 DEF ReadLink
    <3>4. c.seen = l /\ c.new = call[p].new
      BY <1>1 DEF Calls
    <3>5. l \in Shown \cup {NoLink}
      BY <1>4, <3>2
    <3> HIDE DEF c, l
    <3>6. call'[p] = c /\ \A q \in Procs \ {p} : call'[q] = call[q]
      BY <1>1, <3>3
    <3> QED BY <1>4, <3>4, <3>5, <3>6
  <2>4. AskFails(p) \/ AskBreaks(p) => UNCHANGED call \/ Return(p)
    BY DEF AskFails, AskBreaks, NoAnswer
  <2>5. Unlink(p) \/ ReadLinkFails(p) \/ UnlinkFails(p) => UNCHANGED call
    BY DEF Unlink, ReadLinkFails, UnlinkFails
  <2>6. AskFound(p) => Return(p)
    BY DEF AskFound
  <2> QED BY <2>1, <2>2, <2>3, <2>4, <2>5, <2>6
<1> QED BY <1>1, <1>2, <1>5, <1>6, <1>7, QuietPairs

LEMMA TablePairs ==
  ASSUME ShmTypes, ShmTypes', PairsOK, NewOK, NEW p \in Procs,
         \/ \E id \in Int : shmat(p, id) \/ shmctl(p, id)
         \/ \E i \in DOMAIN table[p] : shmdt(p, i)
  PROVE  PairsOK' /\ NewOK'
<1>1. call \in [Procs -> Calls] /\ started \in Nat
  BY ShmemAssumption DEF ShmTypes, ShmTypeOK
<1>2. UNCHANGED <<life, started, sock, counter, issued, link>>
  BY DEF shmat, shmctl, shmdt
<1>3. /\ \A q \in Procs : \A i \in DOMAIN table[q] : Pair(table[q][i]) \in Shown
      /\ \A k \in Keys : link[k] \in Shown \cup {NoLink}
      /\ \A q \in Procs : call[q].seen \in Shown \cup {NoLink}
  BY InShown
<1>4. /\ \A q \in Procs \ {p} : table'[q] = table[q]
      /\ \A j \in DOMAIN table'[p] : \E i \in DOMAIN table[p] : From(table'[p][j], table[p][i])
  BY TableStep
<1>5. \A q \in Procs : \A i \in DOMAIN table'[q] : Pair(table'[q][i]) \in Shown
  BY <1>3, <1>4, PairFrom
<1>6. \/ UNCHANGED call
      \/ \E id \in Int : call' = [call EXCEPT ![p] = [NoCall EXCEPT !.op = "at", !.id = id]]
  BY DEF shmat, shmctl, shmdt
<1>7. \A q \in Procs : /\ call'[q].seen \in Shown \cup {NoLink}
                       /\ call'[q].new = NoLink \/ call'[q].new = call[q].new
  <2>1. CASE UNCHANGED call
    BY <1>3, <2>1
  <2>2. ASSUME NEW id \in Int, call' = [call EXCEPT ![p] = [NoCall EXCEPT !.op = "at", !.id = id]]
        PROVE  \A q \in Procs : /\ call'[q].seen \in Shown \cup {NoLink}
                                /\ call'[q].new = NoLink \/ call'[q].new = call[q].new
    <3> DEFINE c == [NoCall EXCEPT !.op = "at", !.id = id]
    <3>1. c.new = NoLink /\ c.seen = NoLink
      BY DEF NoCall
    <3> HIDE DEF c
    <3>2. call'[p] = c /\ \A q \in Procs \ {p} : call'[q] = call[q]
      BY <1>1, <2>2 DEF c
    <3> QED BY <1>3, <3>1, <3>2
  <2> QED BY <1>6, <2>1, <2>2
<1>8. \A k \in Keys : link'[k] \in Shown \cup {NoLink}
  BY <1>2, <1>3
<1> QED BY <1>1, <1>2, <1>5, <1>7, <1>8, QuietPairs

LEMMA LifePairs ==
  ASSUME ShmTypes, ShmTypes', PairsOK, NewOK, NEW p \in Procs, ashv_check_pid(p) \/ ProcessGone(p)
  PROVE  PairsOK' /\ NewOK'
<1>1. call \in [Procs -> Calls] /\ table \in [Procs -> Seq(Entries)] /\ started \in Nat
      /\ life \in [Procs -> 0..MaxProcs]
  BY ShmemAssumption DEF ShmTypes, ShmTypeOK
<1>2. NoCall.new = NoLink /\ NoCall.seen = NoLink
  BY DEF NoCall
<1>3. /\ \A q \in Procs : \A i \in DOMAIN table[q] : Pair(table[q][i]) \in Shown
      /\ \A k \in Keys : link[k] \in Shown \cup {NoLink}
      /\ \A q \in Procs : call[q].seen \in Shown \cup {NoLink}
  BY InShown
<1>4. CASE ashv_check_pid(p)
  <2>1. /\ life'[p] = started' /\ started' = started + 1
        /\ \A q \in Procs \ {p} : UNCHANGED <<life[q], sock[q], counter[q], issued[q]>>
    BY <1>4, PidTypes
  <2>2. UNCHANGED <<table, link, call>> /\ life[p] = 0
    BY <1>4 DEF ashv_check_pid
  <2>3. call[p] = NoCall
    BY <2>2 DEF ShmTypes, ShmTypeOK, InCall
  <2>4. life'[p] > started /\ started <= started'
    BY <1>1, <2>1
  <2> QED BY <1>1, <1>2, <1>3, <2>1, <2>2, <2>3, <2>4, QuietPairs
<1>5. CASE ProcessGone(p)
  <2>1. life'[p] = 0 /\ table'[p] = <<>> /\ call'[p] = NoCall
    BY <1>5, GoneTypes
  <2>2. /\ \A q \in Procs \ {p} : UNCHANGED <<life[q], call[q], table[q]>>
        /\ UNCHANGED <<started, sock, counter, issued, link>>
    BY <1>1, <1>5 DEF ProcessGone
  <2>3. DOMAIN table'[p] = {}
    BY <2>1
  <2>4. \A q \in Procs : \A i \in DOMAIN table'[q] : Pair(table'[q][i]) \in Shown
    BY <1>3, <2>2, <2>3
  <2>5. started <= started'
    BY <1>1, <2>2
  <2> QED BY <1>1, <1>2, <1>3, <2>1, <2>2, <2>4, <2>5, QuietPairs
<1> QED BY <1>4, <1>5

LEMMA GetPairs ==
  ASSUME ShmTypes, ShmTypes', PairsOK, NewOK, NEW p \in Procs, NEW k \in Keys, shmget(p, k)
  PROVE  PairsOK' /\ NewOK'
<1> DEFINE c == [NoCall EXCEPT !.op = "get", !.key = k]
<1>1. call \in [Procs -> Calls] /\ started \in Nat
  BY ShmemAssumption DEF ShmTypes, ShmTypeOK
<1>2. UNCHANGED <<life, started, counter, issued, table, link>> /\ call' = [call EXCEPT ![p] = c]
  BY DEF shmget
<1>3. c.new = NoLink /\ c.seen = NoLink
  BY DEF NoCall
<1>4. \A q \in Procs : sock[q] # NoSock => UNCHANGED sock[q]
  <2>1. LifeTypes /\ life[p] # 0 /\ Bind(p) /\ UNCHANGED <<started, life, orphans>>
    BY TypesParts DEF shmget, Begin
  <2> QED BY <2>1, BindLife
<1> HIDE DEF c
<1>5. call'[p] = c /\ \A q \in Procs \ {p} : call'[q] = call[q]
  BY <1>1, <1>2
<1>6. /\ \A q \in Procs : \A i \in DOMAIN table[q] : Pair(table[q][i]) \in Shown
      /\ \A x \in Keys : link[x] \in Shown \cup {NoLink}
      /\ \A q \in Procs : call[q].seen \in Shown \cup {NoLink}
  BY InShown
<1> QED BY <1>1, <1>2, <1>3, <1>4, <1>5, <1>6, QuietPairs

\* Create adds one entry at most.
LEMMA CreateIs ==
  ASSUME ShmTypes, NEW p \in Procs, NEW id \in Int, NEW seg \in Nat \X Nat,
         NEW key \in Keys \cup {Private}, Create(p, id, seg, key)
  PROVE  \A q \in Procs : \A i \in DOMAIN table'[q] :
           \/ i \in DOMAIN table[q] /\ table'[q][i] = table[q][i]
           \/ q = p /\ table'[q][i] = Entry(id, seg, key, FALSE)
<1> DEFINE e == Entry(id, seg, key, FALSE)
<1>1. /\ \A q \in Procs \ {p} : table'[q] = table[q]
      /\ table'[p] = table[p] \/ table'[p] = Append(table[p], e)
      /\ e \in Entries
  BY TypesParts, CreateType
<1> HIDE DEF e
<1>2. table[p] \in Seq(Entries)
  BY DEF ShmTypes
<1>3. \A j \in DOMAIN Append(table[p], e) : \/ Append(table[p], e)[j] = e
                                            \/ j \in DOMAIN table[p] /\ Append(table[p], e)[j] = table[p][j]
  BY <1>1, <1>2, AppendIs
<1> QED BY <1>1, <1>3 DEF e

LEMMA PrivatePairs ==
  ASSUME ShmTypes, ShmTypes', PairsOK, NewOK, NEW p \in Procs, shmgetPrivate(p)
  PROVE  PairsOK' /\ NewOK' /\ \A x \in Shown : x.seg # Segment(p)
<1> DEFINE n == [id |-> ashv_shmid_from_counter(sock'[p], NextCounter(p)), seg |-> Segment(p)]
<1>1. /\ life[p] # 0 /\ Bind(p) /\ Issue(p) /\ Create(p, n.id, n.seg, Private)
      /\ UNCHANGED <<life, started, orphans, link, call>>
  BY DEF shmgetPrivate, Begin
<1>2. CallTypes /\ LifeTypes
  BY TypesParts
<1>3. /\ sock'[p] \in SockIds /\ (sock[p] # NoSock => sock'[p] = sock[p])
      /\ \A q \in Procs \ {p} : sock'[q] = sock[q]
  BY <1>1, <1>2, BindLife
<1>4. n.id \in Int /\ n.seg \in Nat \X Nat
  <2>1. NextCounter(p) \in 0..(CounterMod - 1) /\ issued[p] \in Nat
    BY <1>1, <1>2, IssueType
  <2>2. life[p] \in Nat
    BY <1>2, ShmemAssumption DEF LifeTypes
  <2> QED BY <1>3, <2>1, <2>2, IdIs DEF Segment
<1>5. Pair(Entry(n.id, n.seg, Private, FALSE)) = n
  BY DEF Pair, Entry
<1>6. \A q \in Procs : \A i \in DOMAIN table'[q] :
        \/ i \in DOMAIN table[q] /\ table'[q][i] = table[q][i]
        \/ q = p /\ table'[q][i] = Entry(n.id, n.seg, Private, FALSE)
  <2>1. Private \in Keys \cup {Private}
    OBVIOUS
  <2>2. \A id \in Int, seg \in Nat \X Nat, key \in Keys \cup {Private} :
        Create(p, id, seg, key) => \A q \in Procs : \A i \in DOMAIN table'[q] :
          \/ i \in DOMAIN table[q] /\ table'[q][i] = table[q][i]
          \/ q = p /\ table'[q][i] = Entry(id, seg, key, FALSE)
    BY CreateIs
  <2> HIDE DEF n
  <2> QED BY <1>1, <1>4, <2>1, <2>2
<1> DEFINE N == Shown \cup {n}
<1>7. Shown' \subseteq N
  <2>1. \A q \in Procs : \A i \in DOMAIN table'[q] : Pair(table'[q][i]) \in N
    <3> HIDE DEF n
    <3> QED BY <1>5, <1>6, InShown
  <2>2. /\ \A k \in Keys : link'[k] \in N \cup {NoLink}
        /\ \A q \in Procs : call'[q].seen \in N \cup {NoLink}
    BY <1>1, InShown
  <2> HIDE DEF N
  <2> QED BY <2>1, <2>2, ShownWithin
<1>8. Pairs' \subseteq Pairs \cup {n}
  BY <1>1, <1>7 DEF Pairs
<1>9. PairsOK' /\ \A x \in Pairs : x.seg # n.seg
  <2>1. UNCHANGED <<life, started>>
    BY <1>1
  <2> QED BY <1>1, <1>3, <1>8, <2>1, NewPair
<1>10. NewOK'
  <2> HIDE DEF n
  <2> QED BY <1>1, <1>7, <1>9, InShown DEF NewOK
<1> QED BY <1>9, <1>10, InShown

LEMMA NewLinkType ==
  ASSUME ShmTypes, NEW p \in Procs, Symlink(p) \/ SymlinkFails(p)
  PROVE  /\ NewLink(p).id \in Int /\ NewLink(p).seg \in Nat \X Nat
         /\ NewLink(p) # NoLink /\ life[p] # 0 /\ call[p].key \in Keys /\ sock[p] \in SockIds
<1>0. CallTypes /\ LifeTypes /\ call[p] \in Calls
  BY TypesParts DEF ShmTypes
<1>1. /\ life[p] # 0 /\ call[p].key \in Keys /\ sock[p] # NoSock
  BY SymlinkWays DEF InCall, ShmTypes
<1>2. sock[p] \in SockIds /\ life[p] \in Nat
  BY <1>0, <1>1, ShmemAssumption DEF LifeTypes
<1>3. CASE call[p].new = NoLink
  <2> DEFINE id == ashv_shmid_from_counter(sock[p], NextCounter(p))
  <2>1. NextCounter(p) \in 0..(CounterMod - 1) /\ issued[p] \in Nat
    <3>1. Issue(p)
      BY <1>3, SymlinkWays
    <3> QED BY <1>0, <3>1, IssueType
  <2>2. id \in Int
    BY <1>2, <2>1, IdIs
  <2> HIDE DEF id
  <2>3. Segment(p) \in Nat \X Nat /\ Segment(p)[1] # 0
    BY <1>1, <1>2, <2>1 DEF Segment
  <2>4. NewLink(p) = [id |-> id, seg |-> Segment(p)]
    BY <1>3 DEF NewLink, id
  <2>5. NoLink.seg[1] = 0
    BY DEF NoLink, NoSeg
  <2> QED BY <1>1, <1>2, <2>2, <2>3, <2>4, <2>5
<1>4. CASE call[p].new # NoLink
  BY <1>0, <1>1, <1>2, <1>4 DEF NewLink, Calls, Links
<1> QED BY <1>3, <1>4

\* The link is made, and perhaps the segment.
Linked(p) ==
  /\ link[call[p].key] = NoLink
  /\ \A k \in Keys : link'[k] = IF k = call[p].key THEN NewLink(p) ELSE link[k]
  /\ \A q \in Procs : \A i \in DOMAIN table'[q] :
       \/ i \in DOMAIN table[q] /\ table'[q][i] = table[q][i]
       \/ q = p /\ table'[q][i] = Entry(NewLink(p).id, NewLink(p).seg, call[p].key, FALSE)
  /\ call'[p] = NoCall /\ shmPc'[p] = "idle"

\* It is not, and what has been allocated is kept.
Unlinked(p) ==
  /\ UNCHANGED <<link, table>> /\ shmPc'[p] = "readlink"
  /\ call'[p].new = NewLink(p) /\ call'[p].seen = call[p].seen

\* What is there after a link has been made or not.
LEMMA SymlinkIs ==
  ASSUME ShmTypes, NEW p \in Procs, Symlink(p) \/ SymlinkFails(p)
  PROVE  /\ UNCHANGED <<life, started, sock, raced, misjudged>>
         /\ \A q \in Procs \ {p} : UNCHANGED <<call[q], shmPc[q]>>
         /\ Linked(p) \/ Unlinked(p)
<1> DEFINE k == call[p].key
           new == NewLink(p)
<1>2. UNCHANGED <<life, started, sock, raced, misjudged>>
  BY SymlinkWays
<1>3. new.id \in Int /\ new.seg \in Nat \X Nat /\ k \in Keys
  BY NewLinkType
<1>4. /\ link \in [Keys -> Links] /\ call \in [Procs -> Calls]
      /\ shmPc \in [Procs -> {"idle", "readlink", "ask", "unlink", "symlink"}]
  BY DEF ShmTypes, ShmTypeOK
<1> HIDE DEF new, k
<1>5. CASE LinkFree(k) /\ link' = [link EXCEPT ![k] = new] /\ Create(p, new.id, new.seg, k) /\ Return(p)
  <2>1. \A q \in Procs : \A i \in DOMAIN table'[q] :
          \/ i \in DOMAIN table[q] /\ table'[q][i] = table[q][i]
          \/ q = p /\ table'[q][i] = Entry(new.id, new.seg, k, FALSE)
    <3>1. k \in Keys \cup {Private} /\ Create(p, new.id, new.seg, k)
      BY <1>3, <1>5
    <3>2. \A id \in Int, seg \in Nat \X Nat, key \in Keys \cup {Private} :
          Create(p, id, seg, key) => \A q \in Procs : \A i \in DOMAIN table'[q] :
            \/ i \in DOMAIN table[q] /\ table'[q][i] = table[q][i]
            \/ q = p /\ table'[q][i] = Entry(id, seg, key, FALSE)
      BY CreateIs
    <3> QED BY <1>3, <3>1, <3>2
  <2>2. link[k] = NoLink
    BY <1>5 DEF LinkFree
  <2>3. \A x \in Keys : link'[x] = IF x = k THEN new ELSE link[x]
    BY <1>3, <1>4, <1>5
  <2>4. /\ call'[p] = NoCall /\ shmPc'[p] = "idle"
        /\ \A q \in Procs \ {p} : UNCHANGED <<call[q], shmPc[q]>>
    BY <1>4, <1>5 DEF Return
  <2> QED BY <1>2, <2>1, <2>2, <2>3, <2>4 DEF Linked, new, k
<1>6. CASE NotLinked(p)
  <2>1. /\ shmPc' = [shmPc EXCEPT ![p] = "readlink"] /\ call' = [call EXCEPT ![p].new = new]
        /\ UNCHANGED <<link, table>>
    BY <1>6 DEF NotLinked, LinkExists, new
  <2>2. /\ call'[p] = [call[p] EXCEPT !.new = new] /\ shmPc'[p] = "readlink"
        /\ \A q \in Procs \ {p} : UNCHANGED <<call[q], shmPc[q]>>
    BY <1>4, <2>1
  <2>3. call'[p].new = new /\ call'[p].seen = call[p].seen
    BY <1>4, <2>2 DEF Calls
  <2> QED BY <1>2, <2>1, <2>2, <2>3 DEF Unlinked, new
<1> QED BY <1>5, <1>6, SymlinkWays DEF new, k

LEMMA SymlinkPairs ==
  ASSUME ShmTypes, ShmTypes', PairsOK, NewOK, NEW p \in Procs, Symlink(p) \/ SymlinkFails(p)
  PROVE  PairsOK' /\ NewOK' /\ \A x \in Shown : x.seg # NewLink(p).seg
<1> DEFINE n == NewLink(p)
           N == Shown \cup {n}
<1>1. /\ UNCHANGED <<life, started, sock>> /\ \A q \in Procs \ {p} : call'[q] = call[q]
      /\ Linked(p) \/ Unlinked(p)
  BY SymlinkIs
<1>2. /\ n.id \in Int /\ n.seg \in Nat \X Nat /\ n # NoLink
      /\ life[p] # 0 /\ call[p].key \in Keys /\ sock[p] \in SockIds
  BY NewLinkType
<1>3. NoCall.new = NoLink /\ NoCall.seen = NoLink
  BY DEF NoCall
<1>4. n = [id |-> n.id, seg |-> n.seg]
  <2>1. call[p] \in Calls
    BY DEF ShmTypes
  <2> QED BY <2>1 DEF NewLink, Calls, Links
<1>5. Pair(Entry(n.id, n.seg, call[p].key, FALSE)) = n
  BY <1>4 DEF Pair, Entry
<1> HIDE DEF n
<1>6. /\ \A q \in Procs : \A i \in DOMAIN table'[q] : Pair(table'[q][i]) \in N
      /\ \A k \in Keys : link'[k] \in N \cup {NoLink}
      /\ \A q \in Procs : call'[q].seen \in N \cup {NoLink}
      /\ \A q \in Procs : call'[q].new \in Pairs \cup {n, NoLink}
  <2>1. CASE Linked(p)
    <3>1. \A q \in Procs : \A i \in DOMAIN table'[q] :
            \/ i \in DOMAIN table[q] /\ table'[q][i] = table[q][i]
            \/ table'[q][i] = Entry(n.id, n.seg, call[p].key, FALSE)
      BY <2>1 DEF Linked, n
    <3>2. /\ \A k \in Keys : link'[k] = n \/ link'[k] = link[k]
          /\ call'[p] = NoCall
      BY <2>1 DEF Linked, n
    <3> QED BY <1>1, <1>3, <1>5, <3>1, <3>2, InShown
  <2>2. CASE Unlinked(p)
    <3>1. UNCHANGED <<link, table>> /\ call'[p].new = n /\ call'[p].seen = call[p].seen
      BY <2>2 DEF Unlinked, n
    <3> QED BY <1>1, <3>1, InShown
  <2> QED BY <1>1, <2>1, <2>2
<1>8. Shown' \subseteq N
  <2> HIDE DEF N
  <2> QED BY <1>6, ShownWithin
<1>10. Pairs' \subseteq Pairs \cup {n}
  BY <1>6, <1>8, InShown DEF Pairs
<1>11. PairsOK' /\ (\A x \in Shown : x.seg # n.seg) /\ n.seg[1] = life[p]
  <2>1. CASE call[p].new = NoLink
    <3>1. Issue(p)
      BY <2>1, SymlinkWays
    <3>2. n = [id |-> ashv_shmid_from_counter(sock'[p], NextCounter(p)), seg |-> Segment(p)]
      BY <1>1, <2>1 DEF NewLink, n
    <3>3. /\ UNCHANGED <<life, started>> /\ sock'[p] \in SockIds /\ sock'[p] = sock[p]
          /\ \A q \in Procs \ {p} : sock'[q] = sock[q]
      BY <1>1, <1>2
    <3>4. PairsOK' /\ \A x \in Pairs : x.seg # n.seg
      BY <1>2, <1>10, <3>1, <3>2, <3>3, NewPair
    <3> QED BY <3>2, <3>4, InShown DEF Segment
  <2>2. CASE call[p].new # NoLink
    <3>1. n = call[p].new
      BY <2>2 DEF NewLink, n
    <3>2. UNCHANGED <<counter, issued>> /\ started \in Nat
      <4>1. UNCHANGED <<counter, issued>>
        BY <2>2, SymlinkWays
      <4>2. started \in Nat
        BY ShmemAssumption DEF ShmTypes, ShmTypeOK
      <4> QED BY <4>1, <4>2
    <3>3. Pairs' \subseteq Pairs
      BY <1>2, <1>10, <3>1, InShown
    <3>4. PairsOK'
      BY <1>1, <3>2, <3>3, PairsStay
    <3> QED BY <2>2, <3>1, <3>4 DEF NewOK
  <2> QED BY <2>1, <2>2
<1>12. NewOK'
  <2> SUFFICES ASSUME NEW q \in Procs, call'[q].new # NoLink
               PROVE  call'[q].new.seg[1] = life[q] /\ \A x \in Shown' : x.seg # call'[q].new.seg
    BY <1>1 DEF NewOK
  <2>1. CASE q = p
    <3>1. UNCHANGED <<link, table>> /\ call'[p].new = n /\ call'[p].seen = call[p].seen
      BY <1>1, <1>3, <2>1 DEF Linked, Unlinked, n
    <3>2. Shown' \subseteq Shown
      <4>1. /\ \A r \in Procs : \A i \in DOMAIN table'[r] : Pair(table'[r][i]) \in Shown
            /\ \A k \in Keys : link'[k] \in Shown \cup {NoLink}
            /\ \A r \in Procs : call'[r].seen \in Shown \cup {NoLink}
        BY <1>1, <3>1, InShown
      <4> QED BY <4>1, ShownWithin
    <3> QED BY <1>11, <2>1, <3>1, <3>2
  <2>2. CASE q # p
    <3>1. /\ call'[q].new = call[q].new /\ call[q].new.seg[1] = life[q]
          /\ \A x \in Shown : x.seg # call[q].new.seg
      BY <1>1, <2>2 DEF NewOK
    <3>2. life[q] # life[p]
      BY <1>2, <2>2 DEF ShmTypes
    <3> QED BY <1>8, <1>11, <3>1, <3>2
  <2> QED BY <2>1, <2>2
<1> QED BY <1>11, <1>12 DEF n

LEMMA PairsInit == ShmInit => PairsOK /\ NewOK
<1> SUFFICES ASSUME ShmInit PROVE PairsOK /\ NewOK
  OBVIOUS
<1>1. /\ \A p \in Procs : table[p] = <<>> /\ call[p].seen = NoLink /\ call[p].new = NoLink
      /\ \A k \in Keys : link[k] = NoLink
  BY DEF ShmInit, NoCall
<1>2. Pairs = {}
  <2>1. \A p \in Procs : DOMAIN table[p] = {}
    BY <1>1
  <2> QED BY <1>1, <2>1 DEF Pairs, Shown, InTables
<1> QED BY <1>1, <1>2 DEF PairsOK, NewOK

LEMMA PairsNext == ShmTypes /\ PairsOK /\ NewOK /\ [ShmNext]_shmVars => (PairsOK /\ NewOK)'
<1> SUFFICES ASSUME ShmTypes, PairsOK, NewOK, [ShmNext]_shmVars PROVE (PairsOK /\ NewOK)'
  OBVIOUS
<1>0. ShmTypes'
  BY ShmTypesNext
<1>1. CASE UNCHANGED shmVars
  <2>1. UNCHANGED <<Shown, Pairs>>
    BY <1>1 DEF shmVars, Shown, Pairs, InTables
  <2> QED BY <1>1, <2>1 DEF shmVars, PairsOK, NewOK, Made, MadeBy, Distinct, SameSegment, Leftover, Alive
<1>2. CASE ShmNext
  <2>1. PICK p \in Procs :
          \/ ashv_check_pid(p) \/ ProcessGone(p)
          \/ shmgetPrivate(p) \/ \E k \in Keys : shmget(p, k)
          \/ ShmGoOn(p) \/ AskBreaks(p) \/ Refused(p)
          \/ \E id \in KnownIds : shmat(p, id) \/ shmctl(p, id)
          \/ \E i \in DOMAIN table[p] : shmdt(p, i)
    BY <1>2 DEF ShmNext
  <2>2. CASE ashv_check_pid(p) \/ ProcessGone(p)
    BY <1>0, <2>2, LifePairs
  <2>3. CASE shmgetPrivate(p)
    BY <1>0, <2>3, PrivatePairs
  <2>4. CASE \E k \in Keys : shmget(p, k)
    BY <1>0, <2>4, GetPairs
  <2>5. CASE \/ ReadLink(p) \/ AskFound(p) \/ AskFails(p) \/ AskBreaks(p) \/ Unlink(p)
             \/ ReadLinkFails(p) \/ UnlinkFails(p)
    BY <1>0, <2>5, AskPairs
  <2>6. CASE Symlink(p) \/ SymlinkFails(p)
    BY <1>0, <2>6, SymlinkPairs
  <2>7. CASE \/ \E id \in KnownIds : shmat(p, id) \/ shmctl(p, id)
             \/ \E i \in DOMAIN table[p] : shmdt(p, i)
    BY <1>0, <2>7, KnownType, TablePairs
  <2> QED BY <2>1, <2>2, <2>3, <2>4, <2>5, <2>6, <2>7 DEF ShmGoOn, Refused
<1> QED BY <1>1, <1>2

(***************************************************************************)
(* An id stands for one segment in all tables and links, whatever the      *)
(* number of processes, keys and ids, as long as the counter has not gone  *)
(* round and the processes are alive: the counter is never set back, also  *)
(* when a key has got its link meanwhile, and a socket number is not       *)
(* shared.                                                                 *)
(***************************************************************************)
THEOREM IdsAreUnique == ShmSpec => []OneIdOneSegment
<1>1. ShmTypes /\ PairsOK => OneIdOneSegment
  <2> SUFFICES ASSUME ShmTypes, PairsOK, NEW p \in Procs, NEW i \in DOMAIN table[p]
               PROVE  /\ \A q \in Procs : \A j \in DOMAIN table[q] : SameSegment(table[p][i], table[q][j])
                      /\ \A k \in Keys : link[k] # NoLink => SameSegment(table[p][i], link[k])
    BY DEF OneIdOneSegment
  <2>1. \A q \in Procs : \A j \in DOMAIN table[q] : Pair(table[q][j]) \in Pairs
    BY InShown
  <2>2. \A k \in Keys : link[k] \in Pairs \cup {NoLink}
    BY InShown
  <2>3. \A x \in Pairs : SameSegment(Pair(table[p][i]), x)
    BY <2>1 DEF PairsOK, Distinct
  <2>4. \A e : Pair(e).id = e.id /\ Pair(e).seg = e.seg
    BY DEF Pair
  <2>5. \A q \in Procs : \A j \in DOMAIN table[q] : SameSegment(table[p][i], table[q][j])
    <3> SUFFICES ASSUME NEW q \in Procs, NEW j \in DOMAIN table[q]
                 PROVE  SameSegment(table[p][i], table[q][j])
      OBVIOUS
    <3>1. SameSegment(Pair(table[p][i]), Pair(table[q][j]))
      BY <2>1, <2>3
    <3> QED BY <2>4, <3>1 DEF SameSegment
  <2>6. ASSUME NEW k \in Keys, link[k] # NoLink PROVE SameSegment(table[p][i], link[k])
    <3>1. SameSegment(Pair(table[p][i]), link[k])
      BY <2>2, <2>3, <2>6
    <3> QED BY <2>4, <3>1 DEF SameSegment
  <2> QED BY <2>5, <2>6
<1>2. ShmInit => ShmTypes /\ PairsOK /\ NewOK
  BY ShmTypesInit, PairsInit
<1>3. ShmTypes /\ PairsOK /\ NewOK /\ [ShmNext]_shmVars => (ShmTypes /\ PairsOK /\ NewOK)'
  BY ShmTypesNext, PairsNext
<1> QED BY <1>1, <1>2, <1>3, PTL DEF ShmSpec

-----------------------------------------------------------------------------
(***************************************************************************)
(* Keys and segments.                                                      *)
(***************************************************************************)
LEMMA OwnMade ==
  ASSUME ShmTypes, PairsOK, NEW p \in Procs, NEW i \in DOMAIN table[p],
         table[p][i].seg[1] = life[p]
  PROVE  /\ life[p] # 0 /\ sock[p] # NoSock /\ Pair(table[p][i]) \in Pairs
         /\ sock[p] < Half => ashv_socket_id_from_shmid(table[p][i].id) = sock[p]
         /\ sock[p] < Half <=> table[p][i].id >= 0
         /\ table[p][i].seg # NoSeg
<1> DEFINE x == Pair(table[p][i])
<1>1. x \in Pairs /\ x.id = table[p][i].id /\ x.seg = table[p][i].seg
  BY InShown DEF Pair
<1> HIDE DEF x
<1>2. Made(x) /\ MadeBy(p, x)
  BY <1>1 DEF PairsOK, Made
<1>3. life[p] # 0 /\ sock[p] # NoSock
  BY <1>1, <1>2 DEF Made, MadeBy
<1>4. sock[p] \in SockIds
  BY <1>3 DEF ShmTypes, ShmTypeOK
<1>5. /\ sock[p] < Half => ashv_socket_id_from_shmid(x.id) = sock[p]
      /\ sock[p] < Half <=> x.id >= 0
  <2>1. PICK c \in 0..(CounterMod - 1) : x.id = ashv_shmid_from_counter(sock[p], c)
    BY <1>2 DEF MadeBy
  <2> QED BY <1>4, <2>1, IdIs
<1>6. table[p][i].seg # NoSeg
  BY <1>3 DEF NoSeg
<1> QED BY <1>1, <1>3, <1>5, <1>6 DEF x

\* A step keeps what is known of the keys if it makes no segment.
LEMMA KeyStay ==
  ASSUME KeyOK, UnlinkOK, UNCHANGED <<link, raced, misjudged>>,
         \A q \in Procs : \A j \in DOMAIN table'[q] : Own(q, j)' =>
           \E i \in DOMAIN table[q] : Own(q, i) /\ From(table'[q][j], table[q][i]),
         \A q \in Procs : shmPc'[q] = "unlink" =>
           shmPc[q] = "unlink" /\ call'[q] = call[q]
  PROVE  KeyOK' /\ UnlinkOK'
BY DEF KeyOK, UnlinkOK, From

\* A segment is owned afterwards as it was before.
LEMMA OwnStays ==
  ASSUME NEW q \in Procs, NEW j \in DOMAIN table'[q], NEW i \in DOMAIN table[q],
         From(table'[q][j], table[q][i]), life'[q] = life[q], Own(q, j)'
  PROVE  Own(q, i)
BY DEF Own, From

LEMMA FromSame == \A e : From(e, e)
BY DEF From

LEMMA LifeKeys ==
  ASSUME ShmTypes, PairsOK, KeyOK, UnlinkOK, NEW p \in Procs, ashv_check_pid(p) \/ ProcessGone(p)
  PROVE  KeyOK' /\ UnlinkOK'
<1>1. /\ call \in [Procs -> Calls] /\ table \in [Procs -> Seq(Entries)]
      /\ shmPc \in [Procs -> {"idle", "readlink", "ask", "unlink", "symlink"}]
      /\ life \in [Procs -> 0..MaxProcs]
  BY DEF ShmTypes, ShmTypeOK
<1>2. /\ DOMAIN table'[p] = {} /\ shmPc'[p] = "idle"
      /\ \A q \in Procs \ {p} : UNCHANGED <<life[q], sock[q], call[q], table[q], shmPc[q]>>
      /\ UNCHANGED <<link, raced, misjudged>>
  <2>1. CASE ashv_check_pid(p)
    <3>1. \A q \in Procs \ {p} : UNCHANGED <<life[q], sock[q]>>
      BY <2>1, PidTypes
    <3>2. UNCHANGED <<table, link, call, shmPc, raced, misjudged>> /\ life[p] = 0
      BY <2>1 DEF ashv_check_pid
    <3>3. shmPc[p] = "idle" /\ table[p] = <<>>
      BY <3>2 DEF ShmTypes, InCall
    <3> QED BY <3>1, <3>2, <3>3
  <2>2. CASE ProcessGone(p)
    <3>1. /\ \A q \in Procs \ {p} : UNCHANGED <<life[q], call[q], table[q], shmPc[q]>>
          /\ UNCHANGED <<sock, link, raced, misjudged>> /\ shmPc'[p] = "idle"
      BY <1>1, <2>2 DEF ProcessGone
    <3>2. table'[p] = <<>>
      BY <2>2, GoneTypes
    <3> QED BY <3>1, <3>2
  <2> QED BY <2>1, <2>2
<1>3. \A q \in Procs : \A j \in DOMAIN table'[q] : Own(q, j)' =>
        \E i \in DOMAIN table[q] : Own(q, i) /\ From(table'[q][j], table[q][i])
  BY <1>2, FromSame DEF Own
<1>4. \A q \in Procs : shmPc'[q] = "unlink" => shmPc[q] = "unlink" /\ call'[q] = call[q]
  BY <1>2
<1> QED BY <1>2, <1>3, <1>4, KeyStay

LEMMA TableKeys ==
  ASSUME ShmTypes, PairsOK, KeyOK, UnlinkOK, NEW p \in Procs,
         \/ \E id \in Int : shmat(p, id) \/ shmctl(p, id)
         \/ \E i \in DOMAIN table[p] : shmdt(p, i)
  PROVE  KeyOK' /\ UnlinkOK'
<1>1. /\ call \in [Procs -> Calls]
      /\ shmPc \in [Procs -> {"idle", "readlink", "ask", "unlink", "symlink"}]
  BY DEF ShmTypes, ShmTypeOK
<1>2. UNCHANGED <<life, sock, link, raced, misjudged>>
  BY DEF shmat, shmctl, shmdt
<1>3. /\ \A q \in Procs \ {p} : table'[q] = table[q]
      /\ \A j \in DOMAIN table'[p] : \E i \in DOMAIN table[p] : From(table'[p][j], table[p][i])
  BY TableStep
<1>4. \A q \in Procs : \A j \in DOMAIN table'[q] :
        \E i \in DOMAIN table[q] : From(table'[q][j], table[q][i])
  BY <1>3, FromSame
<1>5. \A q \in Procs : \A j \in DOMAIN table'[q] : Own(q, j)' =>
        \E i \in DOMAIN table[q] : Own(q, i) /\ From(table'[q][j], table[q][i])
  BY <1>2, <1>4, OwnStays
<1>6. \/ UNCHANGED <<shmPc, call>>
      \/ \E id \in Int : /\ shmPc' = [shmPc EXCEPT ![p] = "ask"]
                         /\ call' = [call EXCEPT ![p] = [NoCall EXCEPT !.op = "at", !.id = id]]
  BY DEF shmat, shmctl, shmdt
<1>7. \A q \in Procs : shmPc'[q] = "unlink" => shmPc[q] = "unlink" /\ call'[q] = call[q]
  <2>1. CASE UNCHANGED <<shmPc, call>>
    BY <2>1
  <2>2. ASSUME NEW c, shmPc' = [shmPc EXCEPT ![p] = "ask"], call' = [call EXCEPT ![p] = c]
        PROVE  \A q \in Procs : shmPc'[q] = "unlink" => shmPc[q] = "unlink" /\ call'[q] = call[q]
    BY <1>1, <2>2
  <2> QED BY <1>6, <2>1, <2>2
<1> QED BY <1>2, <1>5, <1>7, KeyStay

LEMMA GetKeys ==
  ASSUME ShmTypes, PairsOK, KeyOK, UnlinkOK, NEW p \in Procs, NEW k \in Keys, shmget(p, k)
  PROVE  KeyOK' /\ UnlinkOK'
<1>1. /\ call \in [Procs -> Calls]
      /\ shmPc \in [Procs -> {"idle", "readlink", "ask", "unlink", "symlink"}]
  BY DEF ShmTypes, ShmTypeOK
<1>2. /\ UNCHANGED <<life, table, link, raced, misjudged>> /\ shmPc' = [shmPc EXCEPT ![p] = "readlink"]
      /\ \A q \in Procs \ {p} : call'[q] = call[q]
  <2>1. \E c : call' = [call EXCEPT ![p] = c]
    BY DEF shmget
  <2> QED BY <1>1, <2>1 DEF shmget
<1>4. \A q \in Procs : \A j \in DOMAIN table'[q] : Own(q, j)' =>
        \E i \in DOMAIN table[q] : Own(q, i) /\ From(table'[q][j], table[q][i])
  BY <1>2, FromSame DEF Own
<1>5. \A q \in Procs : shmPc'[q] = "unlink" => shmPc[q] = "unlink" /\ call'[q] = call[q]
  BY <1>1, <1>2
<1> QED BY <1>2, <1>4, <1>5, KeyStay

LEMMA PrivateKeys ==
  ASSUME ShmTypes, ShmTypes', PairsOK, NewOK, KeyOK, UnlinkOK, NEW p \in Procs, shmgetPrivate(p)
  PROVE  KeyOK' /\ UnlinkOK'
<1> DEFINE id == ashv_shmid_from_counter(sock'[p], NextCounter(p))
           e == Entry(id, Segment(p), Private, FALSE)
<1>1. /\ life[p] # 0 /\ Bind(p) /\ Issue(p) /\ Create(p, id, Segment(p), Private)
      /\ UNCHANGED <<life, started, orphans, link, shmPc, call, raced, misjudged>>
  BY DEF shmgetPrivate, Begin
<1>2. CallTypes /\ LifeTypes
  BY TypesParts
<1>4. id \in Int /\ Segment(p) \in Nat \X Nat
  <2>1. NextCounter(p) \in 0..(CounterMod - 1) /\ issued[p] \in Nat
    BY <1>1, <1>2, IssueType
  <2>2. life[p] \in Nat /\ sock'[p] \in SockIds
    BY <1>1, <1>2, BindLife, ShmemAssumption DEF LifeTypes
  <2> QED BY <2>1, <2>2, IdIs DEF Segment
<1> HIDE DEF id
<1>5. \A q \in Procs : \A i \in DOMAIN table'[q] :
        \/ i \in DOMAIN table[q] /\ table'[q][i] = table[q][i]
        \/ q = p /\ table'[q][i] = e
  <2>1. \A i \in Int, s \in Nat \X Nat, k \in Keys \cup {Private} :
          Create(p, i, s, k) => \A q \in Procs : \A j \in DOMAIN table'[q] :
            \/ j \in DOMAIN table[q] /\ table'[q][j] = table[q][j]
            \/ q = p /\ table'[q][j] = Entry(i, s, k, FALSE)
    BY CreateIs
  <2> QED BY <1>1, <1>4, <2>1
<1>6. e.key \notin Keys /\ e.seg = Segment(p)
  BY ShmemAssumption DEF Entry
<1>7. \A x \in Procs : call[x].seen.seg # Segment(p)
  <2>1. \A x \in Shown : x.seg # Segment(p)
    BY PrivatePairs
  <2>2. NoLink.seg # Segment(p)
    BY <1>1, <1>2, ShmemAssumption DEF NoLink, NoSeg, Segment
  <2> QED BY <2>1, <2>2, InShown
<1> HIDE DEF e
<1>8. ASSUME NEW q \in Procs, NEW j \in DOMAIN table'[q], Own(q, j)'
      PROVE  \/ j \in DOMAIN table[q] /\ table'[q][j] = table[q][j] /\ Own(q, j)
             \/ table'[q][j] = e
  BY <1>1, <1>5, <1>8 DEF Own
<1>9. KeyOK'
  BY <1>1, <1>6, <1>8 DEF KeyOK
<1>10. UnlinkOK'
  BY <1>1, <1>6, <1>7, <1>8 DEF UnlinkOK
<1> QED BY <1>9, <1>10

LEMMA AskFoundKeys ==
  ASSUME ShmTypes, PairsOK, KeyOK, UnlinkOK, NEW p \in Procs, AskFound(p)
  PROVE  KeyOK' /\ UnlinkOK'
<1>1. /\ call \in [Procs -> Calls] /\ table \in [Procs -> Seq(Entries)]
      /\ shmPc \in [Procs -> {"idle", "readlink", "ask", "unlink", "symlink"}]
  BY DEF ShmTypes, ShmTypeOK
<1>2. /\ UNCHANGED <<life, sock, link, raced, misjudged>>
      /\ shmPc' = [shmPc EXCEPT ![p] = "idle"] /\ call' = [call EXCEPT ![p] = NoCall]
  BY DEF AskFound, Return
<1>3. PICK q \in Procs : \E i \in DOMAIN table[q] : \E e \in Entries :
        /\ q # p /\ life[q] # 0 /\ sock[q] = ashv_socket_id_from_shmid(call[p].id)
        /\ e.id = call[p].id /\ From(e, table[q][i])
        /\ table' = [table EXCEPT ![p] = Append(table[p], e)]
  BY AskFoundIs
<1>4. PICK i \in DOMAIN table[q] : \E e \in Entries :
        /\ q # p /\ life[q] # 0 /\ sock[q] = ashv_socket_id_from_shmid(call[p].id)
        /\ e.id = call[p].id /\ From(e, table[q][i])
        /\ table' = [table EXCEPT ![p] = Append(table[p], e)]
  BY <1>3
<1>5. PICK e \in Entries :
        /\ q # p /\ life[q] # 0 /\ sock[q] = ashv_socket_id_from_shmid(call[p].id)
        /\ e.id = call[p].id /\ From(e, table[q][i])
        /\ table' = [table EXCEPT ![p] = Append(table[p], e)]
  BY <1>4
\* The segment is that of the process that had its socket number, which is not p.
<1>6. ~(e.seg[1] = life[p] /\ e.id > 0)
  <2> SUFFICES ASSUME e.seg[1] = life[p], e.id > 0 PROVE FALSE
    OBVIOUS
  <2> DEFINE x == Pair(table[q][i])
  <2>1. x \in Pairs /\ x.id = call[p].id /\ x.seg[1] = life[p] /\ x.id = e.id
    BY <1>5, InShown DEF Pair, From
  <2> HIDE DEF x
  <2>2. Made(x) /\ MadeBy(p, x)
    BY <2>1 DEF PairsOK, Made
  <2>3. sock[p] \in SockIds /\ sock[p] # NoSock
    BY <2>2 DEF MadeBy, ShmTypes, ShmTypeOK
  <2>4. PICK c \in 0..(CounterMod - 1) : x.id = ashv_shmid_from_counter(sock[p], c)
    BY <2>2 DEF MadeBy
  <2>5. ashv_socket_id_from_shmid(x.id) = sock[p]
    <3>1. x.id > 0 /\ x.id \in Int
      BY <2>1, PairsType
    <3>2. x.id >= 0
      BY <3>1
    <3> QED BY <2>3, <2>4, <3>2, IdIs
  <2>6. sock[q] = sock[p] /\ life[p] # 0
    BY <1>5, <2>1, <2>2, <2>5 DEF Made
  <2>7. sock[p] # sock[q]
    BY <1>5, <2>3, <2>6 DEF ShmTypes, ShmTypeOK
  <2> QED BY <2>6, <2>7
<1>7. \A j \in DOMAIN Append(table[p], e) :
        \/ Append(table[p], e)[j] = e
        \/ j \in DOMAIN table[p] /\ Append(table[p], e)[j] = table[p][j]
  <2>1. table[p] \in Seq(Entries)
    BY <1>1
  <2> QED BY <2>1, AppendIs
<1>8. table'[p] = Append(table[p], e) /\ \A r \in Procs \ {p} : table'[r] = table[r]
  BY <1>1, <1>5
<1>9. \A r \in Procs : \A j \in DOMAIN table'[r] : Own(r, j)' =>
        \E m \in DOMAIN table[r] : Own(r, m) /\ From(table'[r][j], table[r][m])
  <2> SUFFICES ASSUME NEW r \in Procs, NEW j \in DOMAIN table'[r], Own(r, j)'
               PROVE  j \in DOMAIN table[r] /\ Own(r, j) /\ From(table'[r][j], table[r][j])
    OBVIOUS
  <2>1. j \in DOMAIN table[r] /\ table'[r][j] = table[r][j]
    BY <1>2, <1>6, <1>7, <1>8 DEF Own
  <2> QED BY <1>2, <2>1, FromSame DEF Own
<1>10. \A r \in Procs : shmPc'[r] = "unlink" => shmPc[r] = "unlink" /\ call'[r] = call[r]
  BY <1>1, <1>2
<1> QED BY <1>2, <1>9, <1>10, KeyStay

\* Where the segments stay as they are, what is left to show is about the link
\* that a process is about to remove.
LEMMA AboutUnlink ==
  ASSUME ShmTypes, KeyOK, UnlinkOK, NEW p \in Procs,
         UNCHANGED <<life, table, link, raced>>, misjudged \subseteq misjudged',
         \A q \in Procs \ {p} : UNCHANGED <<shmPc[q], call[q]>>,
         shmPc'[p] = "unlink" =>
           \A q \in Procs : \A i \in DOMAIN table[q] :
             Own(q, i) /\ table[q][i].key = call'[p].key /\ call'[p].key \notin misjudged'
               => table[q][i].seg # call'[p].seen.seg
  PROVE  KeyOK' /\ UnlinkOK'
<1>1. KeyOK'
  BY DEF KeyOK, Own
<1>2. UnlinkOK'
  <2> SUFFICES ASSUME NEW r \in Procs, shmPc'[r] = "unlink", call'[r].key \notin misjudged',
                      NEW q \in Procs, NEW i \in DOMAIN table[q], Own(q, i),
                      table[q][i].key = call'[r].key
               PROVE  table[q][i].seg # call'[r].seen.seg
    BY DEF UnlinkOK, Own
  <2>1. CASE r = p
    BY <2>1
  <2>2. CASE r # p
    BY <2>2 DEF UnlinkOK
  <2> QED BY <2>1, <2>2
<1> QED BY <1>1, <1>2

\* An answer that is none.
LEMMA NoAnswerIs ==
  ASSUME ShmTypes, NEW p \in Procs, shmPc[p] = "ask", NoAnswer(p)
  PROVE  /\ \A q \in Procs \ {p} : UNCHANGED <<shmPc[q], call[q]>>
         /\ shmPc'[p] = "unlink" =>
              call[p].op = "get" /\ call' = call /\ call[p].id = call[p].seen.id
<1>1. /\ call \in [Procs -> Calls] /\ InCall(p)
      /\ shmPc \in [Procs -> {"idle", "readlink", "ask", "unlink", "symlink"}]
  BY DEF ShmTypes, ShmTypeOK
<1>2. CASE call[p].op = "get"
  <2>1. shmPc' = [shmPc EXCEPT ![p] = "unlink"] /\ UNCHANGED call
    BY <1>2 DEF NoAnswer
  <2> QED BY <1>1, <1>2, <2>1 DEF InCall
<1>3. CASE call[p].op # "get"
  <2>1. shmPc' = [shmPc EXCEPT ![p] = "idle"] /\ call' = [call EXCEPT ![p] = NoCall]
    BY <1>3 DEF NoAnswer, Return
  <2> QED BY <1>1, <2>1
<1> QED BY <1>2, <1>3

\* What the listener does not know belongs to none of the processes.
LEMMA AskFailsKeys ==
  ASSUME ShmTypes, PairsOK, KeyOK, UnlinkOK, NEW p \in Procs, AskFails(p)
  PROVE  KeyOK' /\ UnlinkOK'
<1>1. table \in [Procs -> Seq(Entries)]
  BY DEF ShmTypes
<1>2. shmPc[p] = "ask" /\ NoAnswer(p) /\ UNCHANGED <<life, sock, table, link, raced, misjudged>>
  BY DEF AskFails
<1>3. ASSUME shmPc'[p] = "unlink", NEW q \in Procs, NEW i \in DOMAIN table[q], Own(q, i),
             table[q][i].seg = call'[p].seen.seg
      PROVE  FALSE
  <2> DEFINE x == Pair(table[q][i])
  <2>1. call' = call /\ call[p].id = call[p].seen.id
    BY <1>2, <1>3, NoAnswerIs
  <2>2. /\ life[q] # 0 /\ sock[q] # NoSock /\ x \in Pairs
        /\ sock[q] < Half => ashv_socket_id_from_shmid(table[q][i].id) = sock[q]
        /\ sock[q] < Half <=> table[q][i].id >= 0
        /\ table[q][i].seg # NoSeg
    BY <1>3, OwnMade DEF Own
  <2>3. x.id = table[q][i].id /\ x.seg = table[q][i].seg /\ x.id > 0
    BY <1>3 DEF Pair, Own
  <2> HIDE DEF x
  <2>4. call[p].seen \in Pairs
    <3>1. call[p].seen # NoLink
      BY <1>3, <2>1, <2>2 DEF NoLink
    <3> QED BY <3>1, InShown
  <2>5. x.id = call[p].seen.id
    BY <1>3, <2>1, <2>2, <2>3, <2>4 DEF PairsOK, Distinct
  <2>6. x.id \in Int
    BY <2>2, PairsType
  <2>7. ashv_socket_id_from_shmid(table[q][i].id) = sock[q]
    BY <2>2, <2>3, <2>6
  <2>8. table[q][i].id = call[p].id /\ q \in Asked(p)
    BY <2>1, <2>2, <2>3, <2>5, <2>7 DEF Asked
  <2>9. PICK r \in Procs : Answers(p, r) /\ ashv_find_local_index(r, call[p].id) = 0
    BY <2>8 DEF AskFails
  <2>10. r = q
    <3>1. life[r] # 0 /\ sock[r] = sock[q]
      BY <2>8, <2>9 DEF Answers, Asked
    <3> QED BY <2>2, <3>1 DEF ShmTypes, ShmTypeOK
  <2>11. ashv_find_local_index(q, call[p].id) # 0
    <3>1. table[q] \in Seq(Entries)
      BY <1>1
    <3> QED BY <2>8, <3>1, FindIs
  <2> QED BY <2>9, <2>10, <2>11
<1>4. \A q \in Procs \ {p} : UNCHANGED <<shmPc[q], call[q]>>
  BY <1>2, NoAnswerIs
<1> QED BY <1>2, <1>3, <1>4, AboutUnlink

\* A question that fails for another reason is on record if the segment is there.
LEMMA AskBreaksKeys ==
  ASSUME ShmTypes, KeyOK, UnlinkOK, NEW p \in Procs, AskBreaks(p)
  PROVE  KeyOK' /\ UnlinkOK'
<1>1. shmPc[p] = "ask" /\ NoAnswer(p) /\ UNCHANGED <<life, table, link, raced>>
  BY DEF AskBreaks
<1>2. misjudged' = IF call[p].op = "get" /\ call[p].seen.seg \in OwnSegments(call[p].key)
                   THEN misjudged \cup {call[p].key} ELSE misjudged
  BY DEF AskBreaks
<1>3. misjudged \subseteq misjudged'
  BY <1>2
<1>4. ASSUME shmPc'[p] = "unlink", NEW q \in Procs, NEW i \in DOMAIN table[q], Own(q, i),
             table[q][i].key = call'[p].key, call'[p].key \notin misjudged',
             table[q][i].seg = call'[p].seen.seg
      PROVE  FALSE
  <2>1. call' = call /\ call[p].op = "get"
    BY <1>1, <1>4, NoAnswerIs
  <2>2. call[p].seen.seg \notin OwnSegments(call[p].key)
    BY <1>2, <1>4, <2>1
  <2>3. table[q][i] \in Range(table[q])
    BY DEF Range
  <2>4. call[p].seen.seg \in OwnSegments(call[p].key)
    BY <1>4, <2>1, <2>3 DEF OwnSegments, Own
  <2> QED BY <2>2, <2>4
<1>5. \A q \in Procs \ {p} : UNCHANGED <<shmPc[q], call[q]>>
  BY <1>1, NoAnswerIs
<1> QED BY <1>1, <1>3, <1>4, <1>5, AboutUnlink

LEMMA ReadLinkKeys ==
  ASSUME ShmTypes, PairsOK, KeyOK, UnlinkOK, NEW p \in Procs, ReadLink(p)
  PROVE  KeyOK' /\ UnlinkOK'
<1> DEFINE l == link[call[p].key]
           c == [call[p] EXCEPT !.seen = l, !.id = l.id]
<1>1. /\ call \in [Procs -> Calls] /\ InCall(p) /\ table \in [Procs -> Seq(Entries)]
      /\ shmPc \in [Procs -> {"idle", "readlink", "ask", "unlink", "symlink"}]
  BY DEF ShmTypes, ShmTypeOK
<1>2. shmPc[p] = "readlink" /\ UNCHANGED <<life, sock, table, link, raced, misjudged>>
  BY DEF ReadLink
<1>3. call[p].key \in Keys
  BY <1>1, <1>2 DEF InCall
<1>4. \/ shmPc' = [shmPc EXCEPT ![p] = "symlink"] /\ UNCHANGED call
      \/ Return(p)
      \/ /\ l # NoLink
         /\ shmPc' = [shmPc EXCEPT ![p] = IF l.id = 0 THEN "unlink" ELSE "ask"]
         /\ call' = [call EXCEPT ![p] = c]
  BY <1>1 DEF ReadLink
<1>5. c.seen = l
  BY <1>1 DEF Calls
<1> HIDE DEF c
<1>6. /\ \A q \in Procs \ {p} : UNCHANGED <<shmPc[q], call[q]>>
      /\ shmPc'[p] = "unlink" => l # NoLink /\ l.id = 0 /\ call'[p].seen = l
  <2> HIDE DEF l
  <2> QED BY <1>1, <1>4, <1>5 DEF Return
\* A segment with the id 0 does not count.
<1>7. ASSUME shmPc'[p] = "unlink", NEW q \in Procs, NEW i \in DOMAIN table[q], Own(q, i)
      PROVE  table[q][i].seg # call'[p].seen.seg
  <2> DEFINE x == Pair(table[q][i])
  <2>1. x \in Pairs /\ x.id = table[q][i].id /\ x.seg = table[q][i].seg
    BY InShown DEF Pair
  <2> HIDE DEF x
  <2>2. l \in Pairs /\ l.id = 0
    BY <1>3, <1>6, <1>7, InShown
  <2>3. x.seg = l.seg => x.id = 0
    BY <2>1, <2>2 DEF PairsOK, Distinct
  <2>4. ~(0 > 0)
    OBVIOUS
  <2>5. x.seg # l.seg
    BY <1>7, <2>1, <2>3, <2>4 DEF Own
  <2> QED BY <1>6, <1>7, <2>1, <2>5
<1> QED BY <1>2, <1>6, <1>7, AboutUnlink

\* The file system fails to read a link, or to remove one.
LEMMA RefusedKeys ==
  ASSUME ShmTypes, KeyOK, UnlinkOK, NEW p \in Procs, ReadLinkFails(p) \/ UnlinkFails(p)
  PROVE  KeyOK' /\ UnlinkOK'
<1>1. shmPc \in [Procs -> {"idle", "readlink", "ask", "unlink", "symlink"}]
  BY DEF ShmTypes, ShmTypeOK
<1>2. /\ shmPc' = [shmPc EXCEPT ![p] = "symlink"]
      /\ UNCHANGED <<life, table, link, call, raced, misjudged>>
  BY DEF ReadLinkFails, UnlinkFails
<1>3. /\ \A q \in Procs \ {p} : UNCHANGED <<shmPc[q], call[q]>>
      /\ shmPc'[p] # "unlink"
  BY <1>1, <1>2
<1> QED BY <1>2, <1>3, AboutUnlink

\* A key loses its link: there was none, or the one that was read, whose segment
\* no process owns, or this is a race.
LEMMA UnlinkKeys ==
  ASSUME ShmTypes, PairsOK, KeyOK, UnlinkOK, NEW p \in Procs, Unlink(p)
  PROVE  KeyOK' /\ UnlinkOK'
<1> DEFINE k == call[p].key
<1>1. /\ call \in [Procs -> Calls] /\ link \in [Keys -> Links]
      /\ shmPc \in [Procs -> {"idle", "readlink", "ask", "unlink", "symlink"}]
  BY DEF ShmTypes, ShmTypeOK
<1>2. /\ shmPc[p] = "unlink" /\ UNCHANGED <<life, sock, table, call>>
      /\ shmPc' = [shmPc EXCEPT ![p] = "symlink"] /\ link' = [link EXCEPT ![k] = NoLink]
      /\ raced' = IF link[k] \in {NoLink, call[p].seen} THEN raced ELSE raced \cup {k}
      /\ UNCHANGED misjudged
  BY DEF Unlink
<1>0. k = call[p].key
  OBVIOUS
<1> HIDE DEF k
<1>3. UnlinkOK'
  BY <1>1, <1>2 DEF UnlinkOK, Own
<1>4. KeyOK'
  <2> SUFFICES ASSUME NEW q \in Procs, NEW i \in DOMAIN table[q], Own(q, i),
                      table[q][i].key \in Keys \ (raced \cup misjudged)'
               PROVE  link'[table[q][i].key].seg = table[q][i].seg
    BY <1>2 DEF KeyOK, Own
  <2>1. link[table[q][i].key].seg = table[q][i].seg
    BY <1>2 DEF KeyOK
  <2>2. CASE table[q][i].key # k
    BY <1>1, <1>2, <2>1, <2>2
  <2>3. CASE table[q][i].key = k
    <3>1. link[k] \in {NoLink, call[p].seen}
      BY <1>2, <2>3
    <3>2. link[k] # NoLink
      <4>1. table[q][i].seg # NoSeg
        BY OwnMade DEF Own
      <4> QED BY <2>1, <2>3, <4>1 DEF NoLink
    <3>3. table[q][i].seg # call[p].seen.seg
      BY <1>0, <1>2, <2>3 DEF UnlinkOK
    <3> QED BY <2>1, <2>3, <3>1, <3>2, <3>3
  <2> QED BY <2>2, <2>3
<1> QED BY <1>3, <1>4

\* A segment is made for a key that has none.
LEMMA SymlinkKeys ==
  ASSUME ShmTypes, ShmTypes', PairsOK, NewOK, KeyOK, UnlinkOK, NEW p \in Procs,
         Symlink(p) \/ SymlinkFails(p)
  PROVE  KeyOK' /\ UnlinkOK'
<1> DEFINE k == call[p].key
           n == NewLink(p)
           e == Entry(n.id, n.seg, k, FALSE)
<1>1. /\ UNCHANGED <<life, raced, misjudged>> /\ (Linked(p) \/ Unlinked(p))
      /\ \A q \in Procs \ {p} : UNCHANGED <<call[q], shmPc[q]>>
  BY SymlinkIs
<1>2. CASE Unlinked(p)
  <2>1. UNCHANGED <<link, table>> /\ shmPc'[p] # "unlink"
    BY <1>2 DEF Unlinked
  <2> QED BY <1>1, <2>1, AboutUnlink
<1>3. e.key = k /\ e.seg = n.seg /\ k \in Keys /\ life[p] # 0
  BY NewLinkType DEF Entry
<1>4. \A x \in Shown : x.seg # n.seg
  BY SymlinkPairs
<1>5. CASE Linked(p)
  <2>1. /\ \A q \in Procs : \A i \in DOMAIN table'[q] :
             \/ i \in DOMAIN table[q] /\ table'[q][i] = table[q][i]
             \/ q = p /\ table'[q][i] = e
        /\ link[k] = NoLink /\ \A x \in Keys : link'[x] = IF x = k THEN n ELSE link[x]
        /\ shmPc'[p] # "unlink"
    BY <1>5 DEF Linked
  <2> HIDE DEF e, n, k
  <2>2. ASSUME NEW q \in Procs, NEW j \in DOMAIN table'[q], Own(q, j)'
        PROVE  \/ j \in DOMAIN table[q] /\ table'[q][j] = table[q][j] /\ Own(q, j)
               \/ q = p /\ table'[q][j] = e
    BY <1>1, <2>1, <2>2 DEF Own
  <2>3. KeyOK'
    <3> SUFFICES ASSUME NEW q \in Procs, NEW j \in DOMAIN table'[q], Own(q, j)',
                        table'[q][j].key \in Keys \ (raced \cup misjudged)'
                 PROVE  link'[table'[q][j].key].seg = table'[q][j].seg
      BY DEF KeyOK
    <3>1. CASE j \in DOMAIN table[q] /\ table'[q][j] = table[q][j] /\ Own(q, j)
      <4>1. link[table[q][j].key].seg = table[q][j].seg
        BY <1>1, <3>1 DEF KeyOK
      <4>2. table[q][j].seg # NoSeg
        BY <3>1, OwnMade DEF Own
      <4>3. link[table[q][j].key] # NoLink
        BY <4>1, <4>2 DEF NoLink
      <4> QED BY <2>1, <3>1, <4>1, <4>3
    <3>2. CASE table'[q][j] = e
      BY <1>3, <2>1, <3>2
    <3> QED BY <2>2, <3>1, <3>2
  <2>4. UnlinkOK'
    <3> SUFFICES ASSUME NEW r \in Procs, shmPc'[r] = "unlink", call'[r].key \notin misjudged',
                        NEW q \in Procs, NEW j \in DOMAIN table'[q], Own(q, j)',
                        table'[q][j].key = call'[r].key
                 PROVE  table'[q][j].seg # call'[r].seen.seg
      BY DEF UnlinkOK
    <3>1. r # p /\ shmPc[r] = "unlink" /\ call'[r] = call[r]
      BY <1>1, <2>1
    <3>2. CASE j \in DOMAIN table[q] /\ table'[q][j] = table[q][j] /\ Own(q, j)
      BY <1>1, <3>1, <3>2 DEF UnlinkOK
    <3>3. CASE q = p /\ table'[q][j] = e
      <4>1. e.seg[1] = life[p]
        BY <1>1, <3>3 DEF Own
      <4>2. e.seg # NoLink.seg
        BY <1>3, <4>1 DEF NoLink, NoSeg
      <4> QED BY <1>3, <1>4, <3>1, <3>3, <4>2, InShown
    <3> QED BY <2>2, <3>2, <3>3
  <2> QED BY <2>3, <2>4
<1> QED BY <1>1, <1>2, <1>5

LEMMA KeysInit == ShmInit => KeyOK /\ UnlinkOK
<1> SUFFICES ASSUME ShmInit PROVE KeyOK /\ UnlinkOK
  OBVIOUS
<1>1. \A p \in Procs : DOMAIN table[p] = {} /\ shmPc[p] = "idle"
  BY DEF ShmInit
<1> QED BY <1>1 DEF KeyOK, UnlinkOK

\* The inductive invariant.
ShmInv == ShmTypes /\ PairsOK /\ NewOK /\ KeyOK /\ UnlinkOK

LEMMA ShmInvInit == ShmInit => ShmInv
BY ShmTypesInit, PairsInit, KeysInit DEF ShmInv

LEMMA ShmInvNext == ShmInv /\ [ShmNext]_shmVars => ShmInv'
<1> SUFFICES ASSUME ShmInv, [ShmNext]_shmVars PROVE ShmInv'
  OBVIOUS
<1>0. ShmTypes /\ PairsOK /\ NewOK /\ KeyOK /\ UnlinkOK
  BY DEF ShmInv
<1>1. ShmTypes' /\ PairsOK' /\ NewOK'
  BY <1>0, ShmTypesNext, PairsNext
<1>2. KeyOK' /\ UnlinkOK'
  <2>1. CASE UNCHANGED shmVars
    BY <1>0, <2>1 DEF shmVars, KeyOK, UnlinkOK, Own
  <2>2. CASE ShmNext
    <3>1. PICK p \in Procs :
            \/ ashv_check_pid(p) \/ ProcessGone(p)
            \/ shmgetPrivate(p) \/ \E k \in Keys : shmget(p, k)
            \/ ShmGoOn(p) \/ AskBreaks(p) \/ Refused(p)
            \/ \E id \in KnownIds : shmat(p, id) \/ shmctl(p, id)
            \/ \E i \in DOMAIN table[p] : shmdt(p, i)
      BY <2>2 DEF ShmNext
    <3>2. CASE ashv_check_pid(p) \/ ProcessGone(p)
      BY <1>0, <3>2, LifeKeys
    <3>3. CASE shmgetPrivate(p)
      BY <1>0, <1>1, <3>3, PrivateKeys
    <3>4. CASE \E k \in Keys : shmget(p, k)
      BY <1>0, <3>4, GetKeys
    <3>5. CASE ReadLink(p)
      BY <1>0, <3>5, ReadLinkKeys
    <3>6. CASE AskFound(p)
      BY <1>0, <3>6, AskFoundKeys
    <3>7. CASE AskFails(p)
      BY <1>0, <3>7, AskFailsKeys
    <3>8. CASE Unlink(p)
      BY <1>0, <3>8, UnlinkKeys
    <3>9. CASE Symlink(p) \/ SymlinkFails(p)
      BY <1>0, <1>1, <3>9, SymlinkKeys
    <3>11. CASE AskBreaks(p)
      BY <1>0, <3>11, AskBreaksKeys
    <3>12. CASE ReadLinkFails(p) \/ UnlinkFails(p)
      BY <1>0, <3>12, RefusedKeys
    <3>10. CASE \/ \E id \in KnownIds : shmat(p, id) \/ shmctl(p, id)
                \/ \E i \in DOMAIN table[p] : shmdt(p, i)
      BY <1>0, <3>10, KnownType, TableKeys
    <3> QED BY <3>1, <3>2, <3>3, <3>4, <3>5, <3>6, <3>7, <3>8, <3>9, <3>10, <3>11, <3>12
            DEF ShmGoOn, Refused
  <2> QED BY <2>1, <2>2
<1> QED BY <1>1, <1>2 DEF ShmInv

(***************************************************************************)
(* A key has at most one segment in the tables of the processes that made  *)
(* one for it, whatever calls of other processes come between reading its  *)
(* link, asking for the segment, removing the link and making a new one,   *)
(* and whichever of these fails, unless a process removes another link     *)
(* than the one it has read, or takes the link of a segment that is there  *)
(* for a stale one because asking for it failed.                           *)
(***************************************************************************)
THEOREM KeysAreUnique == ShmSpec => []OneSegmentPerKey
<1>1. ShmInv => OneSegmentPerKey
  <2> SUFFICES ASSUME ShmInv, NEW k \in Keys \ (raced \cup misjudged)
               PROVE  Cardinality(OwnSegments(k)) <= 1
    BY DEF OneSegmentPerKey
  <2>1. OwnSegments(k) \subseteq {link[k].seg}
    <3> SUFFICES ASSUME NEW p \in Procs,
                        NEW e \in Range(table[p]), e.key = k, e.seg[1] = life[p], e.id > 0
                 PROVE  e.seg = link[k].seg
      BY DEF OwnSegments
    <3>1. PICK i \in DOMAIN table[p] : e = table[p][i]
      BY DEF Range
    <3> QED BY <3>1 DEF ShmInv, KeyOK, Own
  <2>2. IsFiniteSet({link[k].seg}) /\ Cardinality({link[k].seg}) = 1
    BY FS_Singleton
  <2>3. IsFiniteSet(OwnSegments(k)) /\ Cardinality(OwnSegments(k)) <= Cardinality({link[k].seg})
    BY <2>1, <2>2, FS_Subset
  <2> QED BY <2>2, <2>3
<1> QED BY <1>1, ShmInvInit, ShmInvNext, PTL DEF ShmSpec

\* What calls that work on the table take out of it.
LEMMA TableLeaves ==
  ASSUME ShmTypes, NEW p \in Procs,
         \/ \E id \in Int : shmat(p, id) \/ shmctl(p, id)
         \/ \E i \in DOMAIN table[p] : shmdt(p, i),
         NEW i \in DOMAIN table[p]
  PROVE  \/ \E j \in DOMAIN table'[p] : table'[p][j].seg = table[p][i].seg
         \/ shmctl(p, table[p][i].id)
         \/ table[p][i].marked \/ Remote(p, table[p][i].id)
<1> DEFINE s == table[p]
           Kept == \E j \in DOMAIN table'[p] : table'[p][j].seg = table[p][i].seg
<1>1. table \in [Procs -> Seq(Entries)] /\ s \in Seq(Entries) /\ i \in DOMAIN s
  BY DEF ShmTypes
<1>2. ASSUME NEW j \in DOMAIN s, NEW e \in Entries, e.seg = s[j].seg,
             table' = [table EXCEPT ![p] = [s EXCEPT ![j] = e]]
      PROVE  Kept
  <2> DEFINE u == [s EXCEPT ![j] = e]
  <2>1. table'[p] = u
    BY <1>1, <1>2
  <2> HIDE DEF s
  <2>2. DOMAIN u = DOMAIN s /\ u[i] = IF i = j THEN e ELSE s[i]
    BY <1>1, <1>2, SetIs
  <2> HIDE DEF u
  <2>3. u[i].seg = s[i].seg
    BY <1>2, <2>2
  <2> QED BY <1>1, <2>1, <2>2, <2>3 DEF s
<1>3. ASSUME NEW j \in DOMAIN s, i # j, table' = [table EXCEPT ![p] = RemoveAt(s, j)]
      PROVE  Kept
  <2>1. table'[p] = RemoveAt(s, j)
    BY <1>1, <1>3
  <2>2. \E m \in DOMAIN RemoveAt(s, j) : RemoveAt(s, j)[m] = s[i]
    <3> HIDE DEF s
    <3> QED BY <1>1, <1>3, RemoveIs
  <2> QED BY <2>1, <2>2
<1>4. ASSUME NEW j \in DOMAIN s, NEW b \in BOOLEAN
      PROVE  /\ [s[j] EXCEPT !.mapped = b] \in Entries /\ [s[j] EXCEPT !.mapped = b].seg = s[j].seg
             /\ [s[j] EXCEPT !.marked = b] \in Entries /\ [s[j] EXCEPT !.marked = b].seg = s[j].seg
  <2>1. s[j] \in Entries
    BY <1>1
  <2> QED BY <2>1 DEF Entries
<1>5. ASSUME UNCHANGED table PROVE Kept
  BY <1>1, <1>5
<1> HIDE DEF Kept
<1>6. ASSUME NEW id \in Int, shmat(p, id) PROVE Kept
  <2> DEFINE j == ashv_find_local_index(p, id)
  <2>1. CASE j # 0
    <3>1. j \in DOMAIN s
      BY <1>1, <2>1, FindIs
    <3>2. table' = [table EXCEPT ![p][j].mapped = TRUE]
      BY <1>6, <2>1 DEF shmat
    <3> HIDE DEF j
    <3> DEFINE e == [s[j] EXCEPT !.mapped = TRUE]
    <3>3. table' = [table EXCEPT ![p] = [s EXCEPT ![j] = e]]
      BY <3>2
    <3>4. e \in Entries /\ e.seg = s[j].seg
      BY <1>4, <3>1
    <3> HIDE DEF e, s
    <3> QED BY <1>2, <3>1, <3>3, <3>4
  <2>2. CASE j = 0
    BY <1>5, <1>6, <2>2 DEF shmat
  <2> QED BY <2>1, <2>2
<1>7. ASSUME NEW id \in Int, shmctl(p, id) PROVE Kept \/ shmctl(p, s[i].id)
  <2> DEFINE j == ashv_find_local_index(p, id)
  <2>1. j \in DOMAIN s /\ s[j].id = id
    BY <1>1, <1>7, FindIs DEF shmctl
  <2>2. table' = [table EXCEPT ![p] = IF s[j].mapped THEN [s EXCEPT ![j].marked = TRUE] ELSE RemoveAt(s, j)]
    BY <1>7 DEF shmctl
  <2> HIDE DEF j
  <2>3. CASE s[j].mapped
    <3> DEFINE e == [s[j] EXCEPT !.marked = TRUE]
    <3>1. table' = [table EXCEPT ![p] = [s EXCEPT ![j] = e]]
      BY <2>2, <2>3
    <3>2. e \in Entries /\ e.seg = s[j].seg
      BY <1>4, <2>1
    <3> HIDE DEF e, s
    <3> QED BY <1>2, <2>1, <3>1, <3>2
  <2>4. CASE ~s[j].mapped /\ i # j
    <3>1. table' = [table EXCEPT ![p] = RemoveAt(s, j)]
      BY <2>2, <2>4
    <3> QED BY <1>3, <2>1, <2>4, <3>1
  <2>5. CASE i = j
    BY <1>7, <2>1, <2>5
  <2> QED BY <2>3, <2>4, <2>5
<1>8. ASSUME NEW j \in DOMAIN s, shmdt(p, j) PROVE Kept \/ s[i].marked \/ Remote(p, s[i].id)
  <2>1. table' = [table EXCEPT ![p] = IF s[j].marked \/ Remote(p, s[j].id)
                                      THEN RemoveAt(s, j) ELSE [s EXCEPT ![j].mapped = FALSE]]
    BY <1>8 DEF shmdt
  <2>2. CASE s[j].marked \/ Remote(p, s[j].id)
    <3>1. table' = [table EXCEPT ![p] = RemoveAt(s, j)]
      BY <2>1, <2>2
    <3>2. i # j => Kept
      BY <1>3, <1>8, <3>1
    <3> QED BY <2>2, <3>2
  <2>3. CASE ~(s[j].marked \/ Remote(p, s[j].id))
    <3> DEFINE e == [s[j] EXCEPT !.mapped = FALSE]
    <3>1. table' = [table EXCEPT ![p] = [s EXCEPT ![j] = e]]
      BY <2>1, <2>3
    <3>2. e \in Entries /\ e.seg = s[j].seg
      BY <1>4, <1>8
    <3> HIDE DEF e, s
    <3> QED BY <1>2, <1>8, <3>1, <3>2
  <2> QED BY <2>2, <2>3
<1> QED BY <1>6, <1>7, <1>8 DEF Kept

\* The tables after the other steps.
LEMMA OthersKeep ==
  ASSUME ShmTypes, NEW p \in Procs,
         \/ shmgetPrivate(p) \/ \E k \in Keys : shmget(p, k)
         \/ ShmGoOn(p) \/ AskBreaks(p) \/ Refused(p)
  PROVE  /\ \A q \in Procs \ {p} : table'[q] = table[q]
         /\ \A i \in DOMAIN table[p] : i \in DOMAIN table'[p] /\ table'[p][i] = table[p][i]
<1>1. table \in [Procs -> Seq(Entries)] /\ table[p] \in Seq(Entries)
  BY DEF ShmTypes
<1>2. ASSUME NEW e \in Entries, table' = [table EXCEPT ![p] = Append(table[p], e)]
      PROVE  /\ \A q \in Procs \ {p} : table'[q] = table[q]
             /\ \A i \in DOMAIN table[p] : i \in DOMAIN table'[p] /\ table'[p][i] = table[p][i]
  <2>1. table'[p] = Append(table[p], e) /\ \A q \in Procs \ {p} : table'[q] = table[q]
    BY <1>1, <1>2
  <2>2. \A j \in DOMAIN table[p] : j \in DOMAIN Append(table[p], e) /\ Append(table[p], e)[j] = table[p][j]
    BY <1>1, AppendIs
  <2> QED BY <2>1, <2>2
<1>3. CASE UNCHANGED table
  BY <1>3
<1>4. ASSUME NEW id \in Int, NEW seg \in Nat \X Nat, NEW key \in Keys \cup {Private},
             Create(p, id, seg, key)
      PROVE  /\ \A q \in Procs \ {p} : table'[q] = table[q]
             /\ \A i \in DOMAIN table[p] : i \in DOMAIN table'[p] /\ table'[p][i] = table[p][i]
  <2> DEFINE e == Entry(id, seg, key, FALSE)
  <2>1. e \in Entries
    BY DEF Entry, Entries
  <2>2. UNCHANGED table \/ table' = [table EXCEPT ![p] = Append(table[p], e)]
    BY <1>4 DEF Create
  <2> HIDE DEF e
  <2> QED BY <1>2, <1>3, <2>1, <2>2
<1>5. CASE shmgetPrivate(p)
  <2> DEFINE id == ashv_shmid_from_counter(sock'[p], NextCounter(p))
  <2>1. /\ life[p] # 0 /\ Bind(p) /\ Issue(p) /\ Create(p, id, Segment(p), Private)
        /\ UNCHANGED <<life, started, orphans>>
    BY <1>5 DEF shmgetPrivate, Begin
  <2>2. CallTypes /\ LifeTypes
    BY TypesParts
  <2>3. NextCounter(p) \in 0..(CounterMod - 1) /\ issued[p] \in Nat
    BY <2>1, <2>2, IssueType
  <2>4. life[p] \in Nat /\ sock'[p] \in SockIds
    BY <2>1, <2>2, BindLife, ShmemAssumption DEF LifeTypes
  <2>5. id \in Int /\ Segment(p) \in Nat \X Nat /\ Private \in Keys \cup {Private}
    BY <2>3, <2>4, IdIs DEF Segment
  <2> HIDE DEF id
  <2> QED BY <1>4, <2>1, <2>5
<1>6. CASE AskFound(p)
  <2>1. \E e \in Entries : table' = [table EXCEPT ![p] = Append(table[p], e)]
    BY <1>6, AskFoundIs
  <2> QED BY <1>2, <2>1
<1>7. CASE Symlink(p) \/ SymlinkFails(p)
  <2>1. /\ NewLink(p).id \in Int /\ NewLink(p).seg \in Nat \X Nat /\ call[p].key \in Keys \cup {Private}
    BY <1>7, NewLinkType
  <2>2. UNCHANGED table \/ Create(p, NewLink(p).id, NewLink(p).seg, call[p].key)
    BY <1>7, SymlinkWays DEF NotLinked
  <2> QED BY <1>3, <1>4, <2>1, <2>2
<1> QED BY <1>3, <1>5, <1>6, <1>7
        DEF shmget, ShmGoOn, ReadLink, AskFails, AskBreaks, Unlink, Refused, ReadLinkFails, UnlinkFails

(***************************************************************************)
(* A segment that others may ask for stays in the table of the process     *)
(* that made it until it is removed there or the process ends: no attach,  *)
(* detach or removal of another segment or by another process takes it     *)
(* away.                                                                   *)
(***************************************************************************)
THEOREM SegmentsStay == ShmSpec => OwnSegmentKept
<1> DEFINE Kept == \A p \in Procs : \A i \in DOMAIN table[p] :
              LET e == table[p][i]
              IN e.seg[1] = life[p] /\ life'[p] = life[p] /\ sock[p] < Half
                   /\ e.seg \notin {f.seg : f \in Range(table'[p])}
                 => e.marked \/ shmctl(p, e.id)
<1>1. ASSUME ShmInv, ShmNext PROVE Kept
  <2>0. ShmTypes /\ PairsOK
    BY <1>1 DEF ShmInv
  <2> SUFFICES ASSUME NEW p \in Procs, NEW i \in DOMAIN table[p],
                      table[p][i].seg[1] = life[p], life'[p] = life[p], sock[p] < Half,
                      \A j \in DOMAIN table'[p] : table'[p][j].seg # table[p][i].seg
               PROVE  table[p][i].marked \/ shmctl(p, table[p][i].id)
    BY DEF Range
  <2>1. PICK q \in Procs :
          \/ ashv_check_pid(q) \/ ProcessGone(q)
          \/ shmgetPrivate(q) \/ \E k \in Keys : shmget(q, k)
          \/ ShmGoOn(q) \/ AskBreaks(q) \/ Refused(q)
          \/ \E id \in KnownIds : shmat(q, id) \/ shmctl(q, id)
          \/ \E j \in DOMAIN table[q] : shmdt(q, j)
    BY <1>1 DEF ShmNext
  <2>2. CASE ashv_check_pid(q)
    BY <2>2 DEF ashv_check_pid
  <2>3. CASE ProcessGone(q)
    <3>1. table \in [Procs -> Seq(Entries)] /\ life \in [Procs -> 0..MaxProcs]
      BY <2>0 DEF ShmTypes, ShmTypeOK
    <3>2. /\ \A r \in Procs \ {q} : table'[r] = table[r]
          /\ life[q] # 0 /\ life'[q] = 0
      BY <2>3, <3>1 DEF ProcessGone
    <3> QED BY <3>2
  <2>4. CASE \/ shmgetPrivate(q) \/ \E k \in Keys : shmget(q, k)
             \/ ShmGoOn(q) \/ AskBreaks(q) \/ Refused(q)
    <3>1. /\ \A r \in Procs \ {q} : table'[r] = table[r]
          /\ \A j \in DOMAIN table[q] : j \in DOMAIN table'[q] /\ table'[q][j] = table[q][j]
      BY <2>0, <2>4, OthersKeep
    <3> QED BY <3>1
  <2>5. CASE \/ \E id \in KnownIds : shmat(q, id) \/ shmctl(q, id)
             \/ \E j \in DOMAIN table[q] : shmdt(q, j)
    <3>1. \/ \E id \in Int : shmat(q, id) \/ shmctl(q, id)
          \/ \E j \in DOMAIN table[q] : shmdt(q, j)
      BY <2>0, <2>5, KnownType
    <3>2. q = p
      BY <2>0, <3>1, TableStep
    <3>3. shmctl(p, table[p][i].id) \/ table[p][i].marked \/ Remote(p, table[p][i].id)
      BY <2>0, <3>1, <3>2, TableLeaves
    <3>4. ~Remote(p, table[p][i].id)
      BY <2>0, OwnMade DEF Remote, ashv_local_socket_id
    <3> QED BY <3>3, <3>4
  <2> QED BY <2>1, <2>2, <2>3, <2>4, <2>5
<1>2. ShmInv /\ [ShmNext]_shmVars => [Kept]_shmVars
  BY <1>1
<1> QED BY <1>2, ShmInvInit, ShmInvNext, PTL DEF ShmSpec, OwnSegmentKept
===============================================================================
