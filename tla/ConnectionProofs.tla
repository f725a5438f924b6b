--------------------------- MODULE ConnectionProofs ---------------------------
(***************************************************************************)
(* Proofs about Connection, for any numbers of connections, buffers, sizes *)
(* of the window and restarts of the X server.                             *)
(***************************************************************************)
EXTENDS Connection, TLAPS

\* Is connection k still to be installed?
Pending(k) ==
  \/ \E i \in DOMAIN workq : workq[i] = AddFd(k)
  \/ mainPc = "install" /\ mainConn = k

\* Each connection is queued once, and no longer when it is at hand.
Numbers ==
  /\ \A i \in DOMAIN workq : workq[i].type = "addFd" => workq[i].arg <= made
  /\ \A i, j \in DOMAIN workq : workq[i] = workq[j] /\ workq[i].type = "addFd" => i = j
  /\ mainPc = "install" => \A i \in DOMAIN workq : workq[i] # AddFd(mainConn)
  /\ mainPc \in {"install", "list"} => mainConn # NoConn

\* An activity without a connection has nothing left of earlier ones, and one
\* whose connection the X server has not installed was not sent anything.
Untold ==
  /\ activityFd = NoConn => told = NoSize /\ buffers = {} /\ toActivity = <<>> /\ ~hungUp
  /\ activityFd # NoConn /\ Pending(activityFd)
       => buffers = {} /\ toActivity = <<>> /\ connFd # activityFd

\* Nothing is left on the list for the next connection.
Emptied ==
  ~tangled => IF inputPc = "empty" THEN connFd = NoConn ELSE connFd = NoConn => registered = {}

\* The list, once the main thread has put the buffer on it that it has sent.
Listed == IF mainPc = "list" THEN registered \cup {root} ELSE registered

\* What the renderer will have is what is listed.
Matches ==
  Established /\ (mainPc = "list" => connFd = mainConn)
    => \A b \in Buffers : EndsWith(buffers, toActivity, b) <=> b \in Listed

Rooted == Established /\ mainPc = "idle" => root \in registered

\* With the types, Numbers and Untold.
PeersInv == Emptied /\ Matches /\ Rooted

-----------------------------------------------------------------------------
(***************************************************************************)
(* Sequences.                                                              *)
(***************************************************************************)
LEMMA AppendIs ==
  ASSUME NEW S, NEW s \in Seq(S), NEW e \in S
  PROVE  /\ Append(s, e) \in Seq(S) /\ Append(s, e) # <<>>
         /\ Len(s) \in Nat /\ Len(Append(s, e)) = Len(s) + 1
         /\ DOMAIN s = 1..Len(s) /\ DOMAIN Append(s, e) = 1..(Len(s) + 1)
         /\ \A i \in 1..Len(s) : Append(s, e)[i] = s[i]
         /\ Append(s, e)[Len(s) + 1] = e
OBVIOUS

LEMMA TailIs ==
  ASSUME NEW S, NEW s \in Seq(S), s # <<>>
  PROVE  /\ Tail(s) \in Seq(S) /\ Head(s) = s[1] /\ s[1] \in S
         /\ Len(s) \in Nat /\ Len(s) > 0 /\ Len(Tail(s)) = Len(s) - 1
         /\ DOMAIN s = 1..Len(s) /\ DOMAIN Tail(s) = 1..(Len(s) - 1)
         /\ \A i \in 1..(Len(s) - 1) : Tail(s)[i] = s[i + 1]
OBVIOUS

\* Which elements an appended sequence, or a tail, has.
LEMMA AppendHas ==
  ASSUME NEW S, NEW s \in Seq(S), NEW e \in S
  PROVE  \A i \in DOMAIN Append(s, e) :
           \/ i \in DOMAIN s /\ Append(s, e)[i] = s[i]
           \/ i = Len(s) + 1 /\ Append(s, e)[i] = e /\ \A j \in DOMAIN s : j < i
<1> DEFINE t == Append(s, e)
           n == Len(s)
<1>1. /\ n \in Nat /\ DOMAIN s = 1..n /\ DOMAIN t = 1..(n + 1)
      /\ \A i \in 1..n : t[i] = s[i]
      /\ t[n + 1] = e
  BY AppendIs
<1> HIDE DEF t, n
<1> SUFFICES ASSUME NEW i \in DOMAIN t
             PROVE  \/ i \in DOMAIN s /\ t[i] = s[i]
                    \/ i = n + 1 /\ t[i] = e /\ \A j \in DOMAIN s : j < i
  BY DEF t, n
<1>2. CASE i = n + 1
  BY <1>1, <1>2
<1>3. CASE i # n + 1
  BY <1>1, <1>3
<1> QED BY <1>2, <1>3

-----------------------------------------------------------------------------
(***************************************************************************)
(* What EndsWith says of a longer and of a shorter sequence of events.     *)
(***************************************************************************)
LEMMA EventKinds ==
  /\ SharedState \in Event
  /\ \A b \in Buffers : AddBuffer(b) \in Event /\ RemoveBuffer(b) \in Event
  /\ \A b, c \in Buffers : /\ SharedState # AddBuffer(b) /\ SharedState # RemoveBuffer(b)
                           /\ AddBuffer(b) # RemoveBuffer(c)
                           /\ b # c => AddBuffer(b) # AddBuffer(c) /\ RemoveBuffer(b) # RemoveBuffer(c)
  /\ \A e \in Event : e = SharedState \/ \E b \in Buffers : e = AddBuffer(b) \/ e = RemoveBuffer(b)
<1>1. \A e \in Event : e = SharedState \/ \E b \in Buffers : e = AddBuffer(b) \/ e = RemoveBuffer(b)
  BY DEF Event, AddBuffer, RemoveBuffer
<1>2. \A b, c \in Buffers : /\ SharedState # AddBuffer(b) /\ SharedState # RemoveBuffer(b)
                            /\ AddBuffer(b) # RemoveBuffer(c)
  BY DEF SharedState, AddBuffer, RemoveBuffer
<1>3. \A b, c \in Buffers : b # c => AddBuffer(b) # AddBuffer(c) /\ RemoveBuffer(b) # RemoveBuffer(c)
  BY DEF AddBuffer, RemoveBuffer
<1> QED BY <1>1, <1>2, <1>3 DEF Event, SharedState, AddBuffer, RemoveBuffer

LEMMA EndsAppend ==
  ASSUME NEW set, NEW s \in Seq(Event), NEW e \in Event, NEW b \in Buffers
  PROVE  EndsWith(set, Append(s, e), b)
           <=> e = AddBuffer(b) \/ (EndsWith(set, s, b) /\ e # RemoveBuffer(b))
<1> DEFINE t == Append(s, e)
           n == Len(s)
<1>1. /\ n \in Nat /\ DOMAIN s = 1..n /\ DOMAIN t = 1..(n + 1)
      /\ \A i \in 1..n : t[i] = s[i]
      /\ t[n + 1] = e
  BY AppendIs
<1>0. AddBuffer(b) # RemoveBuffer(b)
  BY EventKinds
<1> HIDE DEF t, n
<1>2. n + 1 \in DOMAIN t /\ \A i \in 1..n : i \in DOMAIN t /\ n + 1 > i
  BY <1>1
<1>3. \A j \in DOMAIN t : j \in 1..n \/ j = n + 1
  BY <1>1
<1>4. CASE e = AddBuffer(b)
  <2>1. \A j \in DOMAIN t : ~(j > n + 1)
    BY <1>1
  <2> QED BY <1>1, <1>2, <1>4, <2>1 DEF EndsWith, t
<1>5. CASE e = RemoveBuffer(b)
  BY <1>0, <1>1, <1>2, <1>3, <1>5 DEF EndsWith, t
<1>6. CASE e # AddBuffer(b) /\ e # RemoveBuffer(b)
  <2>1. (\A i \in DOMAIN t : t[i] # RemoveBuffer(b)) <=> (\A i \in DOMAIN s : s[i] # RemoveBuffer(b))
    BY <1>1, <1>2, <1>3, <1>6
  <2>2. ASSUME NEW i \in 1..n
        PROVE  (\A j \in DOMAIN t : j > i => t[j] # RemoveBuffer(b))
                 <=> (\A j \in DOMAIN s : j > i => s[j] # RemoveBuffer(b))
    BY <1>1, <1>2, <1>3, <1>6
  <2>3. (\E i \in DOMAIN t : t[i] = AddBuffer(b) /\ \A j \in DOMAIN t : j > i => t[j] # RemoveBuffer(b))
          <=> (\E i \in DOMAIN s : s[i] = AddBuffer(b) /\ \A j \in DOMAIN s : j > i => s[j] # RemoveBuffer(b))
    BY <1>1, <1>2, <1>3, <1>6, <2>2
  <2> QED BY <1>6, <2>1, <2>3 DEF EndsWith, t
<1> QED BY <1>4, <1>5, <1>6

\* The renderer takes the first event.
LEMMA EndsTail ==
  ASSUME NEW set, NEW s \in Seq(Event), s # <<>>, NEW b \in Buffers
  PROVE  EndsWith(Applied(set, Head(s)), Tail(s), b) <=> EndsWith(set, s, b)
<1> DEFINE t == Tail(s)
           n == Len(s)
           a == Applied(set, s[1])
<1>1. /\ n \in Nat /\ n > 0 /\ DOMAIN s = 1..n /\ DOMAIN t = 1..(n - 1) /\ Head(s) = s[1]
      /\ s[1] \in Event
      /\ \A i \in 1..(n - 1) : t[i] = s[i + 1]
  BY TailIs
<1>2. /\ s[1] = AddBuffer(b) => b \in a
      /\ s[1] = RemoveBuffer(b) => b \notin a
      /\ s[1] # AddBuffer(b) /\ s[1] # RemoveBuffer(b) => (b \in a <=> b \in set)
  BY <1>1, EventKinds DEF Applied, AddBuffer, RemoveBuffer, SharedState
<1>3. AddBuffer(b) # RemoveBuffer(b)
  BY EventKinds
<1> HIDE DEF t, n, a
<1>4. \A i \in DOMAIN t : i + 1 \in DOMAIN s /\ s[i + 1] = t[i] /\ i + 1 > 1
  BY <1>1
<1>5. \A i \in DOMAIN s : i = 1 \/ (i - 1 \in DOMAIN t /\ t[i - 1] = s[i])
  BY <1>1
<1>6. 1 \in DOMAIN s /\ \A i \in DOMAIN s : i > 1 <=> i # 1
  BY <1>1
<1>7. (\A i \in DOMAIN t : t[i] # RemoveBuffer(b))
        <=> (\A i \in DOMAIN s : i > 1 => s[i] # RemoveBuffer(b))
  BY <1>4, <1>5, <1>6
<1>8. ASSUME NEW i \in DOMAIN t
      PROVE  (\A j \in DOMAIN t : j > i => t[j] # RemoveBuffer(b))
               <=> (\A j \in DOMAIN s : j > i + 1 => s[j] # RemoveBuffer(b))
  <2>1. ASSUME NEW j \in DOMAIN s, j > i + 1 PROVE j - 1 \in DOMAIN t /\ j - 1 > i /\ t[j - 1] = s[j]
    BY <1>1, <2>1
  <2>2. ASSUME NEW j \in DOMAIN t, j > i PROVE j + 1 \in DOMAIN s /\ j + 1 > i + 1 /\ s[j + 1] = t[j]
    BY <1>1, <2>2
  <2> QED BY <2>1, <2>2
<1> DEFINE P(i) == s[i] = AddBuffer(b) /\ \A j \in DOMAIN s : j > i => s[j] # RemoveBuffer(b)
           Q(i) == t[i] = AddBuffer(b) /\ \A j \in DOMAIN t : j > i => t[j] # RemoveBuffer(b)
<1>9. (\E i \in DOMAIN t : Q(i)) <=> (\E i \in DOMAIN s : i # 1 /\ P(i))
  <2>1. ASSUME NEW i \in DOMAIN t, Q(i) PROVE \E k \in DOMAIN s : k # 1 /\ P(k)
    <3>1. i + 1 \in DOMAIN s /\ i + 1 # 1 /\ P(i + 1)
      BY <1>4, <1>6, <1>8, <2>1
    <3> QED BY <3>1
  <2>2. ASSUME NEW i \in DOMAIN s, i # 1, P(i) PROVE \E k \in DOMAIN t : Q(k)
    <3>1. i - 1 \in DOMAIN t /\ t[i - 1] = s[i] /\ (i - 1) + 1 = i
      BY <1>1, <1>5, <2>2
    <3>2. Q(i - 1)
      BY <1>8, <2>2, <3>1
    <3> QED BY <3>1, <3>2
  <2> QED BY <2>1, <2>2
<1>10. EndsWith(a, t, b) <=> (b \in a /\ \A i \in DOMAIN t : t[i] # RemoveBuffer(b)) \/ \E i \in DOMAIN t : Q(i)
  BY DEF EndsWith
<1>11. EndsWith(set, s, b) <=> (b \in set /\ \A i \in DOMAIN s : s[i] # RemoveBuffer(b)) \/ \E i \in DOMAIN s : P(i)
  BY DEF EndsWith
<1>12. P(1) <=> s[1] = AddBuffer(b) /\ \A i \in DOMAIN t : t[i] # RemoveBuffer(b)
  BY <1>7
<1>13. (\A i \in DOMAIN s : s[i] # RemoveBuffer(b))
         <=> s[1] # RemoveBuffer(b) /\ \A i \in DOMAIN t : t[i] # RemoveBuffer(b)
  BY <1>6, <1>7
<1>14. (\E i \in DOMAIN s : P(i)) <=> P(1) \/ \E i \in DOMAIN s : i # 1 /\ P(i)
  BY <1>6
<1>15. EndsWith(a, t, b) <=> EndsWith(set, s, b)
  <2> HIDE DEF P, Q
  <2> QED BY <1>2, <1>3, <1>9, <1>10, <1>11, <1>12, <1>13, <1>14
<1> QED BY <1>1, <1>15 DEF a, t

LEMMA EndsEmpty ==
  ASSUME NEW set, NEW b
  PROVE  EndsWith(set, <<>>, b) <=> b \in set
<1>1. DOMAIN <<>> = {}
  OBVIOUS
<1> QED BY <1>1 DEF EndsWith

\* Received speaks of the same buffers as EndsWith.
LEMMA ReceivedIs ==
  ASSUME buffers \subseteq Buffers, toActivity \in Seq(Event)
  PROVE  /\ Received \subseteq Buffers
         /\ \A b \in Buffers : b \in Received <=> EndsWith(buffers, toActivity, b)
<1>1. \A i \in DOMAIN toActivity : toActivity[i] \in Event
  OBVIOUS
<1>2. ASSUME NEW b \in Received PROVE b \in Buffers
  <2>1. CASE b \in buffers
    BY <2>1
  <2>2. CASE b \notin buffers
    <3>1. PICK i \in DOMAIN toActivity : toActivity[i] = AddBuffer(b)
      BY <2>2 DEF Received, EndsWith
    <3>2. AddBuffer(b) \in Event /\ AddBuffer(b).type = "add" /\ AddBuffer(b).arg = b
      BY <1>1, <3>1 DEF AddBuffer
    <3> QED BY <3>2 DEF Event, SharedState
  <2> QED BY <2>1, <2>2
<1>3. ASSUME NEW b \in Buffers, EndsWith(buffers, toActivity, b)
      PROVE  b \in buffers \cup {toActivity[i].arg : i \in DOMAIN toActivity}
  BY <1>3 DEF EndsWith, AddBuffer
<1> QED BY <1>2, <1>3 DEF Received

-----------------------------------------------------------------------------
(***************************************************************************)
(* Types and numbers.                                                      *)
(***************************************************************************)
LEMMA WorkKinds ==
  ASSUME NEW w \in Work
  PROVE  /\ w.type = "addFd" => w.arg \in Conns /\ w = AddFd(w.arg)
         /\ w.type = "size" => w.arg \in Sizes /\ w = Resize(w.arg)
         /\ w.type \in {"addFd", "size"}
BY DEF Work, AddFd, Resize

LEMMA TypeInit == Init => TypeOK /\ Numbers
<1> SUFFICES ASSUME Init PROVE TypeOK /\ Numbers
  OBVIOUS
<1>1. /\ workq = <<>> /\ workq \in Seq(Work) /\ toActivity \in Seq(Event) /\ toServer \in Seq(Sizes)
      /\ DOMAIN workq = {}
  BY DEF Init, ServerInit
<1>2. TypeOK
  <2>1. /\ made \in 0..MaxConns /\ deaths \in 0..MaxDeaths
        /\ connFd \in 0..made /\ activityFd \in {NoConn, made} /\ mainConn \in 0..made
        /\ inputConn \in 0..made /\ watched \subseteq 1..made
    BY ConnectionAssumption DEF Init, ServerInit, NoConn
  <2>2. (inputPc = "idle") = (inputConn = NoConn)
    BY DEF Init, ServerInit
  <2>3. /\ root \in Buffers /\ registered \subseteq {root} /\ buffers \subseteq Buffers
        /\ screen \in {NoSize} \cup Sizes /\ told \in {NoSize} \cup Sizes
    BY DEF Init, ServerInit, Buffers
  <2> QED BY <1>1, <2>1, <2>2, <2>3 DEF Init, ServerInit, TypeOK
<1> QED BY <1>1, <1>2 DEF Numbers, Init, ServerInit

\* What Written leaves.
LEMMA WrittenType ==
  ASSUME toActivity \in Seq(Event), NEW fd, NEW e \in Event
  PROVE  Written(fd, e) \in Seq(Event)
BY AppendIs DEF Written

\* Taking the first work from the queue.
LEMMA NumbersTail ==
  ASSUME TypeOK, Numbers, workq # <<>>, workq' = Tail(workq), UNCHANGED made
  PROVE  /\ workq' \in Seq(Work) /\ Head(workq) \in Work
         /\ Head(workq).type = "addFd" => Head(workq).arg \in 1..made
         /\ \A i \in DOMAIN workq' : i + 1 \in DOMAIN workq /\ workq'[i] = workq[i + 1]
         /\ \A i \in DOMAIN workq' : workq'[i].type = "addFd" => workq'[i].arg <= made
         /\ \A i, j \in DOMAIN workq' : workq'[i] = workq'[j] /\ workq'[i].type = "addFd" => i = j
         /\ Head(workq).type = "addFd" => \A i \in DOMAIN workq' : workq'[i] # Head(workq)
<1>1. workq \in Seq(Work) /\ made \in Nat
  BY DEF TypeOK
<1>2. /\ Tail(workq) \in Seq(Work) /\ Head(workq) = workq[1] /\ workq[1] \in Work
      /\ Len(workq) \in Nat /\ Len(workq) > 0
      /\ DOMAIN workq = 1..Len(workq) /\ DOMAIN Tail(workq) = 1..(Len(workq) - 1)
      /\ \A i \in 1..(Len(workq) - 1) : Tail(workq)[i] = workq[i + 1]
  BY <1>1, TailIs
<1> DEFINE t == workq'
<1>3. /\ DOMAIN t = 1..(Len(workq) - 1) /\ 1 \in DOMAIN workq
      /\ \A i \in DOMAIN t : i \in Nat /\ i + 1 \in DOMAIN workq /\ t[i] = workq[i + 1] /\ i + 1 # 1
  BY <1>2
<1> HIDE DEF t
<1>4. \A i \in DOMAIN t : t[i].type = "addFd" => t[i].arg <= made
  BY <1>3 DEF Numbers
<1>5. ASSUME NEW i \in DOMAIN t, NEW j \in DOMAIN t, t[i] = t[j], t[i].type = "addFd" PROVE i = j
  <2>1. i + 1 = j + 1
    BY <1>3, <1>5 DEF Numbers
  <2> QED BY <1>3, <2>1
<1>6. ASSUME workq[1].type = "addFd", NEW i \in DOMAIN t PROVE t[i] # workq[1]
  BY <1>3, <1>6 DEF Numbers
<1>7. workq[1].type = "addFd" => workq[1].arg \in 1..made
  <2> SUFFICES ASSUME workq[1].type = "addFd" PROVE workq[1].arg \in 1..made
    OBVIOUS
  <2>1. workq[1].arg \in Conns
    BY <1>2, WorkKinds
  <2>2. workq[1].arg <= made
    BY <1>3 DEF Numbers
  <2> QED BY <1>1, <2>1, <2>2 DEF Conns
<1> QED BY <1>2, <1>3, <1>4, <1>5, <1>6, <1>7 DEF t

LEMMA TypeNext == TypeOK /\ Numbers /\ [Next]_vars => (TypeOK /\ Numbers)'
<1> SUFFICES ASSUME TypeOK, Numbers, [Next]_vars PROVE (TypeOK /\ Numbers)'
  OBVIOUS
<1>0. /\ made \in 0..MaxConns /\ made \in Nat /\ MaxConns \in Nat
      /\ workq \in Seq(Work) /\ toActivity \in Seq(Event) /\ toServer \in Seq(Sizes)
      /\ root \in Buffers
  BY ConnectionAssumption DEF TypeOK
<1>1. CASE addFd
  <2>1. /\ workq # <<>> /\ workq' = Tail(workq) /\ UNCHANGED made
        /\ Head(workq).type = "addFd" /\ mainConn' = Head(workq).arg
        /\ mainPc' = "install"
    BY <1>1 DEF addFd, countVars
  <2>2. mainConn' \in 1..made /\ AddFd(mainConn') = Head(workq)
    BY <2>1, NumbersTail, WorkKinds
  <2>3. Numbers'
    BY <2>1, <2>2, NumbersTail DEF Numbers, NoConn
  <2>4. TypeOK'
    <3>1. workq' \in Seq(Work) /\ mainConn' \in 0..made /\ watched' \subseteq 1..made
      <4>1. watched' = watched \cup {mainConn'}
        BY <1>1, <2>1 DEF addFd
      <4>2. mainConn' \in 0..made
        BY <1>0, <2>2
      <4>3. watched \subseteq 1..made
        BY DEF TypeOK
      <4>4. workq' \in Seq(Work)
        BY <2>1, NumbersTail
      <4> QED BY <2>2, <4>1, <4>2, <4>3, <4>4
    <3>2. /\ UNCHANGED <<connFd, registered, root, screen, inputPc, inputConn, activityFd, hungUp>>
          /\ UNCHANGED <<state, buffers, told, notice, toActivity, toServer, made, deaths, tangled>>
      BY <1>1 DEF addFd, serverVars, activityVars, netVars, countVars
    <3> QED BY <2>1, <3>1, <3>2 DEF TypeOK
  <2> QED BY <2>3, <2>4
<1>2. CASE InstallFd
  BY <1>2 DEF InstallFd, TypeOK, Numbers, inputVars, activityVars, netVars, countVars
<1>3. CASE lorieSendSharedServerState
  <2>1. toActivity' \in Seq(Event)
    BY <1>0, <1>3, EventKinds, WrittenType DEF lorieSendSharedServerState
  <2> QED BY <1>3, <2>1
      DEF lorieSendSharedServerState, TypeOK, Numbers, serverVars, inputVars, activityVars, countVars
<1>4. CASE lorieRegisterBuffer
  <2>1. toActivity' \in Seq(Event)
    BY <1>0, <1>4, EventKinds, WrittenType DEF lorieRegisterBuffer
  <2>2. CASE connFd = NoConn \/ root \in registered
    BY <1>4, <2>1, <2>2
    DEF lorieRegisterBuffer, TypeOK, Numbers, serverVars, inputVars, activityVars, countVars, NoConn
  <2>3. CASE ~(connFd = NoConn \/ root \in registered)
    BY <1>4, <2>1, <2>3
    DEF lorieRegisterBuffer, TypeOK, Numbers, serverVars, inputVars, activityVars, countVars, NoConn
  <2> QED BY <2>2, <2>3
<1>5. CASE LorieBuffer_addToList
  BY <1>5 DEF LorieBuffer_addToList, TypeOK, Numbers, inputVars, activityVars, netVars, countVars, NoConn
<1>6. CASE lorieConfigureNotify
  <2>1. /\ workq # <<>> /\ workq' = Tail(workq) /\ UNCHANGED <<made, mainConn>>
        /\ Head(workq).type = "size" /\ screen' = Head(workq).arg
        /\ mainPc = "idle" /\ mainPc' \in {"idle", "register"}
    BY <1>6 DEF lorieConfigureNotify, ReplaceRoot, countVars
  <2>2. screen' \in Sizes
    BY <2>1, NumbersTail, WorkKinds
  <2>3. Numbers'
    BY <2>1, NumbersTail DEF Numbers
  <2>4. toActivity' \in Seq(Event) /\ root' \in Buffers /\ registered' \subseteq {root'}
    <3>1. CASE Head(workq).arg = screen
      BY <1>0, <1>6, <3>1 DEF lorieConfigureNotify, TypeOK
    <3>2. CASE Head(workq).arg # screen
      <4>1. toActivity' \in Seq(Event)
        BY <1>0, <1>6, <3>2, EventKinds, WrittenType DEF lorieConfigureNotify, ReplaceRoot
      <4>2. root' \in Buffers
        BY <1>0, <1>6, <3>2 DEF lorieConfigureNotify, ReplaceRoot, Buffers
      <4>3. registered' = {}
        BY <1>6, <3>2 DEF lorieConfigureNotify, ReplaceRoot, TypeOK
      <4> QED BY <4>1, <4>2, <4>3
    <3> QED BY <3>1, <3>2
  <2>5. TypeOK'
    BY <1>6, <2>1, <2>2, <2>4, NumbersTail
    DEF lorieConfigureNotify, TypeOK, inputVars, activityVars, countVars
  <2> QED BY <2>3, <2>5
<1>7. CASE ReadScreenSize
  <2> DEFINE w == Resize(Head(toServer))
  <2>1. workq' = Append(workq, w) /\ toServer # <<>> /\ toServer' = Tail(toServer) /\ UNCHANGED <<made, mainVars>>
    BY <1>7 DEF ReadScreenSize, countVars
  <2>2. w \in Work /\ w.type = "size" /\ toServer' \in Seq(Sizes)
    <3>1. Head(toServer) \in Sizes /\ Tail(toServer) \in Seq(Sizes)
      BY <1>0, <2>1
    <3> QED BY <2>1, <3>1 DEF Work, Resize
  <2> HIDE DEF w
  <2>3. Numbers'
    <3>1. \A i \in DOMAIN workq' : workq'[i] = w \/ (i \in DOMAIN workq /\ workq'[i] = workq[i])
      BY <1>0, <2>1, <2>2, AppendHas
    <3>2. \A k : w # AddFd(k)
      BY <2>2 DEF AddFd
    <3> QED BY <2>1, <2>2, <3>1, <3>2 DEF Numbers, mainVars
  <2>4. workq' \in Seq(Work)
    BY <1>0, <2>1, <2>2, AppendIs
  <2>5. TypeOK'
    BY <1>7, <2>2, <2>4 DEF ReadScreenSize, TypeOK, serverVars, inputVars, mainVars, activityVars, countVars
  <2> QED BY <2>3, <2>5
<1>8. ASSUME NEW k \in Conns, HangUp(k) PROVE (TypeOK /\ Numbers)'
  BY <1>8 DEF HangUp, TypeOK, Numbers, serverVars, mainVars, activityVars, netVars, countVars, NoConn, Conns
<1>9. CASE ResetFd
  BY <1>9 DEF ResetFd, TypeOK, Numbers, mainVars, activityVars, netVars, countVars, NoConn
<1>10. CASE EmptyList
  BY <1>10 DEF EmptyList, TypeOK, Numbers, mainVars, activityVars, netVars, countVars, NoConn
<1>11. CASE xcallback
  <2>1. toActivity # <<>> /\ toActivity' = Tail(toActivity) /\ buffers' = Applied(buffers, Head(toActivity))
    BY <1>11 DEF xcallback
  <2>2. toActivity' \in Seq(Event) /\ Head(toActivity) \in Event
    BY <1>0, <2>1
  <2>3. buffers' \subseteq Buffers
    BY <2>1, <2>2 DEF TypeOK, Event, SharedState, Applied
  <2> QED BY <1>11, <2>2, <2>3
      DEF xcallback, TypeOK, Numbers, serverVars, inputVars, mainVars, countVars
<1>12. ASSUME NotConnected, UNCHANGED <<serverVars, inputVars, mainVars, workq, countVars, tangled>>,
              notice' \in BOOLEAN
       PROVE  (TypeOK /\ Numbers)'
  <2>1. toActivity' \in Seq(Event) /\ toServer' \in Seq(Sizes)
    BY <1>12 DEF NotConnected
  <2> QED BY <1>12, <2>1 DEF NotConnected, TypeOK, Numbers, serverVars, inputVars, mainVars, countVars
<1>13. CASE xcallbackHangUp \/ ActivityGone \/ DeathNotice
  BY <1>12, <1>13 DEF xcallbackHangUp, ActivityGone, DeathNotice, TypeOK
<1>14. CASE tryConnect
  <2> DEFINE w == AddFd(made + 1)
  <2>1. workq' = Append(workq, w) /\ made' = made + 1 /\ UNCHANGED mainVars /\ made < MaxConns
    BY <1>14 DEF tryConnect
  <2>2. w \in Work /\ w.arg = made + 1
    BY <1>0, <2>1 DEF Work, AddFd, Conns
  <2> HIDE DEF w
  <2>3. \A i \in DOMAIN workq' :
          \/ i \in DOMAIN workq /\ workq'[i] = workq[i]
          \/ i = Len(workq) + 1 /\ workq'[i] = w
    BY <1>0, <2>1, <2>2, AppendHas
  <2>4. \A i \in DOMAIN workq : workq[i] # w
    BY <1>0, <2>2 DEF Numbers, w, AddFd
  <2>5. mainConn < made + 1
    BY DEF TypeOK
  <2>6. \A i \in DOMAIN workq' : workq'[i].type = "addFd" => workq'[i].arg <= made + 1
    <3>1. \A i \in DOMAIN workq : workq[i].type = "addFd" => workq[i].arg <= made + 1
      <4> SUFFICES ASSUME NEW i \in DOMAIN workq, workq[i].type = "addFd" PROVE workq[i].arg <= made + 1
        OBVIOUS
      <4>1. workq[i] \in Work /\ workq[i].arg <= made
        BY <1>0 DEF Numbers
      <4>2. workq[i].arg \in Conns
        BY <4>1, WorkKinds
      <4> QED BY <1>0, <4>1, <4>2 DEF Conns
    <3> QED BY <1>0, <2>2, <2>3, <3>1
  <2>7. \A i, j \in DOMAIN workq' : workq'[i] = workq'[j] /\ workq'[i].type = "addFd" => i = j
    BY <2>3, <2>4 DEF Numbers
  <2>8. mainPc = "install" => \A i \in DOMAIN workq' : workq'[i] # AddFd(mainConn)
    <3>1. w # AddFd(mainConn)
      BY <1>0, <2>5 DEF w, AddFd, TypeOK
    <3> QED BY <2>3, <3>1 DEF Numbers
  <2>9. Numbers'
    BY <2>1, <2>6, <2>7, <2>8 DEF Numbers, mainVars
  <2>10. workq' \in Seq(Work)
    BY <1>0, <2>1, <2>2, AppendIs
  <2>11. TypeOK'
    BY <1>0, <1>14, <2>10 DEF tryConnect, TypeOK, serverVars, inputVars, mainVars, netVars, NoConn
  <2> QED BY <2>9, <2>11
<1>15. ASSUME NEW s \in Sizes, sendWindowChange(s) PROVE (TypeOK /\ Numbers)'
  <2>1. toServer' \in Seq(Sizes)
    BY <1>0, <1>15, AppendIs DEF sendWindowChange
  <2> QED BY <1>15, <2>1 DEF sendWindowChange, TypeOK, Numbers, serverVars, inputVars, mainVars, countVars
<1>16. CASE ServerRestart
  <2>1. workq' = <<>> /\ DOMAIN workq' = {} /\ workq' \in Seq(Work) /\ toActivity' \in Seq(Event) /\ toServer' \in Seq(Sizes)
    BY <1>16 DEF ServerRestart
  <2>2. deaths' \in 0..MaxDeaths
    BY <1>16, ConnectionAssumption DEF ServerRestart, TypeOK
  <2>3. TypeOK'
    <3>1. /\ connFd' \in 0..made /\ mainConn' \in 0..made /\ inputConn' \in 0..made
          /\ watched' \subseteq 1..made /\ UNCHANGED <<made, activityFd, state, buffers, told>>
      BY <1>0, <1>16 DEF ServerRestart, NoConn
    <3>2. (inputPc' = "idle") = (inputConn' = NoConn)
      BY <1>16 DEF ServerRestart
    <3>3. root' \in Buffers /\ registered' \subseteq {root'} /\ screen' \in {NoSize} \cup Sizes
      BY <1>16 DEF ServerRestart, Buffers
    <3>4. hungUp' \in BOOLEAN /\ (hungUp' => activityFd' # NoConn)
      BY <1>16 DEF ServerRestart
    <3> QED BY <1>16, <2>1, <2>2, <3>1, <3>2, <3>3, <3>4 DEF ServerRestart, TypeOK
  <2> QED BY <1>16, <2>1, <2>3 DEF ServerRestart, Numbers
<1>17. CASE UNCHANGED vars
  BY <1>17 DEF vars, TypeOK, Numbers, serverVars, inputVars, mainVars, activityVars, netVars, countVars
<1> QED BY <1>1, <1>2, <1>3, <1>4, <1>5, <1>6, <1>7, <1>8, <1>9, <1>10, <1>11, <1>13, <1>14, <1>15,
           <1>16, <1>17
    DEF Next, MainStep, InputStep, ActivityStep

\* The types of the variables of both ends and of the way between them
\* (cmdentrypoint.c, activity.c).
THEOREM TypeCorrect == Spec => []TypeOK
<1> QED BY TypeInit, TypeNext, PTL DEF Spec

-----------------------------------------------------------------------------
(***************************************************************************)
(* Sizes.                                                                  *)
(***************************************************************************)
LEMMA SettlesAppend ==
  ASSUME NEW size, NEW q \in Seq(Work), NEW s, NEW w \in Work,
         w = Resize(s) \/ (w.type # "size" /\ Settles(size, q, s))
  PROVE  Settles(size, Append(q, w), s)
<1> DEFINE t == Append(q, w)
           n == Len(q)
<1>1. /\ n \in Nat /\ DOMAIN q = 1..n /\ DOMAIN t = 1..(n + 1)
      /\ \A i \in 1..n : t[i] = q[i]
      /\ t[n + 1] = w
  BY AppendIs
<1> HIDE DEF t, n
<1>2. \A j \in DOMAIN t : j \in DOMAIN q \/ j = n + 1
  BY <1>1
<1>3. n + 1 \in DOMAIN t /\ \A j \in DOMAIN t : ~(j > n + 1)
  BY <1>1
<1>4. CASE w = Resize(s)
  BY <1>1, <1>3, <1>4 DEF Settles, t
<1>5. CASE w.type # "size" /\ Settles(size, q, s)
  <2>1. CASE size = s /\ \A i \in DOMAIN q : q[i].type # "size"
    BY <1>1, <1>2, <1>5, <2>1 DEF Settles, t
  <2>2. CASE \E i \in DOMAIN q : q[i] = Resize(s) /\ \A j \in DOMAIN q : j > i => q[j].type # "size"
    <3>1. PICK i \in DOMAIN q : q[i] = Resize(s) /\ \A j \in DOMAIN q : j > i => q[j].type # "size"
      BY <2>2
    <3>2. i \in DOMAIN t /\ t[i] = Resize(s)
      BY <1>1, <3>1
    <3>3. \A j \in DOMAIN t : j > i => t[j].type # "size"
      BY <1>1, <1>2, <1>5, <3>1
    <3> QED BY <3>2, <3>3 DEF Settles, t
  <2> QED BY <1>5, <2>1, <2>2 DEF Settles
<1> QED BY <1>4, <1>5

\* The main thread does the first work.
LEMMA SettlesTail ==
  ASSUME NEW size, NEW size1, NEW q \in Seq(Work), q # <<>>, NEW s, Settles(size, q, s),
         IF Head(q).type = "size" THEN size1 = Head(q).arg ELSE size1 = size
  PROVE  Settles(size1, Tail(q), s)
<1> DEFINE t == Tail(q)
           n == Len(q)
<1>1. /\ n \in Nat /\ n > 0 /\ DOMAIN q = 1..n /\ DOMAIN t = 1..(n - 1) /\ Head(q) = q[1]
      /\ \A i \in 1..(n - 1) : t[i] = q[i + 1]
  BY TailIs
<1> HIDE DEF t, n
<1>2. /\ \A i \in DOMAIN t : i + 1 \in DOMAIN q /\ t[i] = q[i + 1] /\ i + 1 > 1
      /\ 1 \in DOMAIN q
  BY <1>1
<1>3. CASE size = s /\ \A i \in DOMAIN q : q[i].type # "size"
  <2>1. size1 = s
    BY <1>1, <1>2, <1>3
  <2> QED BY <1>2, <1>3, <2>1 DEF Settles, t
<1>4. CASE \E i \in DOMAIN q : q[i] = Resize(s) /\ \A j \in DOMAIN q : j > i => q[j].type # "size"
  <2>1. PICK i \in DOMAIN q : q[i] = Resize(s) /\ \A j \in DOMAIN q : j > i => q[j].type # "size"
    BY <1>4
  <2>2. CASE i = 1
    <3>1. size1 = s
      BY <1>1, <2>1, <2>2 DEF Resize
    <3>2. \A j \in DOMAIN t : t[j].type # "size"
      BY <1>2, <2>1, <2>2
    <3> QED BY <3>1, <3>2 DEF Settles, t
  <2>3. CASE i # 1
    <3>1. i - 1 \in DOMAIN t /\ t[i - 1] = q[i]
      <4>1. i - 1 \in DOMAIN t /\ (i - 1) + 1 = i
        BY <1>1, <2>3
      <4> QED BY <1>2, <4>1
    <3>2. \A j \in DOMAIN t : j > i - 1 => t[j].type # "size"
      <4> SUFFICES ASSUME NEW j \in DOMAIN t, j > i - 1 PROVE t[j].type # "size"
        OBVIOUS
      <4>1. j + 1 > i
        BY <1>1, <2>1
      <4> QED BY <1>2, <2>1, <4>1
    <3> QED BY <2>1, <3>1, <3>2 DEF Settles, t
  <2> QED BY <2>2, <2>3
<1> QED BY <1>3, <1>4 DEF Settles

LEMMA UntoldInit == Init => Untold
BY DEF Init, Untold, NoSize

LEMMA UntoldNext == TypeOK /\ Numbers /\ Untold /\ [Next]_vars => Untold'
<1> SUFFICES ASSUME TypeOK, Numbers, Untold, [Next]_vars PROVE Untold'
  OBVIOUS
<1>0. /\ made \in Nat /\ connFd \in 0..made /\ activityFd \in {NoConn, made} /\ workq \in Seq(Work)
  BY ConnectionAssumption DEF TypeOK
<1>1. ASSUME UNCHANGED <<activityFd, told, buffers, toActivity, hungUp, connFd>>,
             \A k : k # NoConn /\ Pending(k)' => Pending(k)
      PROVE  Untold'
  BY <1>1 DEF Untold
<1>2. CASE addFd
  <2>1. workq # <<>> /\ workq' = Tail(workq) /\ Head(workq).type = "addFd" /\ UNCHANGED made
    BY <1>2 DEF addFd, countVars
  <2>2. Head(workq) \in Work /\ Head(workq) = AddFd(Head(workq).arg) /\ Head(workq) = workq[1]
        /\ 1 \in DOMAIN workq
    BY <1>0, <2>1, NumbersTail, WorkKinds
  <2>3. \A k : Pending(k)' => Pending(k)
    BY <1>2, <2>1, <2>2, NumbersTail DEF addFd, Pending
  <2> QED BY <1>1, <1>2, <2>3 DEF addFd, serverVars, activityVars, netVars
<1>3. CASE InstallFd
  <2>1. \A k : Pending(k)' => k # mainConn /\ Pending(k)
    BY <1>3 DEF InstallFd, Pending, Numbers
  <2> QED BY <1>3, <2>1 DEF InstallFd, Untold, activityVars, netVars
<1>4. ASSUME NEW e, toActivity' \in {toActivity, Written(connFd, e)},
             UNCHANGED <<activityFd, told, buffers, hungUp, connFd>>,
             \A k : Pending(k)' => Pending(k)
      PROVE  Untold'
  BY <1>4 DEF Untold, Written
<1>5. CASE lorieSendSharedServerState
  <2>1. \A k : Pending(k)' => Pending(k)
    BY <1>5 DEF lorieSendSharedServerState, Pending
  <2> QED BY <1>4, <1>5, <2>1 DEF lorieSendSharedServerState, serverVars, activityVars
<1>6. CASE lorieRegisterBuffer
  <2>1. \A k : Pending(k)' => Pending(k)
    BY <1>6 DEF lorieRegisterBuffer, Pending
  <2>2. toActivity' \in {toActivity, Written(connFd, AddBuffer(root))}
    BY <1>6 DEF lorieRegisterBuffer
  <2> QED BY <1>4, <1>6, <2>1, <2>2 DEF lorieRegisterBuffer, serverVars, activityVars
<1>7. CASE LorieBuffer_addToList
  <2>1. \A k : Pending(k)' => Pending(k)
    BY <1>7 DEF LorieBuffer_addToList, Pending
  <2> QED BY <1>1, <1>7, <2>1 DEF LorieBuffer_addToList, activityVars, netVars
<1>8. CASE lorieConfigureNotify
  <2>1. workq # <<>> /\ workq' = Tail(workq) /\ mainPc' # "install" /\ UNCHANGED made
    BY <1>8 DEF lorieConfigureNotify, ReplaceRoot, countVars
  <2>2. \A k : Pending(k)' => Pending(k)
    BY <2>1, NumbersTail DEF Pending
  <2>3. toActivity' \in {toActivity, Written(connFd, RemoveBuffer(root))}
    BY <1>8 DEF lorieConfigureNotify, ReplaceRoot
  <2> QED BY <1>4, <1>8, <2>2, <2>3 DEF lorieConfigureNotify, activityVars
<1>9. CASE ReadScreenSize
  <2> DEFINE w == Resize(Head(toServer))
  <2>1. workq' = Append(workq, w) /\ UNCHANGED mainVars /\ w \in Work
    <3>1. toServer # <<>> /\ toServer \in Seq(Sizes)
      BY <1>9 DEF ReadScreenSize, TypeOK
    <3>2. Head(toServer) \in Sizes
      BY <3>1
    <3> QED BY <1>9, <3>2 DEF ReadScreenSize, Work, Resize
  <2>2. \A k : w # AddFd(k)
    BY DEF AddFd, Resize
  <2> HIDE DEF w
  <2>3. \A k : Pending(k)' => Pending(k)
    BY <1>0, <2>1, <2>2, AppendHas DEF Pending, mainVars
  <2> QED BY <1>1, <1>9, <2>3 DEF ReadScreenSize, serverVars, activityVars
<1>10. ASSUME NEW k \in Conns, HangUp(k) PROVE Untold'
  BY <1>1, <1>10 DEF HangUp, serverVars, mainVars, activityVars, netVars, Pending
<1>11. CASE ResetFd
  BY <1>11 DEF ResetFd, Untold, Pending, mainVars, activityVars, netVars
<1>12. CASE EmptyList
  BY <1>1, <1>12 DEF EmptyList, mainVars, activityVars, netVars, Pending
<1>13. CASE xcallback
  BY <1>13 DEF xcallback, Untold, Pending, serverVars, mainVars
<1>14. CASE xcallbackHangUp \/ ActivityGone \/ DeathNotice
  BY <1>14 DEF xcallbackHangUp, ActivityGone, DeathNotice, NotConnected, Untold
<1>15. CASE tryConnect
  BY <1>0, <1>15 DEF tryConnect, Untold, netVars, serverVars, NoConn
<1>16. ASSUME NEW s \in Sizes, sendWindowChange(s) PROVE Untold'
  BY <1>16 DEF sendWindowChange, Untold, Pending, serverVars, mainVars
<1>17. CASE ServerRestart
  <2>1. DOMAIN workq' = {} /\ mainPc' = "idle"
    BY <1>17 DEF ServerRestart
  <2> QED BY <1>17, <2>1 DEF ServerRestart, Untold, Pending
<1>18. CASE UNCHANGED vars
  BY <1>1, <1>18 DEF vars, Pending, serverVars, mainVars, activityVars, netVars
<1> QED BY <1>2, <1>3, <1>5, <1>6, <1>7, <1>8, <1>9, <1>10, <1>11, <1>12, <1>13, <1>14, <1>15, <1>16,
           <1>17, <1>18
    DEF Next, MainStep, InputStep, ActivityStep

LEMMA SizeNext == TypeOK /\ Numbers /\ Untold /\ SizeCovered /\ [Next]_vars => SizeCovered'
<1> SUFFICES ASSUME TypeOK, Numbers, Untold, SizeCovered, [Next]_vars, told' # NoSize, ~hungUp'
             PROVE  IF toServer' = <<>> THEN Settles(screen', workq', told') ELSE Last(toServer') = told'
  BY DEF SizeCovered
<1> DEFINE Goal == IF toServer' = <<>> THEN Settles(screen', workq', told') ELSE Last(toServer') = told'
<1>0. workq \in Seq(Work) /\ toServer \in Seq(Sizes) /\ told \in {NoSize} \cup Sizes
  BY DEF TypeOK
<1>1. ASSUME UNCHANGED <<screen, workq, told, toServer, hungUp>> PROVE Goal
  BY <1>1 DEF SizeCovered
\* A step that takes the first work, or adds a connection to the work.
<1>2. ASSUME UNCHANGED <<told, toServer, hungUp>>,
             \/ workq # <<>> /\ workq' = Tail(workq)
                /\ IF Head(workq).type = "size" THEN screen' = Head(workq).arg ELSE screen' = screen
             \/ \E w \in Work : w.type # "size" /\ workq' = Append(workq, w) /\ screen' = screen
      PROVE  Goal
  <2>1. CASE toServer # <<>>
    BY <1>2, <2>1 DEF SizeCovered
  <2>2. CASE toServer = <<>>
    <3>1. Settles(screen, workq, told)
      BY <1>2, <2>2 DEF SizeCovered
    <3> QED BY <1>0, <1>2, <2>2, <3>1, SettlesTail, SettlesAppend
  <2> QED BY <2>1, <2>2
<1>3. CASE addFd
  BY <1>2, <1>3 DEF addFd, serverVars, activityVars, netVars
<1>4. CASE lorieConfigureNotify
  BY <1>2, <1>4 DEF lorieConfigureNotify, activityVars
<1>5. CASE ReadScreenSize
  <2>1. /\ toServer # <<>> /\ toServer' = Tail(toServer) /\ workq' = Append(workq, Resize(Head(toServer)))
        /\ UNCHANGED <<told, screen, hungUp>>
    BY <1>5 DEF ReadScreenSize, serverVars, activityVars
  <2>2. Last(toServer) = told /\ Head(toServer) \in Sizes
    BY <1>0, <2>1 DEF SizeCovered
  <2>3. CASE toServer' = <<>>
    <3>1. Head(toServer) = told
      <4>1. Len(toServer') = Len(toServer) - 1 /\ Head(toServer) = toServer[1] /\ Len(toServer) \in Nat
        BY <1>0, <2>1, TailIs
      <4>2. Len(toServer') = 0
        BY <2>3
      <4>3. Len(toServer) = 1
        BY <4>1, <4>2
      <4> QED BY <2>2, <4>1, <4>3 DEF Last
    <3>2. Resize(told) \in Work
      BY <2>2, <3>1 DEF Work, Resize
    <3>3. Settles(screen, Append(workq, Resize(told)), told)
      BY <1>0, <3>2, SettlesAppend
    <3> QED BY <2>1, <2>3, <3>1, <3>3
  <2>4. CASE toServer' # <<>>
    <3>1. Len(toServer') = Len(toServer) - 1 /\ Len(toServer') \in Nat /\ Len(toServer') > 0
      BY <1>0, <2>1, <2>4, TailIs
    <3>2. toServer'[Len(toServer')] = toServer[Len(toServer)]
      BY <1>0, <2>1, <3>1
    <3> QED BY <2>1, <2>2, <2>4, <3>2 DEF Last
  <2> QED BY <2>3, <2>4
<1>6. CASE tryConnect
  <2>1. told = NoSize
    BY <1>6 DEF tryConnect, Untold
  <2> QED BY <1>6, <2>1 DEF tryConnect
<1>7. ASSUME NEW s \in Sizes, sendWindowChange(s) PROVE Goal
  <2>1. toServer' = Append(toServer, s) /\ told' = s
    BY <1>7 DEF sendWindowChange
  <2>2. toServer' # <<>> /\ Last(toServer') = s
    BY <1>0, <2>1, AppendIs DEF Last
  <2> QED BY <2>1, <2>2
<1>8. CASE xcallbackHangUp \/ ActivityGone \/ DeathNotice
  BY <1>8 DEF xcallbackHangUp, ActivityGone, DeathNotice, NotConnected
<1>9. CASE ServerRestart
  BY <1>9 DEF ServerRestart, Untold
<1>10. CASE \/ InstallFd \/ lorieSendSharedServerState \/ lorieRegisterBuffer \/ LorieBuffer_addToList
            \/ ResetFd \/ EmptyList \/ (\E k \in Conns : HangUp(k)) \/ xcallback \/ UNCHANGED vars
  <2>1. UNCHANGED <<screen, workq, told, toServer, hungUp>>
    BY <1>10 DEF InstallFd, lorieSendSharedServerState, lorieRegisterBuffer, LorieBuffer_addToList,
                 ResetFd, EmptyList, HangUp, xcallback, vars, serverVars, activityVars, netVars
  <2> QED BY <1>1, <2>1
<1> QED BY <1>3, <1>4, <1>5, <1>6, <1>7, <1>8, <1>9, <1>10 DEF Next, MainStep, InputStep, ActivityStep

\* The screen gets the last size that the activity has sent on its connection
\* last (handleLorieEvents, EVENT_SCREEN_SIZE; lorieConfigureNotify).
THEOREM LastSizeWins == Spec => []SizeCovered
<1>1. Init => SizeCovered
  BY DEF Init, SizeCovered
<1> QED BY <1>1, TypeInit, TypeNext, UntoldInit, UntoldNext, SizeNext, PTL DEF Spec

-----------------------------------------------------------------------------
(***************************************************************************)
(* Buffers.                                                                *)
(***************************************************************************)
LEMMA PeersInit == Init => PeersInv
<1> SUFFICES ASSUME Init PROVE PeersInv
  OBVIOUS
<1>1. ~Established /\ registered = {} /\ inputPc = "idle"
  BY DEF Init, ServerInit, Established
<1> QED BY <1>1 DEF PeersInv, Emptied, Matches, Rooted

LEMMA PeersNext ==
  TypeOK /\ Numbers /\ Untold /\ PeersInv /\ [Next]_vars => PeersInv'
<1> SUFFICES ASSUME TypeOK, Numbers, Untold, PeersInv, [Next]_vars PROVE PeersInv'
  OBVIOUS
<1>0. /\ toActivity \in Seq(Event) /\ root \in Buffers /\ registered \subseteq {root}
      /\ AddBuffer(root) \in Event /\ RemoveBuffer(root) \in Event /\ SharedState \in Event
  BY EventKinds DEF TypeOK
\* The connection is as before, and so are the threads but for the main
\* thread's waiting or setting out.
<1>1. ASSUME UNCHANGED <<connFd, activityFd, hungUp, tangled, registered, root, inputPc>>,
             UNCHANGED <<buffers, toActivity>>,
             \/ UNCHANGED <<mainPc, mainConn>>
             \/ mainPc # "list" /\ mainPc' \notin {"list", "idle"}
      PROVE  PeersInv'
  BY <1>1 DEF PeersInv, Emptied, Matches, Rooted, Established, Listed
\* There is no established connection afterwards, and nothing on the list
\* that was not there.
<1>2. ASSUME ~Established', Emptied'
      PROVE  PeersInv'
  BY <1>2 DEF PeersInv, Matches, Rooted
<1>3. CASE addFd
  BY <1>1, <1>3 DEF addFd, serverVars, activityVars, netVars
<1>4. CASE InstallFd
  <2>1. /\ mainPc = "install" /\ mainPc' = "state" /\ connFd' = mainConn /\ mainConn # NoConn
        /\ tangled' = (tangled \/ connFd # NoConn \/ mainConn \notin watched \/ inputPc = "empty")
        /\ UNCHANGED <<registered, root, inputPc, activityFd, hungUp, buffers, toActivity>>
    BY <1>4 DEF InstallFd, Numbers, inputVars, activityVars, netVars
  <2>2. Emptied'
    BY <2>1 DEF PeersInv, Emptied
  <2>3. ASSUME Established' PROVE Matches'
    <3>1. ~tangled /\ connFd = NoConn /\ inputPc # "empty" /\ activityFd = mainConn
      BY <2>1, <2>3 DEF Established
    <3>2. registered = {}
      BY <3>1 DEF PeersInv, Emptied
    <3>3. buffers = {} /\ toActivity = <<>>
      BY <2>1, <3>1 DEF Untold, Pending
    <3> QED BY <2>1, <3>2, <3>3, EndsEmpty DEF Matches, Listed
  <2> QED BY <2>1, <2>2, <2>3 DEF PeersInv, Rooted, Matches
<1>5. CASE lorieSendSharedServerState
  <2>1. /\ mainPc = "state" /\ mainPc' = "register" /\ toActivity' = Written(connFd, SharedState)
        /\ UNCHANGED <<connFd, registered, root, inputPc, activityFd, hungUp, buffers, tangled>>
    BY <1>5 DEF lorieSendSharedServerState, serverVars, inputVars, activityVars
  <2>2. ASSUME Established' PROVE Matches'
    <3>1. Established /\ toActivity' = Append(toActivity, SharedState)
      BY <2>1, <2>2 DEF Established, Written
    <3>2. ASSUME NEW b \in Buffers
          PROVE  EndsWith(buffers, toActivity', b) <=> EndsWith(buffers, toActivity, b)
      BY <1>0, <3>1, EndsAppend, EventKinds
    <3> QED BY <2>1, <3>1, <3>2 DEF PeersInv, Matches, Listed
  <2> QED BY <2>1, <2>2 DEF PeersInv, Emptied, Rooted, Matches
<1>6. CASE lorieRegisterBuffer
  <2>1. /\ mainPc = "register"
        /\ UNCHANGED <<connFd, registered, root, inputPc, activityFd, hungUp, buffers, tangled>>
    BY <1>6 DEF lorieRegisterBuffer, serverVars, inputVars, activityVars
  <2>2. CASE connFd = NoConn \/ root \in registered
    <3>1. mainPc' = "idle" /\ UNCHANGED toActivity
      BY <1>6, <2>2 DEF lorieRegisterBuffer
    <3>2. Rooted'
      BY <2>1, <2>2, <3>1 DEF Rooted, Established
    <3> QED BY <2>1, <3>1, <3>2 DEF PeersInv, Emptied, Matches, Established, Listed
  <2>3. CASE ~(connFd = NoConn \/ root \in registered)
    <3>1. mainPc' = "list" /\ mainConn' = connFd /\ toActivity' = Written(connFd, AddBuffer(root))
      BY <1>6, <2>3 DEF lorieRegisterBuffer
    <3>2. ASSUME Established' PROVE Matches'
      <4>1. Established /\ toActivity' = Append(toActivity, AddBuffer(root))
        BY <2>1, <3>1, <3>2 DEF Established, Written
      <4>2. ASSUME NEW b \in Buffers
            PROVE  EndsWith(buffers, toActivity', b) <=> b = root \/ EndsWith(buffers, toActivity, b)
        <5>1. AddBuffer(root) # RemoveBuffer(b) /\ (AddBuffer(root) = AddBuffer(b) <=> b = root)
          BY <1>0, EventKinds
        <5> QED BY <1>0, <4>1, <5>1, EndsAppend
      <4>3. \A b \in Buffers : EndsWith(buffers, toActivity, b) <=> b \in registered
        BY <2>1, <4>1 DEF PeersInv, Matches, Listed
      <4> QED BY <2>1, <3>1, <4>2, <4>3 DEF Matches, Listed
    <3> QED BY <2>1, <3>1, <3>2 DEF PeersInv, Emptied, Rooted, Matches
  <2> QED BY <2>2, <2>3
<1>7. CASE LorieBuffer_addToList
  <2>1. /\ mainPc = "list" /\ mainPc' = "idle" /\ registered' = registered \cup {root}
        /\ tangled' = (tangled \/ connFd # mainConn) /\ mainConn # NoConn
        /\ UNCHANGED <<connFd, root, inputPc, activityFd, hungUp, buffers, toActivity>>
    BY <1>7 DEF LorieBuffer_addToList, Numbers, inputVars, activityVars, netVars
  <2>2. Emptied'
    BY <2>1 DEF PeersInv, Emptied
  <2>3. ASSUME Established' PROVE Matches'
    <3>1. Established /\ connFd = mainConn
      BY <2>1, <2>3 DEF Established
    <3> QED BY <2>1, <3>1 DEF PeersInv, Matches, Listed
  <2> QED BY <2>1, <2>2, <2>3 DEF PeersInv, Rooted, Matches
<1>8. CASE lorieConfigureNotify
  <2>1. /\ mainPc = "idle"
        /\ UNCHANGED <<connFd, inputPc, mainConn, activityFd, hungUp, buffers, tangled>>
    BY <1>8 DEF lorieConfigureNotify, inputVars, activityVars
  <2>2. CASE Head(workq).arg = screen
    <3>1. UNCHANGED <<root, registered, toActivity, mainPc>>
      BY <1>8, <2>2 DEF lorieConfigureNotify
    <3> QED BY <1>1, <2>1, <3>1
  <2>3. CASE Head(workq).arg # screen
    <3>1. /\ registered' = {} /\ mainPc' = "register"
          /\ toActivity' = IF root \in registered THEN Written(connFd, RemoveBuffer(root)) ELSE toActivity
      BY <1>0, <1>8, <2>3 DEF lorieConfigureNotify, ReplaceRoot
    <3>2. ASSUME Established' PROVE Matches'
      <4>1. Established
        BY <2>1, <3>2 DEF Established
      <4>2. \A b \in Buffers : EndsWith(buffers, toActivity, b) <=> b \in registered
        BY <2>1, <4>1 DEF PeersInv, Matches, Listed
      <4>3. ASSUME NEW b \in Buffers PROVE ~EndsWith(buffers, toActivity', b)
        <5>1. CASE root \notin registered
          BY <1>0, <3>1, <4>2, <5>1
        <5>2. CASE root \in registered
          <6>1. toActivity' = Append(toActivity, RemoveBuffer(root))
            BY <3>1, <4>1, <5>2 DEF Established, Written
          <6>2. RemoveBuffer(root) # AddBuffer(b)
            BY <1>0, EventKinds
          <6>3. EndsWith(buffers, toActivity', b)
                  <=> EndsWith(buffers, toActivity, b) /\ RemoveBuffer(root) # RemoveBuffer(b)
            BY <1>0, <6>1, <6>2, EndsAppend
          <6> QED BY <1>0, <4>2, <6>3
        <5> QED BY <5>1, <5>2
      <4> QED BY <2>1, <3>1, <4>3 DEF Matches, Listed
    <3>3. Emptied'
      BY <2>1, <3>1 DEF PeersInv, Emptied
    <3> QED BY <3>1, <3>2, <3>3 DEF PeersInv, Rooted, Matches
  <2> QED BY <2>2, <2>3
<1>9. CASE ReadScreenSize
  BY <1>1, <1>9 DEF ReadScreenSize, serverVars, inputVars, mainVars, activityVars
<1>10. ASSUME NEW k \in Conns, HangUp(k) PROVE PeersInv'
  BY <1>10 DEF HangUp, PeersInv, Emptied, Matches, Rooted, Established, Listed,
               serverVars, mainVars, activityVars, netVars
<1>11. CASE ResetFd
  <2>1. connFd' = NoConn /\ inputPc' = "empty"
    BY <1>11 DEF ResetFd
  <2> QED BY <1>2, <2>1 DEF Established, Emptied
<1>12. CASE EmptyList
  <2>1. /\ inputPc = "empty" /\ inputPc' = "idle" /\ registered' = {}
        /\ tangled' = (tangled /\ ~(connFd = NoConn /\ watched = {} /\ mainPc = "idle"))
        /\ UNCHANGED connFd
    BY <1>12 DEF EmptyList
  <2>2. ~Established'
    BY <2>1 DEF PeersInv, Emptied, Established
  <2> QED BY <1>2, <2>1, <2>2 DEF Emptied
<1>13. CASE xcallback
  <2>1. /\ toActivity # <<>> /\ toActivity' = Tail(toActivity)
        /\ buffers' = Applied(buffers, Head(toActivity))
        /\ UNCHANGED <<connFd, registered, root, inputPc, activityFd, hungUp, tangled, mainPc, mainConn>>
    BY <1>13 DEF xcallback, serverVars, inputVars, mainVars
  <2>2. \A b \in Buffers : EndsWith(buffers', toActivity', b) <=> EndsWith(buffers, toActivity, b)
    BY <1>0, <2>1, EndsTail
  <2> QED BY <2>1, <2>2 DEF PeersInv, Emptied, Matches, Rooted, Established, Listed
<1>14. CASE xcallbackHangUp \/ ActivityGone \/ DeathNotice
  <2>1. NotConnected /\ UNCHANGED <<serverVars, inputVars, tangled>>
    BY <1>14 DEF xcallbackHangUp, ActivityGone, DeathNotice
  <2>2. ~Established'
    BY <2>1 DEF NotConnected, Established
  <2> QED BY <1>2, <2>1, <2>2 DEF PeersInv, Emptied, serverVars, inputVars
<1>15. CASE tryConnect
  <2>1. ~Established'
    BY <1>15 DEF tryConnect, Established, TypeOK, serverVars
  <2> QED BY <1>2, <1>15, <2>1 DEF tryConnect, PeersInv, Emptied, serverVars, inputVars
<1>16. ASSUME NEW s \in Sizes, sendWindowChange(s) PROVE PeersInv'
  BY <1>1, <1>16 DEF sendWindowChange, serverVars, inputVars, mainVars
<1>17. CASE ServerRestart
  BY <1>2, <1>17 DEF ServerRestart, Established, Emptied
<1>18. CASE UNCHANGED vars
  BY <1>1, <1>18 DEF vars, serverVars, inputVars, mainVars, activityVars, netVars
<1> QED BY <1>3, <1>4, <1>5, <1>6, <1>7, <1>8, <1>9, <1>10, <1>11, <1>12, <1>13, <1>14, <1>15, <1>16,
           <1>17, <1>18
    DEF Next, MainStep, InputStep, ActivityStep

\* Unless the X server's threads have interfered, the renderer gets the buffers
\* that registeredBuffers says it has, and the root pixmap's is one of them
\* when the main thread is idle (lorieRegisterBuffer, lorieUnregisterBuffer).
THEOREM BuffersAgree == Spec => []PeersAgree
<1>1. TypeOK /\ PeersInv => PeersAgree
  <2> SUFFICES ASSUME TypeOK, PeersInv PROVE PeersAgree
    OBVIOUS
  <2>1. ASSUME Established, mainPc # "list" PROVE Received = registered
    <3>1. \A b \in Buffers : EndsWith(buffers, toActivity, b) <=> b \in registered
      BY <2>1 DEF PeersInv, Matches, Listed
    <3>2. registered \subseteq Buffers
      BY DEF TypeOK
    <3>3. /\ Received \subseteq Buffers
          /\ \A b \in Buffers : b \in Received <=> EndsWith(buffers, toActivity, b)
      BY ReceivedIs DEF TypeOK
    <3> QED BY <3>1, <3>2, <3>3
  <2> QED BY <2>1 DEF PeersAgree, PeersInv, Rooted
<1> QED BY <1>1, TypeInit, TypeNext, UntoldInit, UntoldNext, PeersInit, PeersNext, PTL DEF Spec
===============================================================================
