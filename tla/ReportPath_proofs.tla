-------------------------- MODULE ReportPath_proofs -------------------------
(***************************************************************************)
(* The way of a report, for any clients under any users, any number of     *)
(* calls in the server, and any number of broken calls, deaths and         *)
(* restarts.                                                               *)
(***************************************************************************)
EXTENDS ReportPath, TLAPS

USE UserOfAssumption, BoundsAssumption

\* A client that has something to send has taken a report, and begin() is an
\* entry of the table.
Shape ==
  /\ \A c \in Clients : pc[c] \in {"call", "wait", "answered"} => seq[c] > 0
  /\ Stored # {} => first \in Stored

\* What a call in the server carries: never more than its client's latest
\* report, and exactly that while the client waits for it, or if none of its
\* calls ever broke; such a call is its client's only one.
CallInv ==
  \A k \in Calls : call[k] # Free =>
    LET c == call[k].client IN
    /\ call[k].seq <= seq[c]
    /\ call[k].awaited => pc[c] = "wait" /\ call[k].seq = seq[c]
    /\ breaks[c] = 0 => pc[c] \in {"wait", "dead"} /\ call[k].seq = seq[c]
    /\ \A j \in Calls : /\ call[j] # Free /\ call[j].client = c
                        /\ breaks[c] = 0 \/ (call[k].awaited /\ call[j].awaited)
                        => j = k

\* No entry is ahead of its client, and without a broken call none of
\* node_server is ahead of the table.
TableInv ==
  /\ \A n \in Stored : store[n].seq <= seq[store[n].client]
  /\ \A n \in DOMAIN scores :
       /\ scores[n].seq <= seq[scores[n].client]
       /\ breaks[scores[n].client] = 0 /\ n \in Stored /\ store[n].client = scores[n].client
            => store[n].seq >= scores[n].seq

\* What a client was told, or is about to be told, is in the table.
AckInv ==
  \A c \in Clients :
    /\ acked[c] <= seq[c]
    /\ acked[c] > 0 \/ pc[c] = "answered" => UserOf[c] \in Stored
    /\ breaks[c] = 0 /\ UserOf[c] \in Stored /\ store[UserOf[c]].client = c =>
         /\ store[UserOf[c]].seq >= acked[c]
         /\ pc[c] = "answered" => store[UserOf[c]].seq = seq[c]

IInv == TypeOK /\ Shape /\ CallInv /\ TableInv /\ AckInv

-----------------------------------------------------------------------------
Call == [client : Clients, seq : 1..MaxSeq, awaited : BOOLEAN]

LEMMA TableTyped ==
  ASSUME NEW t \in Tables
  PROVE  /\ DOMAIN t \subseteq Names
         /\ \A n \in DOMAIN t : t[n].client \in Clients /\ t[n].seq \in 1..MaxSeq
  BY DEF Tables, Reports

LEMMA EmptyTable == NoReports \in Tables
  <1>1. NoReports \in [{} -> Reports]
    BY DEF NoReports
  <1>. QED BY <1>1 DEF Tables

LEMMA UpsertTyped ==
  ASSUME NEW t \in Tables, NEW n \in Names, NEW r \in Reports
  PROVE  Upsert(t, n, r) \in Tables
  <1>1. PICK S \in SUBSET Names : t \in [S -> Reports]
    BY DEF Tables
  <1>2. Upsert(t, n, r) \in [S \cup {n} -> Reports]
    BY <1>1 DEF Upsert
  <1>3. S \cup {n} \in SUBSET Names
    OBVIOUS
  <1>. QED BY <1>2, <1>3 DEF Tables

\* A slot in use has a call of a client in it.
LEMMA CallTyped ==
  ASSUME TypeOK, NEW k \in Calls, call[k] # Free
  PROVE  /\ call[k] \in Call /\ call[k].client \in Clients /\ call[k].seq \in 1..MaxSeq
         /\ call[k].awaited \in BOOLEAN
  BY DEF TypeOK, Call

LEMMA IInvInit == Init => IInv
  <1> SUFFICES ASSUME Init PROVE IInv
    OBVIOUS
  <1>1. DOMAIN NoReports = {}
    BY DEF NoReports
  <1>2. TypeOK
    BY EmptyTable DEF Init, TypeOK
  <1>3. Shape /\ CallInv /\ TableInv /\ AckInv
    BY <1>1 DEF Init, Shape, CallInv, TableInv, AckInv, Stored
  <1>. QED BY <1>2, <1>3 DEF IInv

\* Steps of a client that leave the calls in the server and both tables alone.
LEMMA LoopInv ==
  ASSUME IInv, NEW c \in Clients, Sample(c) \/ SendFails(c) \/ Answer(c)
  PROVE  IInv'
  <1> USE DEF IInv
  <1>1. /\ UNCHANGED <<call, up, store, first, scores, breaks, restarts>>
        /\ pc[c] \in {"sample", "call", "answered"}
        /\ pc' = [pc EXCEPT ![c] = pc'[c]] /\ pc'[c] \in {"sample", "call"}
        /\ seq' = [seq EXCEPT ![c] = seq'[c]] /\ seq'[c] \in 0..MaxSeq /\ seq'[c] >= seq[c]
        /\ pc'[c] = "call" => seq'[c] > 0
        /\ pc[c] # "sample" => seq' = seq
        /\ acked' = acked \/ (pc[c] = "answered" /\ acked' = [acked EXCEPT ![c] = seq[c]])
    BY DEF Sample, SendFails, Answer, TypeOK
  <1>2. TypeOK'
    BY <1>1 DEF TypeOK
  <1>3. Shape'
    BY <1>1 DEF Shape, TypeOK, Stored
  <1>4. CallInv'
    BY <1>1, CallTyped DEF CallInv, TypeOK
  <1>5. TableInv'
    BY <1>1, TableTyped DEF TableInv, TypeOK, Stored
  <1>6. AckInv'
    BY <1>1, TableTyped DEF AckInv, TableInv, TypeOK, Stored
  <1>. QED BY <1>2, <1>3, <1>4, <1>5, <1>6

LEMMA SendInv ==
  ASSUME IInv, NEW c \in Clients, Send(c)
  PROVE  IInv'
  <1> USE DEF IInv
  <1>1. PICK k \in Calls : call[k] = Free /\ call' = [call EXCEPT ![k] = Request(c)]
    BY DEF Send
  <1>2. /\ pc[c] = "call" /\ pc' = [pc EXCEPT ![c] = "wait"]
        /\ UNCHANGED <<seq, up, store, first, scores, breaks, restarts, acked>>
    BY DEF Send
  <1>3. Request(c) \in Call /\ Request(c).client = c /\ Request(c).seq = seq[c] /\ Request(c).awaited
    BY <1>2 DEF Request, Call, Shape, TypeOK
  <1>4. TypeOK'
    BY <1>1, <1>2, <1>3 DEF TypeOK, Call
  <1>5. Shape' /\ TableInv' /\ AckInv'
    BY <1>2 DEF Shape, TableInv, AckInv, Stored, TypeOK
  <1>6. \A j \in Calls \ {k} : call'[j] = call[j]
    BY <1>1 DEF TypeOK
  <1>7. call'[k] = Request(c)
    BY <1>1 DEF TypeOK
  <1>8. CallInv'
    BY <1>2, <1>3, <1>6, <1>7, CallTyped DEF CallInv, TypeOK
  <1>. QED BY <1>4, <1>5, <1>8

\* The slots after a client gave up its calls.
LEMMA AbandonedCalls ==
  ASSUME TypeOK, NEW c \in Clients
  PROVE  \A k \in Calls :
           /\ (Abandoned(c)[k] = Free) = (call[k] = Free)
           /\ call[k] # Free => /\ Abandoned(c)[k] \in Call
                                /\ Abandoned(c)[k].client = call[k].client
                                /\ Abandoned(c)[k].seq = call[k].seq
                                /\ Abandoned(c)[k].awaited = (call[k].awaited /\ call[k].client # c)
  <1> SUFFICES ASSUME NEW k \in Calls
               PROVE  /\ (Abandoned(c)[k] = Free) = (call[k] = Free)
                      /\ call[k] # Free =>
                           /\ Abandoned(c)[k] \in Call
                           /\ Abandoned(c)[k].client = call[k].client
                           /\ Abandoned(c)[k].seq = call[k].seq
                           /\ Abandoned(c)[k].awaited = (call[k].awaited /\ call[k].client # c)
    OBVIOUS
  <1>1. Abandoned(c)[k] = IF call[k].client = c THEN [call[k] EXCEPT !.awaited = FALSE] ELSE call[k]
    BY DEF Abandoned
  <1>2. CASE call[k] = Free
    <2>1. [Free EXCEPT !.awaited = FALSE] = Free
      <3>1. Free \in [client : {"none"}, seq : {0}, awaited : {FALSE}]
        BY DEF Free
      <3>2. \A f \in [client : {"none"}, seq : {0}, awaited : {FALSE}] :
              [f EXCEPT !.awaited = FALSE] = f
        OBVIOUS
      <3>. QED BY <3>1, <3>2
    <2>. QED BY <1>1, <1>2, <2>1
  <1>3. CASE call[k] # Free
    <2>1. call[k] \in Call
      BY <1>3, CallTyped
    <2>2. [call[k] EXCEPT !.awaited = FALSE].seq = call[k].seq
          /\ [call[k] EXCEPT !.awaited = FALSE].client = call[k].client
          /\ [call[k] EXCEPT !.awaited = FALSE].awaited = FALSE
          /\ [call[k] EXCEPT !.awaited = FALSE] \in Call
      BY <2>1 DEF Call
    <2>3. \A x \in Call : x # Free
      BY DEF Call, Free
    <2>4. call[k].awaited \in BOOLEAN
      BY <2>1 DEF Call
    <2>. QED BY <1>1, <1>3, <2>1, <2>2, <2>3, <2>4
  <1>. QED BY <1>2, <1>3

LEMMA GiveUpInv ==
  ASSUME IInv, NEW c \in Clients, Break(c) \/ Die(c)
  PROVE  IInv'
  <1> USE DEF IInv
  <1>1. /\ call' = Abandoned(c)
        /\ UNCHANGED <<seq, up, store, first, scores, restarts, acked>>
        /\ pc' = [pc EXCEPT ![c] = pc'[c]] /\ pc'[c] \in {"sample", "dead"}
        /\ breaks' = [breaks EXCEPT ![c] = breaks'[c]] /\ breaks'[c] \in 0..MaxBreaks
        /\ pc'[c] = "sample" => breaks'[c] # 0
        /\ breaks'[c] = 0 => breaks[c] = 0
    BY DEF Break, Die, TypeOK
  <1>2. \A k \in Calls :
          /\ (call'[k] = Free) = (call[k] = Free)
          /\ call[k] # Free => /\ call'[k] \in Call
                               /\ call'[k].client = call[k].client
                               /\ call'[k].seq = call[k].seq
                               /\ call'[k].awaited = (call[k].awaited /\ call[k].client # c)
    BY <1>1, AbandonedCalls
  <1>3. TypeOK'
    <2>1. call' \in [Calls -> Call \cup {Free}]
      BY <1>1, <1>2 DEF Abandoned
    <2>. QED BY <1>1, <2>1 DEF TypeOK, Call
  <1>4. \A d \in Clients : /\ pc'[d] \in {"call", "wait", "answered"} => pc'[d] = pc[d]
                           /\ breaks'[d] = 0 => breaks[d] = 0
    BY <1>1 DEF TypeOK
  <1>5. Shape'
    BY <1>1, <1>4 DEF Shape, Stored
  <1>6. TableInv'
    BY <1>1, <1>4, TableTyped DEF TableInv, Stored, TypeOK
  <1>7. AckInv'
    BY <1>1, <1>4 DEF AckInv, Stored
  <1>8. CallInv'
    <2> SUFFICES ASSUME NEW k \in Calls, call'[k] # Free
                 PROVE  LET d == call[k].client IN
                        /\ call[k].seq <= seq[d]
                        /\ call'[k].awaited => pc'[d] = "wait" /\ call[k].seq = seq[d]
                        /\ breaks'[d] = 0 => pc'[d] \in {"wait", "dead"} /\ call[k].seq = seq[d]
                        /\ \A j \in Calls : /\ call'[j] # Free /\ call'[j].client = d
                                            /\ breaks'[d] = 0 \/ (call'[k].awaited /\ call'[j].awaited)
                                            => j = k
      BY <1>1, <1>2 DEF CallInv
    <2> DEFINE d == call[k].client
    <2>1. call[k] # Free /\ d \in Clients /\ (call'[k].awaited => call[k].awaited /\ d # c)
      BY <1>2, CallTyped
    <2>2. pc'[d] = IF d = c THEN pc'[c] ELSE pc[d]
      BY <1>1, <2>1 DEF TypeOK
    <2>3. call'[k].awaited => pc'[d] = "wait" /\ call[k].seq = seq[d]
      BY <2>1, <2>2 DEF CallInv
    <2>4. breaks'[d] = 0 => pc'[d] \in {"wait", "dead"} /\ call[k].seq = seq[d]
      BY <1>1, <1>4, <2>1, <2>2 DEF CallInv
    <2>5. ASSUME NEW j \in Calls, call'[j] # Free, call'[j].client = d,
                 breaks'[d] = 0 \/ (call'[k].awaited /\ call'[j].awaited)
          PROVE  j = k
      <3>1. call[j] # Free /\ call[j].client = d /\ (call'[j].awaited => call[j].awaited)
        BY <1>2, <2>5
      <3>. QED BY <1>4, <2>1, <2>5, <3>1 DEF CallInv
    <2>. QED BY <2>1, <2>3, <2>4, <2>5 DEF CallInv
  <1>. QED BY <1>3, <1>5, <1>6, <1>7, <1>8

LEMMA ApplyInv ==
  ASSUME IInv, NEW k \in Calls, Apply(k)
  PROVE  IInv'
  <1> USE DEF IInv
  <1> DEFINE c == call[k].client
             n == UserOf[c]
             r == Report(c, call[k].seq)
  <1>1. /\ call[k] # Free /\ store' = Upsert(store, n, r)
        /\ IF n \in Stored THEN UNCHANGED first ELSE first' \in Stored \cup {n}
        /\ call' = [call EXCEPT ![k] = Free]
        /\ pc' = IF call[k].awaited THEN [pc EXCEPT ![c] = "answered"] ELSE pc
        /\ UNCHANGED <<seq, up, scores, breaks, restarts, acked>>
    BY DEF Apply, Put
  <1>2. /\ c \in Clients /\ n \in Names /\ r \in Reports /\ r.client = c /\ r.seq = call[k].seq
        /\ call[k].seq \in 1..MaxSeq
    BY <1>1, CallTyped DEF Report, Reports
  <1>3. /\ DOMAIN store' = Stored \cup {n}
        /\ store'[n] = r /\ \A m \in Stored \ {n} : store'[m] = store[m]
    BY <1>1 DEF Upsert, Stored
  <1>4. /\ call'[k] = Free /\ \A j \in Calls \ {k} : call'[j] = call[j]
        /\ \A d \in Clients : pc'[d] = IF call[k].awaited /\ d = c THEN "answered" ELSE pc[d]
    BY <1>1 DEF TypeOK
  <1>5. TypeOK'
    <2>1. store' \in Tables
      BY <1>1, <1>2, UpsertTyped DEF TypeOK
    <2>2. first' \in Names
      BY <1>1, <1>2, TableTyped DEF TypeOK, Stored
    <2>. QED BY <1>1, <2>1, <2>2 DEF TypeOK
  <1> HIDE DEF r
  <1>6. Shape'
    BY <1>1, <1>2, <1>3, <1>4 DEF Shape, CallInv, Stored, TypeOK
  <1>7. CallInv'
    <2> SUFFICES ASSUME NEW i \in Calls, call'[i] # Free
                 PROVE  LET d == call[i].client IN
                        /\ call[i].seq <= seq[d]
                        /\ call[i].awaited => pc'[d] = "wait" /\ call[i].seq = seq[d]
                        /\ breaks[d] = 0 => pc'[d] \in {"wait", "dead"} /\ call[i].seq = seq[d]
                        /\ \A j \in Calls : /\ call'[j] # Free /\ call'[j].client = d
                                            /\ breaks[d] = 0 \/ (call[i].awaited /\ call'[j].awaited)
                                            => j = i
      BY <1>1, <1>4 DEF CallInv
    <2>1. i # k /\ call'[i] = call[i] /\ call[i] # Free /\ call[i].client \in Clients
      BY <1>4, CallTyped
    <2>2. call[k].awaited /\ call[i].client = c => ~call[i].awaited /\ breaks[c] # 0
      BY <1>1, <2>1 DEF CallInv
    <2>. QED BY <1>2, <1>4, <2>1, <2>2 DEF CallInv
  <1>8. TableInv'
    <2>1. \A m \in DOMAIN store' : store'[m].seq <= seq[store'[m].client]
      BY <1>1, <1>2, <1>3 DEF TableInv, CallInv
    <2>2. ASSUME NEW m \in DOMAIN scores
          PROVE  /\ scores[m].seq <= seq[scores[m].client]
                 /\ breaks[scores[m].client] = 0 /\ m \in DOMAIN store'
                      /\ store'[m].client = scores[m].client => store'[m].seq >= scores[m].seq
      <3>1. scores[m].client \in Clients /\ scores[m].seq \in Int
        BY TableTyped DEF TypeOK
      <3>2. CASE m = n
        BY <1>1, <1>2, <1>3, <3>1, <3>2 DEF TableInv, CallInv, TypeOK
      <3>3. CASE m # n
        BY <1>2, <1>3, <3>1, <3>3 DEF TableInv
      <3>. QED BY <3>2, <3>3
    <2>. QED BY <1>1, <2>1, <2>2 DEF TableInv, Stored
  <1>9. AckInv'
    <2> SUFFICES ASSUME NEW d \in Clients
                 PROVE  /\ acked[d] <= seq[d]
                        /\ acked[d] > 0 \/ pc'[d] = "answered" => UserOf[d] \in DOMAIN store'
                        /\ breaks[d] = 0 /\ UserOf[d] \in DOMAIN store' /\ store'[UserOf[d]].client = d =>
                             /\ store'[UserOf[d]].seq >= acked[d]
                             /\ pc'[d] = "answered" => store'[UserOf[d]].seq = seq[d]
      BY <1>1 DEF AckInv, Stored
    <2>1. acked[d] <= seq[d]
      BY DEF AckInv
    <2>2. acked[d] > 0 \/ pc'[d] = "answered" => UserOf[d] \in DOMAIN store'
      BY <1>2, <1>3, <1>4 DEF AckInv
    <2>3. ASSUME breaks[d] = 0, UserOf[d] \in DOMAIN store', store'[UserOf[d]].client = d
          PROVE  /\ store'[UserOf[d]].seq >= acked[d]
                 /\ pc'[d] = "answered" => store'[UserOf[d]].seq = seq[d]
      <3>1. CASE d = c
        BY <1>1, <1>2, <1>3, <1>4, <2>1, <2>3, <3>1 DEF CallInv, TypeOK
      <3>2. CASE d # c
        BY <1>2, <1>3, <1>4, <2>3, <3>2 DEF AckInv
      <3>. QED BY <3>1, <3>2
    <2>. QED BY <2>1, <2>2, <2>3
  <1>. QED BY <1>5, <1>6, <1>7, <1>8, <1>9

LEMMA StopInv ==
  ASSUME IInv, Stop \/ Start
  PROVE  IInv'
  <1> USE DEF IInv
  <1>1. CASE Stop
    <2>1. /\ store' = NoReports /\ call' = [k \in Calls |-> Free] /\ pc' = GivenUp
          /\ acked' = [c \in Clients |-> 0]
          /\ up' = FALSE /\ restarts' \in 0..MaxRestarts
          /\ UNCHANGED <<seq, first, scores, breaks>>
      BY <1>1 DEF Stop, TypeOK
    <2>2. DOMAIN store' = {}
      BY <2>1 DEF NoReports
    <2>3. GivenUp \in [Clients -> {"sample", "call", "dead"}]
          /\ \A c \in Clients : GivenUp[c] = "call" => pc[c] = "call"
      BY DEF GivenUp, TypeOK
    <2>4. TypeOK'
      <3>1. pc' \in [Clients -> {"sample", "call", "wait", "answered", "dead"}]
        BY <2>1, <2>3
      <3>2. call' \in [Calls -> [client : Clients, seq : 1..MaxSeq, awaited : BOOLEAN] \cup {Free}]
        BY <2>1
      <3>3. acked' \in [Clients -> 0..MaxSeq]
        BY <2>1
      <3>. QED BY <2>1, <3>1, <3>2, <3>3, EmptyTable DEF TypeOK
    <2>5. Shape' /\ CallInv'
      BY <2>1, <2>2, <2>3 DEF Shape, CallInv, Stored
    <2>6. TableInv'
      BY <2>1, <2>2 DEF TableInv, Stored
    <2>7. AckInv'
      BY <2>1, <2>2, <2>3 DEF AckInv, Stored, TypeOK
    <2>. QED BY <2>4, <2>5, <2>6, <2>7
  <1>2. CASE Start
    BY <1>2 DEF Start, TypeOK, Shape, CallInv, TableInv, AckInv, Stored
  <1>. QED BY <1>1, <1>2

LEMMA PollInv ==
  ASSUME IInv, Poll
  PROVE  IInv'
  <1> USE DEF IInv
  <1>1. /\ scores' = Upsert(scores, first, store[first]) /\ first \in Stored /\ first \in Names
        /\ UNCHANGED <<pc, seq, call, up, store, first, breaks, restarts, acked>>
    BY DEF Poll, Shape, TypeOK
  <1>2. store[first] \in Reports
    BY <1>1 DEF Tables, TypeOK, Stored
  <1>3. TypeOK'
    BY <1>1, <1>2, UpsertTyped DEF TypeOK
  <1>4. DOMAIN scores' = DOMAIN scores \cup {first}
        /\ \A m \in DOMAIN scores' : scores'[m] = IF m = first THEN store[first] ELSE scores[m]
    BY <1>1 DEF Upsert
  <1>5. TableInv'
    BY <1>1, <1>2, <1>4 DEF TableInv, Stored, TypeOK, Reports
  <1>6. Shape' /\ CallInv' /\ AckInv'
    BY <1>1 DEF Shape, CallInv, AckInv, Stored
  <1>. QED BY <1>3, <1>5, <1>6

LEMMA IInvPreserved == IInv /\ [Next]_vars => IInv'
  <1>1. IInv /\ UNCHANGED vars => IInv'
    BY DEF vars, IInv, TypeOK, Shape, CallInv, TableInv, AckInv, Stored
  <1>. QED BY <1>1, LoopInv, SendInv, GiveUpInv, ApplyInv, StopInv, PollInv DEF Next, Client

\* The inductive invariant: the order of a client's reports in its loop, in the
\* server, in the table and in node_server.
THEOREM ReportInvariant == Spec => []IInv
  BY IInvInit, IInvPreserved, PTL DEF Spec

\* Type correctness of the path.
THEOREM TypeCorrect == Spec => []TypeOK
  BY ReportInvariant, PTL DEF IInv

\* For any clients and any failures: what a client was told is stored stays
\* under its name until node_mid stops.
THEOREM AcknowledgedStays == Spec => []AcknowledgedIsKept
  <1>1. IInv => AcknowledgedIsKept
    BY DEF IInv, AckInv, AcknowledgedIsKept
  <1>. QED BY <1>1, ReportInvariant, PTL

\* For any clients and any failures: node_server scores the reports of a client
\* in the order they were taken in, unless one of its calls broke.
THEOREM ScoresKeepOrder == Spec => ScoresDoNotRegress
  <1>1. IInv /\ [Next]_vars
          => [\A n \in DOMAIN scores :
                scores[n].client = scores'[n].client /\ breaks[scores[n].client] = 0
                  => scores'[n].seq >= scores[n].seq]_vars
    <2> SUFFICES ASSUME IInv, Next, NEW n \in DOMAIN scores,
                        scores[n].client = scores'[n].client, breaks[scores[n].client] = 0
                 PROVE  scores'[n].seq >= scores[n].seq
      OBVIOUS
    <2> USE DEF IInv
    <2>1. scores[n].seq \in Int
      BY TableTyped DEF TypeOK
    <2>2. CASE Poll
      <3>1. /\ scores' = Upsert(scores, first, store[first]) /\ first \in Stored
        BY <2>2 DEF Poll, Shape
      <3>2. scores'[n] = IF n = first THEN store[first] ELSE scores[n]
        BY <3>1 DEF Upsert
      <3>. QED BY <2>1, <3>1, <3>2 DEF TableInv
    <2>3. CASE ~Poll
      <3>1. scores' = scores
        BY <2>3 DEF Next, Client, Sample, Send, SendFails, Answer, Break, Die, Apply, Stop, Start
      <3>. QED BY <2>1, <3>1
    <2>. QED BY <2>2, <2>3
  <1>. QED BY <1>1, ReportInvariant, PTL DEF Spec, ScoresDoNotRegress

\* For any clients and any failures: only a call that its client gave up takes
\* the table back to an older report.
THEOREM OnlyGivenUpCallsRegress == Spec => RegressesOnlyByGivenUpCall
  <1>1. IInv /\ [Next]_vars
          => [\A n \in Stored \cap DOMAIN store' :
                store'[n].client = store[n].client /\ store'[n].seq < store[n].seq
                  => \E k \in Calls : /\ call[k] # Free /\ call'[k] = Free /\ ~call[k].awaited
                                      /\ UserOf[call[k].client] = n]_vars
    <2> SUFFICES ASSUME IInv, Next, NEW n \in Stored \cap DOMAIN store',
                        store'[n].client = store[n].client, store'[n].seq < store[n].seq
                 PROVE  \E k \in Calls : /\ call[k] # Free /\ call'[k] = Free /\ ~call[k].awaited
                                         /\ UserOf[call[k].client] = n
      OBVIOUS
    <2> USE DEF IInv
    <2>1. store[n].seq \in Int /\ ~(store[n].seq < store[n].seq)
      BY TableTyped DEF TypeOK, Stored
    <2>2. PICK k \in Calls : Apply(k)
      <3>1. CASE Stop
        BY <3>1 DEF Stop, NoReports
      <3>2. CASE ~Stop /\ ~\E k \in Calls : Apply(k)
        <4>1. store' = store
          BY <3>2 DEF Next, Client, Sample, Send, SendFails, Answer, Break, Die, Start, Poll
        <4>. QED BY <2>1, <4>1
      <3>. QED BY <3>1, <3>2
    <2> DEFINE c == call[k].client
    <2>3. /\ call[k] # Free /\ call'[k] = Free
          /\ store' = Upsert(store, UserOf[c], Report(c, call[k].seq))
      BY <2>2 DEF Apply, Put, TypeOK
    <2>4. /\ n = UserOf[c] /\ store'[n].client = c /\ store'[n].seq = call[k].seq
      <3>1. store'[n] = IF n = UserOf[c] THEN Report(c, call[k].seq) ELSE store[n]
        BY <2>3 DEF Upsert, Stored
      <3>. QED BY <2>1, <3>1 DEF Report
    <2>5. ~call[k].awaited
      BY <2>1, <2>3, <2>4, CallTyped DEF CallInv, TableInv
    <2>. QED BY <2>3, <2>4, <2>5
  <1>. QED BY <1>1, ReportInvariant, PTL DEF Spec, RegressesOnlyByGivenUpCall
=============================================================================
