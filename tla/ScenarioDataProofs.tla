-------------------------- MODULE ScenarioDataProofs --------------------------
(***************************************************************************)
(* What is proved about the scenarios' data: what is streamed arrives      *)
(* complete and under the episode and tick it belongs to (Streamit), for   *)
(* any number of messages; and the items of a binary file come on time     *)
(* (BinaryFile), for any file, buffer and start offset; and about citi     *)
(* bike: bikes are neither lost nor made, and what is cached of a frame is *)
(* what its snapshot shows (CitiBike).                                     *)
(***************************************************************************)
EXTENDS ScenarioData, CitiBike, DataLemmas

-----------------------------------------------------------------------------
(* Streaming.                                                              *)

Numbers == Nat \cup Episodes \cup Ticks
Message == [type : {"Experiment", "Episode", "Tick", "Data", "Close"}, value : Numbers]
Item == [data : Numbers, episode : Numbers, tick : Numbers]

StreamTypeOK ==
  /\ user \in {"new", "started", "paused", "joining", "closed"}
  /\ queue \in Seq(Message) /\ accepted \in Seq(Item) /\ received \in Seq(Item)
  /\ announced \in [episode : Numbers, tick : Numbers]
  /\ link \in {"none", "up", "down"}
  /\ sender \in [pc : {"off", "connect", "run", "ended"}, episode : Numbers, tick : Numbers,
                 metrics : Seq(Item), is_stopping : BOOLEAN]

(* Closing goes from the client to the sender and back: the sender stops   *)
(* only when the client puts nothing any more, and the client is closed    *)
(* only when the sender has ended.                                         *)
ClosingInv ==
  /\ sender.is_stopping \/ (\E k \in 1 .. Len(queue) : queue[k].type = "Close") => user \in {"joining", "closed"}
  /\ user = "new" => sender.pc = "off"
  /\ user = "closed" => sender.pc = "ended"
  /\ sender.pc \in {"off", "connect"} => link = "none"
  /\ sender.pc = "run" => link # "none"
  /\ sender.pc = "ended" /\ link = "up" => received = accepted /\ user \in {"joining", "closed"}

(* What the sender knows when it takes a message off the queue: how many   *)
(* data it has taken, and the episode and tick announced to it.            *)
Here == [n |-> Len(received) + Len(sender.metrics), episode |-> sender.episode, tick |-> sender.tick]
There == [n |-> Len(accepted), episode |-> announced.episode, tick |-> announced.tick]
After(msg, s) == [n |-> IF msg.type = "Data" THEN s.n + 1 ELSE s.n,
                  episode |-> IF msg.type = "Episode" THEN msg.value ELSE s.episode,
                  tick |-> IF msg.type = "Tick" THEN msg.value ELSE s.tick]

(* The data in a message is the next the sender takes, and was accepted    *)
(* under the episode and tick the sender will then know.                   *)
Fits(msg, s, data) ==
  msg.type = "Data" =>
    /\ msg.value = s.n + 1 /\ msg.value \in 1 .. Len(data)
    /\ data[msg.value] = [data |-> msg.value, episode |-> s.episode, tick |-> s.tick]

(* From what the sender knows now the messages lead to what the client has *)
(* announced last.                                                         *)
Leads(f) ==
  /\ f[1] = Here /\ f[Len(queue) + 1] = There
  /\ \A k \in 1 .. Len(queue) : f[k + 1] = After(queue[k], f[k]) /\ Fits(queue[k], f[k], accepted)

Holds(s) == Len(s) <= Len(accepted) /\ \A k \in 1 .. Len(s) : s[k] = accepted[k]

(* As long as nothing was lost, what the sender has sent and holds back is *)
(* the beginning of what was accepted.                                     *)
SenderInv ==
  /\ Holds(received)
  /\ sender.pc # "ended" /\ link # "down" =>
       /\ Holds(received \o sender.metrics)
       /\ \E f : Leads(f)

StreamInv == StreamTypeOK /\ ClosingInv /\ SenderInv

-----------------------------------------------------------------------------
(* The parts of a concatenation.                                           *)
LEMMA Concatenation ==
  ASSUME NEW Elems, NEW s \in Seq(Elems), NEW t \in Seq(Elems)
  PROVE  /\ s \o t \in Seq(Elems) /\ Len(s \o t) = Len(s) + Len(t)
         /\ \A k \in 1 .. Len(s) : (s \o t)[k] = s[k]
         /\ \A k \in 1 .. Len(t) : (s \o t)[Len(s) + k] = t[k]
OBVIOUS

(* What stays the same when the sequences only grow.                       *)
LEMMA HoldsMore ==
  ASSUME NEW s \in Seq(Item), Holds(s), StreamTypeOK, accepted' \in Seq(Item),
         Len(accepted) <= Len(accepted'), \A k \in 1 .. Len(accepted) : accepted'[k] = accepted[k]
  PROVE  Len(s) <= Len(accepted') /\ \A k \in 1 .. Len(s) : s[k] = accepted'[k]
<1>1. Len(s) \in Nat /\ Len(accepted) \in Nat /\ Len(accepted') \in Nat BY DEF StreamTypeOK
<1> QED BY <1>1 DEF Holds

(* A sequence of whatever is put joins what the queue leads to with what   *)
(* is announced and accepted with it.                                      *)
LEMMA PutLeads ==
  ASSUME StreamTypeOK, NEW f, Leads(f), NEW msgs \in Seq(Message), queue' = queue \o msgs,
         UNCHANGED <<received, sender>>, accepted' \in Seq(Item),
         Len(accepted) <= Len(accepted'), \A k \in 1 .. Len(accepted) : accepted'[k] = accepted[k],
         NEW g, g[1] = There, g[Len(msgs) + 1] = There',
         \A k \in 1 .. Len(msgs) : g[k + 1] = After(msgs[k], g[k]) /\ Fits(msgs[k], g[k], accepted')
  PROVE  \E h : Leads(h)'
<1> DEFINE L == Len(queue)
           M == Len(msgs)
           h == [k \in 1 .. L + M + 1 |-> IF k <= L + 1 THEN f[k] ELSE g[k - L]]
<1>1. /\ L \in Nat /\ M \in Nat /\ Len(queue') = L + M
      /\ \A k \in 1 .. L : queue'[k] = queue[k]
      /\ \A k \in 1 .. M : queue'[L + k] = msgs[k]
  BY DEF StreamTypeOK
<1>2. Here' = Here BY DEF Here
<1>3. f[1] = Here /\ f[L + 1] = There /\ \A k \in 1 .. L : f[k + 1] = After(queue[k], f[k]) /\ Fits(queue[k], f[k], accepted)
  BY DEF Leads
<1>4. \A k \in 1 .. L + 1 : h[k] = f[k] BY <1>1
<1>5. \A k \in 1 .. M + 1 : h[L + k] = g[k]
 <2> SUFFICES ASSUME NEW k \in 1 .. M + 1 PROVE h[L + k] = g[k]
   OBVIOUS
 <2>1. CASE k = 1 BY <1>1, <1>3, <2>1
 <2>2. CASE k > 1 BY <1>1, <2>2
 <2> QED BY <1>1, <2>1, <2>2
<1> HIDE DEF h
<1>6. \A k \in 1 .. L : Fits(queue[k], f[k], accepted')
 <2> SUFFICES ASSUME NEW k \in 1 .. L PROVE Fits(queue[k], f[k], accepted')
   OBVIOUS
 <2>1. Fits(queue[k], f[k], accepted) BY <1>3
 <2>2. Len(accepted) \in Nat /\ Len(accepted') \in Nat BY DEF StreamTypeOK
 <2> QED BY <2>1, <2>2 DEF Fits
<1>7. ASSUME NEW k \in 1 .. L + M
      PROVE  h[k + 1] = After(queue'[k], h[k]) /\ Fits(queue'[k], h[k], accepted')
 <2>1. CASE k \in 1 .. L
  <3>1. h[k] = f[k] /\ h[k + 1] = f[k + 1] /\ queue'[k] = queue[k] BY <1>1, <1>4, <2>1
  <3> QED BY <1>3, <1>6, <2>1, <3>1
 <2>2. CASE k \notin 1 .. L
  <3>1. PICK j \in 1 .. M : k = L + j
   <4>1. k - L \in 1 .. M /\ k = L + (k - L) BY <1>1, <2>2
   <4> QED BY <4>1
  <3>2. h[k] = g[j] /\ h[k + 1] = g[j + 1] /\ queue'[k] = msgs[j]
   <4>1. j \in 1 .. M + 1 /\ j + 1 \in 1 .. M + 1 /\ k + 1 = L + (j + 1) BY <1>1, <3>1
   <4>2. h[L + j] = g[j] /\ h[L + (j + 1)] = g[j + 1] BY <1>5, <4>1
   <4> QED BY <1>1, <3>1, <4>1, <4>2
  <3> QED BY <3>1, <3>2
 <2> QED BY <2>1, <2>2
<1>8. h[1] = Here' /\ h[Len(queue') + 1] = There'
 <2>1. 1 \in 1 .. L + 1 /\ M + 1 \in 1 .. M + 1 /\ Len(queue') + 1 = L + (M + 1) BY <1>1
 <2>2. h[1] = f[1] /\ h[L + (M + 1)] = g[M + 1] BY <1>4, <1>5, <2>1
 <2> QED BY <1>2, <1>3, <2>1, <2>2
<1> QED BY <1>1, <1>7, <1>8 DEF Leads

(* A message taken off the queue has led to what the sender knows next.    *)
LEMMA TakeLeads ==
  ASSUME StreamTypeOK, NEW f, Leads(f), queue # <<>>, queue' = Tail(queue),
         UNCHANGED <<accepted, announced>>, Here' = After(Head(queue), Here)
  PROVE  \E h : Leads(h)'
<1> DEFINE L == Len(queue)
           h == [k \in 1 .. L |-> f[k + 1]]
<1>1. L \in Nat /\ L >= 1 /\ Len(queue') = L - 1 /\ \A k \in 1 .. L - 1 : queue'[k] = queue[k + 1]
  BY DEF StreamTypeOK
<1>2. f[1] = Here /\ f[L + 1] = There /\ \A k \in 1 .. L : f[k + 1] = After(queue[k], f[k]) /\ Fits(queue[k], f[k], accepted)
  BY DEF Leads
<1>3. There' = There BY DEF There
<1>5. h[1] = Here' /\ h[Len(queue') + 1] = There' BY <1>1, <1>2, <1>3
<1>6. \A k \in 1 .. L - 1 : h[k + 1] = After(queue'[k], h[k]) /\ Fits(queue'[k], h[k], accepted')
 <2> SUFFICES ASSUME NEW k \in 1 .. L - 1 PROVE h[k + 1] = After(queue'[k], h[k]) /\ Fits(queue'[k], h[k], accepted')
   OBVIOUS
 <2>1. k + 1 \in 1 .. L /\ h[k] = f[k + 1] /\ h[k + 1] = f[(k + 1) + 1] /\ queue'[k] = queue[k + 1]
   BY <1>1
 <2> QED BY <1>2, <2>1
<1> HIDE DEF h
<1> QED BY <1>1, <1>5, <1>6 DEF Leads

-----------------------------------------------------------------------------
LEMMA StreamTypes ==
  ASSUME StreamTypeOK
  PROVE  /\ Len(queue) \in Nat /\ Len(accepted) \in Nat /\ Len(received) \in Nat
         /\ sender.metrics \in Seq(Item) /\ Len(sender.metrics) \in Nat
         /\ sender = [pc |-> sender.pc, episode |-> sender.episode, tick |-> sender.tick,
                      metrics |-> sender.metrics, is_stopping |-> sender.is_stopping]
BY DEF StreamTypeOK

(* A client that puts messages is not closing.                             *)
LEMMA PutKeeps ==
  ASSUME StreamInv, ensure_state, NEW msgs \in Seq(Message), queue' = queue \o msgs,
         UNCHANGED <<user, link, sender, received>>, accepted' \in Seq(Item),
         announced' \in [episode : Numbers, tick : Numbers],
         \A k \in 1 .. Len(msgs) : msgs[k].type # "Close",
         Len(accepted) <= Len(accepted'), \A k \in 1 .. Len(accepted) : accepted'[k] = accepted[k],
         NEW g, g[1] = There, g[Len(msgs) + 1] = There',
         \A k \in 1 .. Len(msgs) : g[k + 1] = After(msgs[k], g[k]) /\ Fits(msgs[k], g[k], accepted')
  PROVE  StreamInv'
<1>1. StreamTypeOK /\ ClosingInv /\ SenderInv /\ user = "started"
  BY DEF StreamInv, ensure_state
<1>2. StreamTypeOK' BY <1>1 DEF StreamTypeOK
<1>3. ClosingInv'
 <2>1. sender.pc # "ended" \/ link # "up" BY <1>1 DEF ClosingInv
 <2>2. ~ sender.is_stopping /\ \A k \in 1 .. Len(queue) : queue[k].type # "Close"
   BY <1>1 DEF ClosingInv
 <2>3. \A k \in 1 .. Len(queue') : queue'[k].type # "Close"
  <3> SUFFICES ASSUME NEW k \in 1 .. Len(queue') PROVE queue'[k].type # "Close"
    OBVIOUS
  <3>1. Len(queue) \in Nat /\ Len(msgs) \in Nat /\ Len(queue') = Len(queue) + Len(msgs) /\ queue \in Seq(Message)
    BY <1>1 DEF StreamTypeOK
  <3>2. CASE k \in 1 .. Len(queue) BY <2>2, <3>1, <3>2
  <3>3. CASE k \notin 1 .. Len(queue)
   <4>1. k - Len(queue) \in 1 .. Len(msgs) /\ queue'[k] = msgs[k - Len(queue)] BY <3>1, <3>3
   <4> QED BY <4>1
  <3> QED BY <3>2, <3>3
 <2> QED BY <1>1, <2>1, <2>2, <2>3 DEF ClosingInv
<1>4. SenderInv'
 <2>1. Holds(received)' BY <1>1, HoldsMore DEF SenderInv, StreamTypeOK, Holds
 <2>2. ASSUME sender.pc # "ended", link # "down" PROVE Holds(received \o sender.metrics)' /\ \E f : Leads(f)'
  <3>1. Holds(received \o sender.metrics) /\ \E f : Leads(f) BY <1>1, <2>2 DEF SenderInv
  <3>2. received \o sender.metrics \in Seq(Item) BY <1>1, StreamTypes DEF StreamTypeOK
  <3>3. Holds(received \o sender.metrics)' BY <1>1, <3>1, <3>2, HoldsMore DEF Holds
  <3>4. PICK f : Leads(f) BY <3>1
  <3> QED BY <1>1, <3>3, <3>4, PutLeads
 <2> QED BY <2>1, <2>2 DEF SenderInv
<1> QED BY <1>2, <1>3, <1>4 DEF StreamInv

LEMMA InfoKeeps == StreamInv /\ info => StreamInv'
<1> SUFFICES ASSUME StreamInv, info PROVE StreamInv'
  OBVIOUS
<1> DEFINE m == [type |-> "Experiment", value |-> 0]
           g == [k \in 1 .. 2 |-> There]
<1>1. /\ ensure_state /\ queue' = queue \o <<m>>
      /\ UNCHANGED <<user, announced, accepted, link, sender, received>>
  BY DEF info, _put
<1>2. m \in Message /\ <<m>> \in Seq(Message) /\ Len(<<m>>) = 1 /\ <<m>>[1] = m
  BY DEF Message, Numbers
<1>3. There' = There /\ After(m, There) = There BY <1>1 DEF There, After
<1>4. Fits(m, There, accepted') BY DEF Fits
<1>5. g[1] = There /\ g[2] = There OBVIOUS
<1>6. m.type # "Close" OBVIOUS
<1> HIDE DEF m, g
<1>7. StreamTypeOK BY DEF StreamInv
<1> DEFINE ms == <<m>>
<1>8. ms \in Seq(Message) /\ Len(ms) = 1 /\ ms[1] = m /\ queue' = queue \o ms BY <1>1, <1>2
<1> HIDE DEF ms
<1>9. \A k \in 1 .. Len(ms) : ms[k].type # "Close" /\ g[k + 1] = After(ms[k], g[k]) /\ Fits(ms[k], g[k], accepted')
  BY <1>3, <1>4, <1>5, <1>6, <1>8
<1>10. g[Len(ms) + 1] = There' BY <1>3, <1>5, <1>8
<1>11. accepted' \in Seq(Item) /\ announced' \in [episode : Numbers, tick : Numbers]
       /\ Len(accepted) <= Len(accepted') /\ \A k \in 1 .. Len(accepted) : accepted'[k] = accepted[k]
  BY <1>1, <1>7 DEF StreamTypeOK
<1> QED BY <1>1, <1>5, <1>8, <1>9, <1>10, <1>11, PutKeeps

(* An announcement is what the sender knows after it.                      *)
LEMMA AnnouncementKeeps ==
  ASSUME StreamInv, ensure_state, NEW type \in {"Episode", "Tick"}, NEW v \in Numbers,
         queue' = queue \o <<[type |-> type, value |-> v]>>,
         announced' = IF type = "Tick" THEN [announced EXCEPT !.tick = v] ELSE [announced EXCEPT !.episode = v],
         UNCHANGED <<user, accepted, link, sender, received>>
  PROVE  StreamInv'
<1> DEFINE m == [type |-> type, value |-> v]
           g == [k \in 1 .. 2 |-> IF k = 1 THEN There ELSE There']
           ms == <<m>>
<1>1. StreamTypeOK BY DEF StreamInv
<1>2. m \in Message /\ m.type # "Close" /\ Fits(m, There, accepted') BY DEF Message, Fits
<1>3. There' = After(m, There) BY <1>1 DEF There, After, StreamTypeOK
<1>4. g[1] = There /\ g[2] = There' OBVIOUS
<1>5. ms \in Seq(Message) /\ Len(ms) = 1 /\ ms[1] = m /\ queue' = queue \o ms BY <1>2
<1> HIDE DEF m, g, ms
<1>6. \A k \in 1 .. Len(ms) : ms[k].type # "Close" /\ g[k + 1] = After(ms[k], g[k]) /\ Fits(ms[k], g[k], accepted')
  BY <1>2, <1>3, <1>4, <1>5
<1>7. g[Len(ms) + 1] = There' BY <1>4, <1>5
<1>8. accepted' \in Seq(Item) /\ Len(accepted) <= Len(accepted')
      /\ \A k \in 1 .. Len(accepted) : accepted'[k] = accepted[k]
  BY <1>1 DEF StreamTypeOK
<1>9. announced' \in [episode : Numbers, tick : Numbers]
 <2>1. announced \in [episode : Numbers, tick : Numbers] BY <1>1 DEF StreamTypeOK
 <2> QED BY <2>1
<1> QED BY <1>4, <1>5, <1>6, <1>7, <1>8, <1>9, PutKeeps

LEMMA DataKeeps ==
  ASSUME StreamInv, NEW n \in Nat, data_(n)
  PROVE  StreamInv'
<1> DEFINE L == Len(accepted)
           ms == [k \in 1 .. n |-> [type |-> "Data", value |-> L + k]]
           new == [k \in 1 .. n |-> [data |-> L + k, episode |-> announced.episode, tick |-> announced.tick]]
           g == [k \in 1 .. n + 1 |-> [n |-> L + k - 1, episode |-> announced.episode, tick |-> announced.tick]]
<1>1. /\ ensure_state /\ queue' = queue \o ms /\ accepted' = accepted \o new
      /\ UNCHANGED <<user, announced, link, sender, received>>
  BY DEF data_, _put
<1>2. StreamTypeOK /\ L \in Nat /\ announced.episode \in Numbers /\ announced.tick \in Numbers
  BY DEF StreamInv, StreamTypeOK
<1>3. \A k \in 1 .. n : L + k \in Numbers BY <1>2 DEF Numbers
<1>4. ms \in Seq(Message) /\ Len(ms) = n /\ \A k \in 1 .. n : ms[k] = [type |-> "Data", value |-> L + k]
 <2>1. \A k \in 1 .. n : [type |-> "Data", value |-> L + k] \in Message BY <1>3 DEF Message
 <2> QED BY <2>1
<1>5. new \in Seq(Item) /\ Len(new) = n
 <2>1. \A k \in 1 .. n : [data |-> L + k, episode |-> announced.episode, tick |-> announced.tick] \in Item
   BY <1>2, <1>3 DEF Item
 <2> QED BY <2>1
<1>6. \A k \in 1 .. n : new[k] = [data |-> L + k, episode |-> announced.episode, tick |-> announced.tick]
  OBVIOUS
<1>7. \A k \in 1 .. n + 1 : g[k] = [n |-> L + k - 1, episode |-> announced.episode, tick |-> announced.tick]
  OBVIOUS
<1> HIDE DEF ms, new, g
<1>8. /\ accepted' \in Seq(Item) /\ Len(accepted') = L + n
      /\ \A k \in 1 .. L : accepted'[k] = accepted[k]
      /\ \A k \in 1 .. n : accepted'[L + k] = new[k]
 <2>1. accepted \in Seq(Item) /\ new \in Seq(Item) /\ Len(new) = n /\ accepted' = accepted \o new
   BY <1>1, <1>2, <1>5 DEF StreamTypeOK
 <2>2. accepted' \in Seq(Item) BY <2>1, Concatenation
 <2>3. Len(accepted') = L + n BY <2>1, Concatenation
 <2>4. \A k \in 1 .. L : accepted'[k] = accepted[k] BY <2>1, Concatenation
 <2>5. \A k \in 1 .. n : accepted'[L + k] = new[k] BY <2>1, Concatenation
 <2> QED BY <2>2, <2>3, <2>4, <2>5
<1>9. g[1] = There /\ g[n + 1] = There'
 <2>1. 1 \in 1 .. n + 1 /\ n + 1 \in 1 .. n + 1 /\ L + 1 - 1 = L /\ L + (n + 1) - 1 = L + n
   BY <1>2
 <2>2. announced' = announced /\ Len(accepted') = L + n BY <1>1, <1>8
 <2> QED BY <1>7, <2>1, <2>2 DEF There
<1>10. \A k \in 1 .. n : ms[k].type # "Close" /\ g[k + 1] = After(ms[k], g[k]) /\ Fits(ms[k], g[k], accepted')
 <2> SUFFICES ASSUME NEW k \in 1 .. n
              PROVE  ms[k].type # "Close" /\ g[k + 1] = After(ms[k], g[k]) /\ Fits(ms[k], g[k], accepted')
   OBVIOUS
 <2>1. /\ ms[k] = [type |-> "Data", value |-> L + k]
       /\ k \in 1 .. n + 1 /\ k + 1 \in 1 .. n + 1 /\ L + (k + 1) - 1 = (L + k - 1) + 1 /\ (L + k - 1) + 1 = L + k
       /\ L + k \in 1 .. Len(accepted')
   BY <1>2, <1>4, <1>8
 <2>2. /\ g[k] = [n |-> L + k - 1, episode |-> announced.episode, tick |-> announced.tick]
       /\ g[k + 1] = [n |-> (L + k - 1) + 1, episode |-> announced.episode, tick |-> announced.tick]
   BY <1>7, <2>1
 <2>3. accepted'[L + k] = [data |-> L + k, episode |-> announced.episode, tick |-> announced.tick]
   BY <1>6, <1>8
 <2> QED BY <2>1, <2>2, <2>3 DEF After, Fits
<1>11. announced' \in [episode : Numbers, tick : Numbers] /\ Len(accepted) <= Len(accepted')
  BY <1>1, <1>2, <1>8 DEF StreamTypeOK
<1> QED BY <1>1, <1>4, <1>8, <1>9, <1>10, <1>11, PutKeeps

(* Steps that leave the sequences alone.                                   *)
LEMMA QuietKeeps ==
  ASSUME StreamInv, UNCHANGED <<queue, announced, accepted, received>>,
         StreamTypeOK', ClosingInv',
         sender'.metrics = sender.metrics, sender'.episode = sender.episode, sender'.tick = sender.tick,
         sender'.pc # "ended" /\ link' # "down" => sender.pc # "ended" /\ link # "down"
  PROVE  StreamInv'
<1>1. Here' = Here /\ There' = There BY DEF Here, There
<1>2. \A f : Leads(f) => Leads(f)' BY <1>1 DEF Leads
<1>3. Holds(received) => Holds(received)' BY DEF Holds
<1>4. Holds(received \o sender.metrics) => Holds(received \o sender.metrics)' BY DEF Holds
<1>5. SenderInv' BY <1>2, <1>3, <1>4 DEF StreamInv, SenderInv
<1> QED BY <1>5 DEF StreamInv

(* The sender takes a message; what it has sent or holds back becomes sent,*)
(* now together with the data of the message if there are any.             *)
LEMMA TakeKeeps ==
  ASSUME StreamInv, sender.pc = "run", queue # <<>>, queue' = Tail(queue),
         UNCHANGED <<user, announced, accepted, link>>,
         StreamTypeOK', sender'.pc = "run",
         sender'.is_stopping => sender.is_stopping \/ Head(queue).type = "Close",
         link # "down" =>
           /\ Here' = After(Head(queue), Here)
           /\ Holds(received \o sender.metrics)',
         Holds(received)'
  PROVE  StreamInv'
<1>1. StreamTypeOK /\ ClosingInv /\ SenderInv BY DEF StreamInv
<1>2. /\ Len(queue) \in Nat /\ Len(queue) >= 1 /\ Head(queue) = queue[1] /\ Len(queue') = Len(queue) - 1
      /\ \A k \in 1 .. Len(queue') : queue'[k] = queue[k + 1]
  BY <1>1 DEF StreamTypeOK
<1>3. ClosingInv'
 <2>1. \A k \in 1 .. Len(queue') : k + 1 \in 1 .. Len(queue) /\ queue'[k] = queue[k + 1]
   BY <1>2
 <2>2. sender'.is_stopping \/ (\E k \in 1 .. Len(queue') : queue'[k].type = "Close")
         => sender.is_stopping \/ \E k \in 1 .. Len(queue) : queue[k].type = "Close"
   BY <1>2, <2>1
 <2> QED BY <1>1, <2>2 DEF ClosingInv
<1>4. ASSUME link # "down" PROVE \E f : Leads(f)'
 <2>1. PICK f : Leads(f) BY <1>1, <1>4 DEF SenderInv
 <2> QED BY <1>1, <1>4, <2>1, TakeLeads
<1>5. SenderInv' BY <1>4 DEF SenderInv
<1> QED BY <1>3, <1>5 DEF StreamInv

(* The sender's record after a step.                                       *)
LEMMA TookHead ==
  ASSUME StreamTypeOK, NEW type, Took(type)
  PROVE  /\ sender.pc = "run" /\ queue # <<>> /\ queue' = Tail(queue)
         /\ Head(queue).type = type /\ Head(queue) \in Message /\ Announced \in Numbers
         /\ queue' \in Seq(Message)
<1>1. queue \in Seq(Message) /\ queue # <<>> BY DEF StreamTypeOK, Took
<1>2. Head(queue) \in Message /\ Tail(queue) \in Seq(Message) BY <1>1
<1> QED BY <1>1, <1>2 DEF Took, Announced, Message

LEMMA HandleExperimentKeeps == StreamInv /\ handle_experiment => StreamInv'
<1> SUFFICES ASSUME StreamInv, handle_experiment PROVE StreamInv'
  OBVIOUS
<1>1. StreamTypeOK /\ Took("Experiment") /\ UNCHANGED <<user, announced, accepted, messages, link, sender, received>>
  BY DEF StreamInv, handle_experiment, ClientWaits
<1>2. StreamTypeOK' BY <1>1, TookHead DEF StreamTypeOK
<1>3. Here' = After(Head(queue), Here) BY <1>1, TookHead DEF Here, After
<1>4. Holds(received)' /\ (link # "down" => Holds(received \o sender.metrics)')
  BY <1>1, TookHead DEF StreamInv, SenderInv, Holds
<1> QED BY <1>1, <1>2, <1>3, <1>4, TookHead, TakeKeeps

LEMMA HandleCloseKeeps == StreamInv /\ handle_close => StreamInv'
<1> SUFFICES ASSUME StreamInv, handle_close PROVE StreamInv'
  OBVIOUS
<1>1. /\ StreamTypeOK /\ Took("Close") /\ UNCHANGED <<user, announced, accepted, messages, link, received>>
      /\ sender' = [sender EXCEPT !.is_stopping = TRUE]
  BY DEF StreamInv, handle_close, ClientWaits
<1>2. /\ sender'.pc = sender.pc /\ sender'.metrics = sender.metrics
      /\ sender'.episode = sender.episode /\ sender'.tick = sender.tick
  BY <1>1 DEF StreamTypeOK
<1>3. StreamTypeOK' BY <1>1, TookHead DEF StreamTypeOK
<1>4. Here' = After(Head(queue), Here) BY <1>1, <1>2, TookHead DEF Here, After
<1>5. Holds(received)' /\ (link # "down" => Holds(received \o sender.metrics)')
  BY <1>1, <1>2, TookHead DEF StreamInv, SenderInv, Holds
<1> QED BY <1>1, <1>2, <1>3, <1>4, <1>5, TookHead, TakeKeeps

LEMMA HandleEpisodeKeeps == StreamInv /\ handle_episode => StreamInv'
<1> SUFFICES ASSUME StreamInv, handle_episode PROVE StreamInv'
  OBVIOUS
<1>1. /\ StreamTypeOK /\ Took("Episode") /\ UNCHANGED <<user, announced, accepted, messages, link, received>>
      /\ sender' = [sender EXCEPT !.episode = Announced]
  BY DEF StreamInv, handle_episode, ClientWaits
<1>2. /\ sender'.pc = sender.pc /\ sender'.metrics = sender.metrics
      /\ sender'.episode = Announced /\ sender'.tick = sender.tick /\ sender'.is_stopping = sender.is_stopping
  BY <1>1 DEF StreamTypeOK
<1>3. StreamTypeOK' BY <1>1, TookHead DEF StreamTypeOK
<1>4. Here' = After(Head(queue), Here) BY <1>1, <1>2, TookHead DEF Here, After, Announced
<1>5. Holds(received)' /\ (link # "down" => Holds(received \o sender.metrics)')
  BY <1>1, <1>2, TookHead DEF StreamInv, SenderInv, Holds
<1> QED BY <1>1, <1>2, <1>3, <1>4, <1>5, TookHead, TakeKeeps

LEMMA HandleTickKeeps == StreamInv /\ handle_tick => StreamInv'
<1> SUFFICES ASSUME StreamInv, handle_tick PROVE StreamInv'
  OBVIOUS
<1>1. /\ StreamTypeOK /\ Took("Tick") /\ UNCHANGED <<user, announced, accepted, messages, link>>
      /\ received' = IF link = "up" THEN received \o sender.metrics ELSE received
      /\ sender' = [sender EXCEPT !.metrics = Flushed(@),
                                  !.tick = IF link = "up" \/ sender.metrics = <<>> THEN Announced ELSE @]
  BY DEF StreamInv, handle_tick, ClientWaits, _send
<1>2. /\ sender'.pc = sender.pc /\ sender'.metrics = Flushed(sender.metrics)
      /\ sender'.tick = IF link = "up" \/ sender.metrics = <<>> THEN Announced ELSE sender.tick
      /\ sender'.episode = sender.episode /\ sender'.is_stopping = sender.is_stopping
  BY <1>1 DEF StreamTypeOK
<1>3. received \in Seq(Item) /\ sender.metrics \in Seq(Item) /\ received \o sender.metrics \in Seq(Item)
  BY <1>1 DEF StreamTypeOK
<1>4. StreamTypeOK'
 <2>1. received' \in Seq(Item) /\ Flushed(sender.metrics) \in Seq(Item)
   BY <1>1, <1>3 DEF Flushed
 <2>2. sender' \in [pc : {"off", "connect", "run", "ended"}, episode : Numbers, tick : Numbers,
                    metrics : Seq(Item), is_stopping : BOOLEAN]
  <3>1. (IF link = "up" \/ sender.metrics = <<>> THEN Announced ELSE sender.tick) \in Numbers
    BY <1>1, TookHead DEF StreamTypeOK
  <3> QED BY <1>1, <2>1, <3>1 DEF StreamTypeOK
 <2> QED BY <1>1, <2>1, <2>2, TookHead DEF StreamTypeOK
<1>5. link # "down" => link = "up" BY <1>1, TookHead DEF StreamInv, ClosingInv, StreamTypeOK
<1>6. SenderInv /\ sender.pc = "run" BY <1>1, TookHead DEF StreamInv
<1>7. ASSUME link # "down" PROVE Here' = After(Head(queue), Here) /\ Holds(received \o sender.metrics)'
 <2>1. received' = received \o sender.metrics /\ sender'.metrics = <<>> /\ sender'.tick = Announced
   BY <1>1, <1>2, <1>5, <1>7 DEF Flushed
 <2>2. Len(received') = Len(received) + Len(sender.metrics) /\ Len(<<>>) = 0 BY <1>3, <2>1
 <2>3. Len(received') + 0 = Len(received) + Len(sender.metrics) BY <1>3, <2>2
 <2>4. Here' = After(Head(queue), Here)
   BY <1>1, <1>2, <2>1, <2>2, <2>3, TookHead DEF Here, After, Announced
 <2>5. received' \o <<>> = received' BY <1>3, <2>1
 <2>6. Holds(received \o sender.metrics) BY <1>6, <1>7 DEF SenderInv
 <2> QED BY <1>1, <2>1, <2>4, <2>5, <2>6 DEF Holds
<1>8. Holds(received)'
 <2>1. CASE link = "up" BY <1>1, <1>6, <2>1 DEF SenderInv, Holds
 <2>2. CASE link # "up" BY <1>1, <1>6, <2>2 DEF SenderInv, Holds
 <2> QED BY <2>1, <2>2
<1> QED BY <1>1, <1>2, <1>4, <1>7, <1>8, TookHead, TakeKeeps

LEMMA HandleDataKeeps == StreamInv /\ handle_data => StreamInv'
<1> SUFFICES ASSUME StreamInv, handle_data PROVE StreamInv'
  OBVIOUS
<1> DEFINE x == [data |-> Announced, episode |-> sender.episode, tick |-> sender.tick]
           metrics == Append(sender.metrics, x)
<1>1. /\ StreamTypeOK /\ Took("Data") /\ UNCHANGED <<user, announced, accepted, messages, link>>
      /\ \/ /\ received' = IF link = "up" THEN received \o metrics ELSE received
            /\ sender' = [sender EXCEPT !.metrics = Flushed(metrics)]
         \/ received' = received /\ sender' = [sender EXCEPT !.metrics = metrics]
  BY DEF StreamInv, handle_data, ClientWaits, _send
<1>2. x \in Item BY <1>1, TookHead DEF Item, StreamTypeOK
<1>3. received \in Seq(Item) /\ sender.metrics \in Seq(Item) BY <1>1 DEF StreamTypeOK
<1>4. /\ metrics \in Seq(Item) /\ Len(metrics) = Len(sender.metrics) + 1
      /\ metrics[Len(sender.metrics) + 1] = x
      /\ \A k \in 1 .. Len(sender.metrics) : metrics[k] = sender.metrics[k]
 <2> HIDE DEF x
 <2> QED BY <1>2, <1>3
<1>5. x.data = Announced /\ x.episode = sender.episode /\ x.tick = sender.tick
      /\ x = [data |-> Announced, episode |-> sender.episode, tick |-> sender.tick]
  OBVIOUS
<1> HIDE DEF metrics, x
<1>6. /\ sender'.pc = sender.pc /\ sender'.tick = sender.tick
      /\ sender'.episode = sender.episode /\ sender'.is_stopping = sender.is_stopping
  BY <1>1 DEF StreamTypeOK
<1>7. \/ received' = received \o metrics /\ sender'.metrics = <<>> /\ link = "up"
      \/ received' = received /\ sender'.metrics = metrics
  BY <1>1 DEF StreamTypeOK, Flushed
<1>8. StreamTypeOK'
 <2>1. received' \in Seq(Item) BY <1>3, <1>4, <1>7, Concatenation
 <2>2. Flushed(metrics) \in Seq(Item) BY <1>4 DEF Flushed
 <2> QED BY <1>1, <1>4, <2>1, <2>2, TookHead DEF StreamTypeOK
<1>9. SenderInv /\ sender.pc = "run" BY <1>1, TookHead DEF StreamInv
<1>10. received' \o sender'.metrics = received \o metrics
 <2>1. CASE received' = received \o metrics /\ sender'.metrics = <<>>
  <3>1. received' \in Seq(Item) BY <1>8 DEF StreamTypeOK
  <3>2. received' \o <<>> = received' BY <3>1
  <3> QED BY <2>1, <3>2
 <2>2. CASE received' = received /\ sender'.metrics = metrics BY <2>2
 <2> QED BY <1>7, <2>1, <2>2
<1>11. ASSUME link # "down" PROVE Here' = After(Head(queue), Here) /\ Holds(received \o metrics)
 <2> DEFINE n0 == Len(received) + Len(sender.metrics)
 <2>1. PICK f : Leads(f) BY <1>9, <1>11 DEF SenderInv
 <2>2. 1 \in 1 .. Len(queue) /\ Head(queue) = queue[1] BY <1>1, TookHead DEF StreamTypeOK
 <2>3. Fits(Head(queue), Here, accepted) BY <2>1, <2>2 DEF Leads
 <2>4. Announced = n0 + 1 /\ Announced \in 1 .. Len(accepted) /\ accepted[Announced] = x
   BY <1>1, <1>5, <2>3, TookHead DEF Fits, Here, Announced
 <2>5. n0 \in Nat /\ Len(received) \in Nat /\ Len(sender.metrics) \in Nat /\ Len(accepted) \in Nat
   BY <1>1 DEF StreamTypeOK
 <2>6. /\ Len(received \o metrics) = n0 + 1
       /\ \A k \in 1 .. Len(received) : (received \o metrics)[k] = received[k]
       /\ \A k \in 1 .. Len(metrics) : (received \o metrics)[Len(received) + k] = metrics[k]
  <3>1. Len(received \o metrics) = Len(received) + Len(metrics) BY <1>3, <1>4, Concatenation
  <3>2. \A k \in 1 .. Len(received) : (received \o metrics)[k] = received[k]
    BY <1>3, <1>4, Concatenation
  <3>3. \A k \in 1 .. Len(metrics) : (received \o metrics)[Len(received) + k] = metrics[k]
    BY <1>3, <1>4, Concatenation
  <3>4. Len(received) + Len(metrics) = n0 + 1 BY <1>4, <2>5
  <3> QED BY <3>1, <3>2, <3>3, <3>4
 <2>7. /\ Len(received \o sender.metrics) = n0
       /\ \A k \in 1 .. Len(received) : (received \o sender.metrics)[k] = received[k]
       /\ \A k \in 1 .. Len(sender.metrics) : (received \o sender.metrics)[Len(received) + k] = sender.metrics[k]
  <3>1. Len(received \o sender.metrics) = n0 BY <1>3, Concatenation
  <3>2. \A k \in 1 .. Len(received) : (received \o sender.metrics)[k] = received[k]
    BY <1>3, Concatenation
  <3>3. \A k \in 1 .. Len(sender.metrics) :
          (received \o sender.metrics)[Len(received) + k] = sender.metrics[k]
    BY <1>3, Concatenation
  <3> QED BY <3>1, <3>2, <3>3
 <2>8. Holds(received \o sender.metrics) BY <1>9, <1>11 DEF SenderInv
 <2>9. ASSUME NEW k \in 1 .. n0 + 1 PROVE (received \o metrics)[k] = accepted[k]
  <3>1. CASE k \in 1 .. Len(received)
   <4>1. k \in 1 .. Len(received \o sender.metrics) BY <2>5, <2>7, <3>1
   <4> QED BY <2>6, <2>7, <2>8, <3>1, <4>1 DEF Holds
  <3>2. CASE k \notin 1 .. Len(received) /\ k # n0 + 1
   <4> DEFINE j == k - Len(received)
   <4>5. k \in 1 .. n0 + 1 /\ Len(metrics) = Len(sender.metrics) + 1 BY <1>4
   <4>6. k \in Nat /\ k > Len(received) /\ k <= Len(received) + Len(sender.metrics)
     BY <2>5, <3>2, <4>5
   <4>1. j \in 1 .. Len(sender.metrics) /\ j \in 1 .. Len(metrics) /\ k = Len(received) + j /\ k \in 1 .. n0
     BY <2>5, <4>5, <4>6
   <4> HIDE DEF j
   <4>2. (received \o metrics)[k] = metrics[j] /\ metrics[j] = sender.metrics[j]
     BY <1>4, <2>6, <4>1
   <4>3. (received \o sender.metrics)[k] = sender.metrics[j] BY <2>7, <4>1
   <4> QED BY <2>7, <2>8, <4>1, <4>2, <4>3 DEF Holds
  <3>3. CASE k = n0 + 1
   <4>1. k = Len(received) + (Len(sender.metrics) + 1) /\ Len(sender.metrics) + 1 \in 1 .. Len(metrics)
     BY <1>4, <2>5, <3>3
   <4>2. (received \o metrics)[k] = x BY <1>4, <2>6, <4>1
   <4> QED BY <2>4, <3>3, <4>2
  <3> QED BY <3>1, <3>2, <3>3
 <2>10. Holds(received \o metrics) BY <2>4, <2>5, <2>6, <2>9 DEF Holds
 <2>11. Len(received') + Len(sender'.metrics) = n0 + 1
  <3>1. Len(<<>>) = 0 /\ Len(received \o metrics) + 0 = n0 + 1 BY <2>5, <2>6
  <3>2. Len(received) + Len(metrics) = n0 + 1 BY <1>4, <2>5
  <3> QED BY <1>7, <3>1, <3>2
 <2>12. Here' = [n |-> n0 + 1, episode |-> sender.episode, tick |-> sender.tick]
   BY <1>6, <2>11 DEF Here
 <2> QED BY <1>1, <2>10, <2>12, TookHead DEF After, Here
<1>12. link # "down" => Holds(received \o sender.metrics)' BY <1>1, <1>10, <1>11 DEF Holds
<1>13. Holds(received)'
 <2>1. CASE received' = received BY <1>1, <1>9, <2>1 DEF SenderInv, Holds
 <2>2. CASE received' = received \o metrics /\ link = "up" BY <1>1, <1>11, <2>2 DEF Holds
 <2> QED BY <1>7, <2>1, <2>2
<1> QED BY <1>1, <1>6, <1>8, <1>9, <1>11, <1>12, <1>13, TookHead, TakeKeeps

(* The sender ends when the client is closing and the queue is empty: it   *)
(* has then taken all that was accepted.                                   *)
LEMMA SenderEndsKeeps == StreamInv /\ sender_ends => StreamInv'
<1> SUFFICES ASSUME StreamInv, sender_ends PROVE StreamInv'
  OBVIOUS
<1>1. /\ sender.pc = "run" /\ queue = <<>> /\ sender.is_stopping
      /\ received' = IF link = "up" THEN received \o sender.metrics ELSE received
      /\ sender' = [sender EXCEPT !.pc = "ended"]
      /\ UNCHANGED <<queue, user, announced, accepted, messages, link>>
  BY DEF sender_ends, _send, ClientWaits
<1>2. StreamTypeOK /\ ClosingInv /\ SenderInv BY DEF StreamInv
<1>3. received \in Seq(Item) /\ sender.metrics \in Seq(Item) /\ received \o sender.metrics \in Seq(Item)
  BY <1>2 DEF StreamTypeOK
<1>4. sender'.pc = "ended" /\ sender'.is_stopping = sender.is_stopping
  BY <1>1, <1>2 DEF StreamTypeOK
<1>5. ASSUME link = "up" PROVE received' = accepted
 <2>1. PICK f : Leads(f) BY <1>1, <1>2, <1>5 DEF SenderInv
 <2>2. Here = There
  <3>1. Len(queue) + 1 = 1 BY <1>1
  <3> QED BY <2>1, <3>1 DEF Leads
 <2>3. Len(received) + Len(sender.metrics) = Len(accepted) BY <2>2 DEF Here, There
 <2>4. Holds(received \o sender.metrics) BY <1>1, <1>2, <1>5 DEF SenderInv
 <2>5. Len(received \o sender.metrics) = Len(accepted) /\ accepted \in Seq(Item)
   BY <1>2, <1>3, <2>3, Concatenation DEF StreamTypeOK
 <2> DEFINE s == received \o sender.metrics
 <2>6. s \in Seq(Item) /\ Len(s) = Len(accepted) /\ \A k \in 1 .. Len(s) : s[k] = accepted[k]
   BY <1>3, <2>4, <2>5 DEF Holds
 <2> HIDE DEF s
 <2>7. s = accepted BY <2>5, <2>6
 <2> QED BY <1>1, <1>5, <2>7 DEF s
<1>6. StreamTypeOK' BY <1>1, <1>2, <1>3 DEF StreamTypeOK
<1>7. ClosingInv' BY <1>1, <1>2, <1>4, <1>5 DEF ClosingInv
<1>8. Holds(received)'
 <2>1. CASE link = "up" BY <1>1, <1>2, <1>5, <2>1 DEF Holds, StreamTypeOK
 <2>2. CASE link # "up" BY <1>1, <1>2, <2>2 DEF Holds, SenderInv
 <2> QED BY <2>1, <2>2
<1> QED BY <1>4, <1>6, <1>7, <1>8 DEF StreamInv, SenderInv

LEMMA CloseKeeps == StreamInv /\ close => StreamInv'
<1> SUFFICES ASSUME StreamInv, close PROVE StreamInv'
  OBVIOUS
<1>1. StreamTypeOK /\ ClosingInv /\ SenderInv /\ user \in {"started", "paused"}
      /\ UNCHANGED <<announced, accepted, messages, link, sender, received>>
  BY DEF StreamInv, close
<1>2. CASE sender.pc = "ended"
 <2>1. user' = "closed" /\ queue' = queue BY <1>2 DEF close
 <2>2. StreamTypeOK' /\ ClosingInv' BY <1>1, <1>2, <2>1 DEF StreamTypeOK, ClosingInv
 <2> QED BY <1>1, <2>1, <2>2, QuietKeeps
<1>3. CASE sender.pc # "ended"
 <2> DEFINE m == [type |-> "Close", value |-> 0]
            ms == <<m>>
            g == [k \in 1 .. 2 |-> There]
 <2>1. user' = "joining" /\ queue' = Append(queue, m) BY <1>3 DEF close
 <2>2. m \in Message BY DEF Message, Numbers
 <2>3. After(m, There) = There /\ Fits(m, There, accepted') /\ There' = There /\ g[1] = There /\ g[2] = There
   BY <1>1 DEF There, After, Fits
 <2> HIDE DEF m, g
 <2>4. ms \in Seq(Message) /\ Len(ms) = 1 /\ ms[1] = m /\ queue' = queue \o ms
   BY <1>1, <2>1, <2>2 DEF StreamTypeOK
 <2> HIDE DEF ms
 <2>5. StreamTypeOK' BY <1>1, <2>1, <2>2 DEF StreamTypeOK
 <2>6. ClosingInv' BY <1>1, <1>3, <2>1 DEF ClosingInv
 <2>7. ASSUME link # "down" PROVE \E f : Leads(f)'
  <3>1. PICK f : Leads(f) BY <1>1, <1>3, <2>7 DEF SenderInv
  <3>2. \A k \in 1 .. Len(ms) : g[k + 1] = After(ms[k], g[k]) /\ Fits(ms[k], g[k], accepted')
    BY <2>3, <2>4
  <3>3. g[Len(ms) + 1] = There' BY <2>3, <2>4
  <3>4. accepted' \in Seq(Item) /\ Len(accepted) <= Len(accepted')
        /\ \A k \in 1 .. Len(accepted) : accepted'[k] = accepted[k]
    BY <1>1 DEF StreamTypeOK
  <3> QED BY <1>1, <2>3, <2>4, <3>1, <3>2, <3>3, <3>4, PutLeads
 <2>8. SenderInv' BY <1>1, <1>3, <2>7 DEF SenderInv, Holds
 <2> QED BY <2>5, <2>6, <2>8 DEF StreamInv
<1> QED BY <1>2, <1>3

(* The remaining steps only change where the parts stand.                  *)
LEMMA StatusKeeps ==
  ASSUME StreamInv, start \/ pause \/ join \/ open_connection \/ connection_lost
  PROVE  StreamInv'
<1>1. StreamTypeOK /\ ClosingInv BY DEF StreamInv
<1>2. UNCHANGED <<queue, announced, accepted, received>>
  BY DEF start, pause, join, open_connection, connection_lost
<1>3. CASE start
 <2>1. /\ user = "new" /\ user' = "started" /\ link' = link
       /\ sender' = [sender EXCEPT !.pc = "connect"]
   BY <1>3 DEF start
 <2>2. /\ sender'.pc = "connect" /\ sender'.metrics = sender.metrics /\ sender'.episode = sender.episode
       /\ sender'.tick = sender.tick /\ sender'.is_stopping = sender.is_stopping /\ sender.pc = "off"
   BY <1>1, <2>1 DEF StreamTypeOK, ClosingInv
 <2>3. StreamTypeOK' /\ ClosingInv' BY <1>1, <1>2, <2>1, <2>2 DEF StreamTypeOK, ClosingInv
 <2> QED BY <1>2, <2>1, <2>2, <2>3, QuietKeeps
<1>4. CASE pause \/ join
 <2>1. link' = link /\ sender' = sender BY <1>4 DEF pause, join
 <2>2. StreamTypeOK' BY <1>1, <1>2, <1>4, <2>1 DEF StreamTypeOK, pause, join
 <2>3. ClosingInv' BY <1>1, <1>2, <1>4, <2>1 DEF ClosingInv, pause, join, ensure_state
 <2> QED BY <1>2, <2>1, <2>2, <2>3, QuietKeeps
<1>5. CASE open_connection
 <2>1. /\ sender.pc = "connect" /\ user' = user
       /\ \/ link' = "up" /\ sender' = [sender EXCEPT !.pc = "run"]
          \/ link' = link /\ sender' = [sender EXCEPT !.pc = "ended"]
   BY <1>5 DEF open_connection
 <2>2. /\ sender'.metrics = sender.metrics /\ sender'.episode = sender.episode
       /\ sender'.tick = sender.tick /\ sender'.is_stopping = sender.is_stopping
       /\ \/ link' = "up" /\ sender'.pc = "run"
          \/ link' = link /\ sender'.pc = "ended"
       /\ link = "none"
   BY <1>1, <2>1 DEF StreamTypeOK, ClosingInv
 <2>3. StreamTypeOK' /\ ClosingInv' BY <1>1, <1>2, <2>1, <2>2 DEF StreamTypeOK, ClosingInv
 <2> QED BY <1>2, <2>1, <2>2, <2>3, QuietKeeps
<1>6. CASE connection_lost
 <2>1. link = "up" /\ link' = "down" /\ UNCHANGED <<user, sender>>
   BY <1>6 DEF connection_lost
 <2>2. StreamTypeOK' /\ ClosingInv' BY <1>1, <1>2, <2>1 DEF StreamTypeOK, ClosingInv
 <2> QED BY <1>2, <2>1, <2>2, QuietKeeps
<1> QED BY <1>3, <1>4, <1>5, <1>6

LEMMA StreamInvInit == StreamInit => StreamInv
<1> SUFFICES ASSUME StreamInit PROVE StreamInv
  OBVIOUS
<1>1. StreamTypeOK BY DEF StreamInit, StreamTypeOK, Numbers
<1>2. ClosingInv BY DEF StreamInit, ClosingInv
<1>3. received = <<>> /\ sender.metrics = <<>> /\ accepted = <<>> /\ queue = <<>>
      /\ Here = [n |-> 0, episode |-> 0, tick |-> 0] /\ There = [n |-> 0, episode |-> 0, tick |-> 0]
  BY DEF StreamInit, Here, There
<1>4. Holds(received) /\ Holds(received \o sender.metrics)
 <2>1. <<>> \o <<>> = <<>> OBVIOUS
 <2> QED BY <1>3, <2>1 DEF Holds
<1>5. Leads([k \in {1} |-> Here]) BY <1>3 DEF Leads
<1> QED BY <1>1, <1>2, <1>4, <1>5 DEF StreamInv, SenderInv

LEMMA StreamInvStep == StreamInv /\ StreamNext => StreamInv'
<1> SUFFICES ASSUME StreamInv, StreamNext PROVE StreamInv'
  OBVIOUS
<1>1. ASSUME NEW t \in Ticks, tick_(t) PROVE StreamInv'
 <2>1. /\ ensure_state /\ t \in Numbers /\ queue' = queue \o <<[type |-> "Tick", value |-> t]>>
       /\ announced' = [announced EXCEPT !.tick = t] /\ UNCHANGED <<user, accepted, link, sender, received>>
   BY <1>1 DEF tick_, _put, Numbers
 <2> QED BY <2>1, AnnouncementKeeps
<1>2. ASSUME NEW e \in Episodes, episode_(e) PROVE StreamInv'
 <2>1. /\ ensure_state /\ e \in Numbers /\ queue' = queue \o <<[type |-> "Episode", value |-> e]>>
       /\ announced' = [announced EXCEPT !.episode = e] /\ UNCHANGED <<user, accepted, link, sender, received>>
   BY <1>2 DEF episode_, _put, Numbers
 <2> QED BY <2>1, AnnouncementKeeps
<1>3. ASSUME NEW n \in 1 .. 2, data_(n) PROVE StreamInv' BY <1>3, DataKeeps
<1> QED BY <1>1, <1>2, <1>3, InfoKeeps, CloseKeeps, StatusKeeps, HandleExperimentKeeps, HandleEpisodeKeeps,
           HandleTickKeeps, HandleDataKeeps, HandleCloseKeeps, SenderEndsKeeps
        DEF StreamNext, SenderNext

(* What a client streams arrives once, in order and under the episode and  *)
(* tick announced before it, and when close returns all of it has arrived  *)
(* unless the connection was lost - whatever the size of the sender's      *)
(* cache and however far it lags behind.                                   *)
THEOREM StreamArrives == DataSpec => []StreamIsComplete
<1>1. DataInit => StreamInv BY StreamInvInit DEF DataInit
<1>2. StreamInv /\ [DataNext]_dataVars => StreamInv'
 <2> SUFFICES ASSUME StreamInv, [DataNext]_dataVars PROVE StreamInv'
   OBVIOUS
 <2>1. StreamNext \/ UNCHANGED streamVars BY DEF DataNext, dataVars
 <2>2. CASE UNCHANGED streamVars
  <3>1. UNCHANGED <<user, queue, announced, accepted, messages, link, sender, received>>
    BY <2>2 DEF streamVars
  <3>2. StreamTypeOK' /\ ClosingInv' BY <3>1 DEF StreamInv, StreamTypeOK, ClosingInv
  <3> QED BY <3>1, <3>2, QuietKeeps
 <2> QED BY <2>1, <2>2, StreamInvStep
<1>3. StreamInv => StreamIsComplete
 <2> SUFFICES ASSUME StreamInv PROVE StreamIsComplete
   OBVIOUS
 <2>1. received \in Seq(Item) /\ accepted \in Seq(Item) /\ Holds(received)
   BY DEF StreamInv, StreamTypeOK, SenderInv
 <2>2. IsPrefix(received, accepted)
  <3> DEFINE r == SubSeq(received, 1, Len(received))
             s == SubSeq(accepted, 1, Len(received))
  <3>1. Len(received) \in Nat /\ Len(accepted) \in Nat /\ Len(received) <= Len(accepted)
    BY <2>1 DEF Holds
  <3>2. r \in Seq(Item) /\ Len(r) = Len(received) /\ \A k \in 1 .. Len(received) : r[k] = received[k]
    BY <2>1, <3>1
  <3>3. s \in Seq(Item) /\ Len(s) = Len(received) /\ \A k \in 1 .. Len(received) : s[k] = accepted[k]
    BY <2>1, <3>1
  <3> HIDE DEF r, s
  <3>4. r = s BY <2>1, <3>2, <3>3 DEF Holds
  <3> QED BY <3>1, <3>4 DEF IsPrefix, r, s
 <2>3. user = "closed" /\ link = "up" => received = accepted BY DEF StreamInv, ClosingInv
 <2> QED BY <2>2, <2>3 DEF StreamIsComplete
<1> QED BY <1>1, <1>2, <1>3, PTL DEF DataSpec

-----------------------------------------------------------------------------
(* Binary files.                                                           *)

FileTypeOK ==
  /\ items \in Seq(Int) /\ unit \in Nat \ {0}
  /\ conv \in [start : Int, end : Int, changed : BOOLEAN]
  /\ header \in [start : Int, end : Int, complete : BOOLEAN]
  /\ at \in Nat /\ readed \in Nat /\ buffer \in Seq(Nat)
  /\ gen \in [pc : {"new", "run", "end"}, first : 0 .. LastTick, known : BOOLEAN, pre : Nat, i : Nat]
  /\ picker \in [pc : {"none", "idle", "next", "pick"}, tick : Int, cached : Nat]
  /\ events \in Seq([tick : Int, item : Nat])

(* Nothing is read before the file is complete.                            *)
WritingInv ==
  ~ header.complete =>
    gen.pc = "new" /\ picker.pc = "none" /\ picker.cached = NoItem /\ DOMAIN history = {} /\ events = <<>>

(* The buffer is the page of the file that ends where the reader stands,   *)
(* short only at the end of the file, and the generator is somewhere in it.*)
PagingInv ==
  gen.pc # "new" =>
    /\ at <= Len(items) /\ readed <= at
    /\ Len(buffer) <= BufferSize /\ Len(buffer) <= at
    /\ Len(buffer) < BufferSize => at = Len(items)
    /\ \A k \in 1 .. Len(buffer) : buffer[k] = at - Len(buffer) + k
    /\ gen.i \in 1 .. Len(buffer) + 1
    /\ Len(buffer) > 0 => Len(buffer) <= gen.pre /\ gen.pre <= at

(* How many items of the file the generator has gone past, and how many    *)
(* of them the picker is done with.                                        *)
Passed == IF gen.pc = "new" THEN 0 ELSE at - Len(buffer) + gen.i - 1
Served == IF picker.cached = NoItem THEN Passed ELSE Passed - 1

(* Where a start offset was found all items before are too early for it;   *)
(* the generator ends at the end of the file or at an item past the end.   *)
GeneratorInv ==
  /\ \A f \in DOMAIN history :
       history[f] \in 0 .. Len(items) /\ \A n \in 1 .. history[f] : items[n] < StartTime(f)
  /\ gen.pc # "new" /\ ~ gen.known => \A n \in 1 .. Passed : items[n] < StartTime(gen.first)
  /\ gen.pc = "end" => Passed = Len(items) \/ (Passed < Len(items) /\ items[Passed + 1] > EndTime)

PickerInv ==
  /\ picker.pc = "pick" => picker.cached # NoItem
  /\ picker.pc \in {"none", "next"} => picker.cached = NoItem
  /\ picker.cached # NoItem =>
       gen.pc = "run" /\ picker.cached = Passed /\ picker.cached \in 1 .. Len(items)
         /\ items[picker.cached] >= StartTime(gen.first)
  /\ picker.pc # "none" => gen.first - 1 <= picker.tick /\ picker.tick < LastTick
  /\ picker.pc \in {"next", "pick"} => gen.first <= picker.tick
  /\ picker.pc \in {"none", "idle"} /\ gen.pc = "run" => picker.cached # NoItem

(* The tick t of an item, without dividing.                                *)
InTick(n, t) == header.start + t * unit <= items[n] /\ items[n] < header.start + (t + 1) * unit

(* The events are of the ticks handled, in the order of the file.          *)
EventsInv ==
  /\ \A k \in 1 .. Len(events) :
       /\ events[k].item \in 1 .. Served /\ events[k].item \in 1 .. Len(items)
       /\ events[k].tick \in gen.first .. picker.tick
       /\ InTick(events[k].item, events[k].tick)
  /\ \A m, n \in 1 .. Len(events) : m < n => events[m].item < events[n].item

(* In a sorted file the items the picker is done with have all become      *)
(* events, and those it is not done with are of the ticks to come.         *)
Coming == IF picker.pc = "idle" THEN picker.tick + 1 ELSE picker.tick
SortedInv ==
  Sorted /\ picker.pc # "none" =>
    \A n \in 1 .. Len(items) : items[n] >= StartTime(gen.first) =>
      IF n <= Served THEN \E k \in 1 .. Len(events) : events[k].item = n
                      ELSE items[n] >= header.start + Coming * unit

FileInv == FileTypeOK /\ WritingInv /\ PagingInv /\ GeneratorInv /\ PickerInv /\ EventsInv /\ SortedInv

(* Integers and the two extremes.                                          *)
LEMMA LeastOfTwo ==
  ASSUME NEW a \in Int, NEW b \in Int
  PROVE  Min({a, b}) = IF a <= b THEN a ELSE b
BY DEF Min

LEMMA GreatestOfTwo ==
  ASSUME NEW a \in Int, NEW b \in Int
  PROVE  Max({a, b}) = IF a >= b THEN a ELSE b
BY DEF Max

(* Ticks of a time unit: later ticks start later, and the tick of a moment *)
(* is the one that has started and whose successor has not.                *)
LEMMA TicksInOrder ==
  ASSUME NEW u \in Nat \ {0}, NEW a \in Int, NEW b \in Int, a <= b
  PROVE  a * u \in Int /\ b * u \in Int /\ a * u <= b * u /\ (a + 1) * u = a * u + u
OBVIOUS

LEMMA TickAtLeast ==
  ASSUME NEW u \in Nat \ {0}, NEW a \in Int, NEW t \in Int
  PROVE  (a \div u) \in Int /\ t * u \in Int /\ ((a \div u) >= t <=> a >= t * u)
OBVIOUS

-----------------------------------------------------------------------------
(* Where the generator and the picker are in the file.                     *)
LEMMA Places ==
  ASSUME FileInv
  PROVE  /\ Passed \in 0 .. Len(items) /\ Served \in 0 .. Len(items) /\ Served <= Passed
         /\ Len(items) \in Nat /\ Len(events) \in Nat /\ Len(buffer) \in Nat
<1>1. FileTypeOK /\ PagingInv /\ PickerInv BY DEF FileInv
<1>2. Len(items) \in Nat /\ Len(events) \in Nat /\ Len(buffer) \in Nat
  BY <1>1 DEF FileTypeOK
<1>3. Passed \in 0 .. Len(items)
 <2>1. CASE gen.pc = "new" BY <1>2, <2>1 DEF Passed
 <2>2. CASE gen.pc # "new"
  <3>1. at \in Nat /\ at <= Len(items) /\ Len(buffer) <= at /\ gen.i \in 1 .. Len(buffer) + 1
    BY <1>1, <2>2 DEF FileTypeOK, PagingInv
  <3> QED BY <1>2, <2>2, <3>1 DEF Passed
 <2> QED BY <2>1, <2>2
<1> QED BY <1>1, <1>2, <1>3 DEF PickerInv, Served, NoItem

(* Ticks and start times are integers.                                     *)
LEMMA Times ==
  ASSUME FileTypeOK
  PROVE  /\ \A n \in 1 .. Len(items) : items[n] \in Int
         /\ \A t \in Int : StartTime(t) \in Int /\ header.start + t * unit \in Int
         /\ EndTime \in Int /\ header.start \in Int /\ gen.first \in Int /\ LastTick \in Int
<1>1. /\ header.start \in Int /\ unit \in Nat \ {0} /\ LastTick \in Nat /\ gen.first \in Int
      /\ \A n \in 1 .. Len(items) : items[n] \in Int
  BY FileAssumption DEF FileTypeOK
<1>2. \A t \in Int : t * unit \in Int BY <1>1, TicksInOrder
<1> QED BY <1>1, <1>2 DEF StartTime, EndTime

(* Events stay of the ticks handled when none is added.                    *)
LEMMA EventsKeep ==
  ASSUME FileInv, UNCHANGED <<items, header, unit, events>>, gen'.first = gen.first,
         picker.tick <= picker'.tick, picker'.tick \in Int, Served <= Served', Served' \in Nat
  PROVE  EventsInv'
<1>1. EventsInv /\ FileTypeOK BY DEF FileInv
<1>2. Served \in Nat /\ picker.tick \in Int /\ gen.first \in Int
  BY <1>1, Places, Times DEF FileTypeOK
<1>3. ASSUME NEW k \in 1 .. Len(events)
      PROVE  /\ events[k].item \in 1 .. Served' /\ events[k].item \in 1 .. Len(items)
             /\ events[k].tick \in gen.first .. picker'.tick
             /\ InTick(events[k].item, events[k].tick)'
 <2>1. /\ events[k].item \in 1 .. Served /\ events[k].item \in 1 .. Len(items)
       /\ events[k].tick \in gen.first .. picker.tick
       /\ InTick(events[k].item, events[k].tick)
   BY <1>1 DEF EventsInv
 <2>2. InTick(events[k].item, events[k].tick)' BY <2>1 DEF InTick
 <2> QED BY <1>2, <2>1, <2>2
<1> QED BY <1>1, <1>3 DEF EventsInv

(* Nothing is missed by a step that passes only over items that are too    *)
(* early, if what is left is of the ticks to come.                         *)
LEMMA SortedKeeps ==
  ASSUME FileInv, UNCHANGED <<items, header, unit, events>>, gen'.first = gen.first, picker.pc # "none",
         Served <= Served', Served' \in Nat,
         \A n \in 1 .. Len(items) : Served < n /\ n <= Served' => items[n] < StartTime(gen.first),
         Sorted => \A n \in 1 .. Len(items) :
           items[n] >= StartTime(gen.first) /\ n > Served' => items[n] >= header.start + Coming' * unit
  PROVE  SortedInv'
<1>1. SortedInv /\ FileTypeOK BY DEF FileInv
<1>2. Sorted' = Sorted BY DEF Sorted
<1>3. StartTime(gen.first)' = StartTime(gen.first) BY DEF StartTime
<1>4. Served \in Nat BY Places
<1> SUFFICES ASSUME Sorted, NEW n \in 1 .. Len(items), items[n] >= StartTime(gen.first)
             PROVE  IF n <= Served' THEN \E k \in 1 .. Len(events) : events[k].item = n
                                     ELSE items[n] >= header.start + Coming' * unit
  BY <1>2, <1>3 DEF SortedInv
<1>5. CASE n <= Served BY <1>1, <1>4, <1>5 DEF SortedInv
<1>6. CASE Served < n /\ n <= Served'
 <2>1. items[n] \in Int /\ StartTime(gen.first) \in Int BY <1>1, Times
 <2> QED BY <1>6, <2>1
<1>7. CASE n > Served' BY <1>4, <1>7
<1> QED BY <1>4, <1>5, <1>6, <1>7

-----------------------------------------------------------------------------
(* One lemma for each step.                                                *)

(* A row is written: the time range stays of integers.                     *)
LEMMA WriteKeeps ==
  ASSUME FileInv, NEW row \in Rows, _write_items(row)
  PROVE  FileInv'
<1>1. /\ FileTypeOK /\ ~ header.complete /\ gen.pc = "new" /\ picker.pc = "none" /\ picker.cached = NoItem
      /\ DOMAIN history = {} /\ events = <<>>
  BY DEF FileInv, WritingInv, _write_items
<1>2. /\ UNCHANGED <<header, unit, at, readed, buffer, history, gen, picker, events, pickers>>
      /\ items' = IF row.bad = "no" THEN Append(items, row.stamp) ELSE items
      /\ conv' = IF row.bad = "stamp" THEN conv
                 ELSE [start |-> IF conv.changed THEN Min({conv.start, row.stamp}) ELSE row.stamp,
                       end |-> Max({conv.end, row.stamp}), changed |-> TRUE]
  BY DEF _write_items, readerVars
<1>3. row.stamp \in Int /\ conv.start \in Int /\ conv.end \in Int
  BY <1>1, FileAssumption DEF FileTypeOK
<1>4. Min({conv.start, row.stamp}) \in Int /\ Max({conv.end, row.stamp}) \in Int
  BY <1>3, LeastOfTwo, GreatestOfTwo
<1>5. FileTypeOK'
 <2>1. conv' \in [start : Int, end : Int, changed : BOOLEAN]
   BY <1>1, <1>2, <1>3, <1>4 DEF FileTypeOK
 <2>2. items' \in Seq(Int) BY <1>1, <1>2, <1>3 DEF FileTypeOK
 <2> QED BY <1>1, <1>2, <2>1, <2>2 DEF FileTypeOK
<1>6. WritingInv' /\ PagingInv' /\ GeneratorInv' /\ SortedInv'
  BY <1>1, <1>2 DEF WritingInv, PagingInv, GeneratorInv, SortedInv
<1>7. PickerInv' /\ EventsInv' BY <1>1, <1>2 DEF PickerInv, EventsInv
<1> QED BY <1>5, <1>6, <1>7 DEF FileInv

LEMMA UpdateHeaderKeeps == FileInv /\ _update_header => FileInv'
<1> SUFFICES ASSUME FileInv, _update_header PROVE FileInv'
  OBVIOUS
<1>1. /\ FileTypeOK /\ ~ header.complete /\ gen.pc = "new" /\ picker.pc = "none" /\ picker.cached = NoItem
      /\ DOMAIN history = {} /\ events = <<>>
  BY DEF FileInv, WritingInv, _update_header
<1>2. /\ UNCHANGED <<items, conv, unit, at, readed, buffer, history, gen, picker, events, pickers>>
      /\ header' = [start |-> conv.start, end |-> conv.end, complete |-> TRUE]
  BY DEF _update_header, readerVars
<1>3. FileTypeOK'
 <2>1. header' \in [start : Int, end : Int, complete : BOOLEAN] BY <1>1, <1>2 DEF FileTypeOK
 <2> QED BY <1>1, <1>2, <2>1 DEF FileTypeOK
<1>4. WritingInv' /\ PagingInv' /\ GeneratorInv' /\ SortedInv'
  BY <1>1, <1>2 DEF WritingInv, PagingInv, GeneratorInv, SortedInv
<1>5. PickerInv' /\ EventsInv' BY <1>1, <1>2 DEF PickerInv, EventsInv
<1> QED BY <1>3, <1>4, <1>5 DEF FileInv

(* What fulfilling the buffer from a place that is no earlier than the     *)
(* count of what was read leaves there.                                    *)
LEMMA FulfillBuffer ==
  ASSUME FileTypeOK, NEW from \in 0 .. Len(items), NEW count \in 0 .. from, _fulfill_buffer(from, count)
  PROVE  /\ at' \in 0 .. Len(items) /\ readed' \in 0 .. at' /\ buffer' \in Seq(Nat)
         /\ Len(buffer') \in Nat /\ Len(buffer') <= BufferSize /\ at' = from + Len(buffer')
         /\ Len(buffer') < BufferSize => at' = Len(items)
         /\ \A k \in 1 .. Len(buffer') : buffer'[k] = from + k
<1> DEFINE most == Min({BufferSize, Len(items) - count})
           got == IF most <= 0 THEN 0 ELSE Min({most, Len(items) - from})
<1>1. Len(items) \in Nat /\ BufferSize \in Nat /\ BufferSize > 0 /\ from \in Nat /\ count \in Nat
  BY FileAssumption DEF FileTypeOK
<1>2. most = IF BufferSize <= Len(items) - count THEN BufferSize ELSE Len(items) - count
 <2>1. Len(items) - count \in Int BY <1>1
 <2> QED BY <1>1, <2>1, LeastOfTwo
<1>3. most \in Int BY <1>1, <1>2
<1> HIDE DEF most
<1>4. Min({most, Len(items) - from}) = IF most <= Len(items) - from THEN most ELSE Len(items) - from
 <2>1. Len(items) - from \in Int BY <1>1
 <2> QED BY <1>3, <2>1, LeastOfTwo
<1>5. got \in Nat /\ got <= BufferSize /\ from + got <= Len(items)
      /\ (got < BufferSize => from + got = Len(items))
  BY <1>1, <1>2, <1>3, <1>4
<1>6. buffer' = [k \in 1 .. got |-> from + k] /\ at' = from + got /\ readed' = count + got
  BY DEF _fulfill_buffer, most
<1> HIDE DEF got
<1>7. buffer' \in Seq(Nat) /\ Len(buffer') = got /\ \A k \in 1 .. got : buffer'[k] = from + k
 <2>1. \A k \in 1 .. got : from + k \in Nat BY <1>1, <1>5
 <2> QED BY <1>5, <1>6, <2>1
<1> QED BY <1>1, <1>5, <1>6, <1>7

(* What holds of start times, and of the ends, does not change with the    *)
(* reader.                                                                 *)
LEMMA HistoryKeeps ==
  ASSUME GeneratorInv, UNCHANGED <<items, header, unit>>, NEW f \in DOMAIN history
  PROVE  history[f] \in 0 .. Len(items') /\ \A n \in 1 .. history[f] : items'[n] < StartTime(f)'
BY DEF GeneratorInv, StartTime

LEMMA ItemsStartsKeeps == FileInv /\ items_starts => FileInv'
<1> SUFFICES ASSUME FileInv, items_starts PROVE FileInv'
  OBVIOUS
<1> DEFINE offset == IF gen.first \in DOMAIN history THEN history[gen.first] ELSE 0
<1>1. /\ picker.pc = "next" /\ gen.pc = "new"
      /\ _fulfill_buffer(offset, 0)
      /\ gen' = [gen EXCEPT !.pc = "run", !.i = 1, !.pre = at', !.known = gen.first \in DOMAIN history]
      /\ UNCHANGED <<items, conv, header, unit, history, picker, events>>
  BY DEF items_starts
<1>2. /\ FileTypeOK /\ WritingInv /\ GeneratorInv /\ PickerInv /\ SortedInv
      /\ header.complete /\ picker.cached = NoItem /\ Served = 0
  BY <1>1 DEF FileInv, WritingInv, PickerInv, Served, Passed
<1>3. offset \in 0 .. Len(items) /\ \A n \in 1 .. offset : items[n] < StartTime(gen.first)
  BY <1>2, Places DEF GeneratorInv
<1> HIDE DEF offset
<1>4. /\ at' \in 0 .. Len(items) /\ readed' \in 0 .. at' /\ buffer' \in Seq(Nat)
      /\ Len(buffer') \in Nat /\ Len(buffer') <= BufferSize /\ at' = offset + Len(buffer')
      /\ Len(buffer') < BufferSize => at' = Len(items)
      /\ \A k \in 1 .. Len(buffer') : buffer'[k] = offset + k
  BY <1>1, <1>2, <1>3, FulfillBuffer
<1>5. /\ gen'.pc = "run" /\ gen'.i = 1 /\ gen'.pre = at' /\ gen'.first = gen.first
      /\ gen'.known = (gen.first \in DOMAIN history)
  BY <1>1, <1>2 DEF FileTypeOK
<1>6. FileTypeOK'
 <2>1. at' \in Nat /\ readed' \in Nat BY <1>2, <1>4 DEF FileTypeOK
 <2>2. gen' \in [pc : {"new", "run", "end"}, first : 0 .. LastTick, known : BOOLEAN, pre : Nat, i : Nat]
  <3> DEFINE here == gen.first \in DOMAIN history
  <3>1. here \in BOOLEAN /\ gen' = [gen EXCEPT !.pc = "run", !.i = 1, !.pre = at', !.known = here]
    BY <1>1
  <3> HIDE DEF here
  <3> QED BY <1>2, <2>1, <3>1 DEF FileTypeOK
 <2> QED BY <1>1, <1>2, <1>4, <2>1, <2>2 DEF FileTypeOK
<1>7. offset \in Nat /\ Len(items) \in Nat /\ at' \in Nat BY <1>3, <1>4, Places
<1>8. Passed' = offset /\ Served' = offset
 <2>1. at' - Len(buffer') + 1 - 1 = offset BY <1>4, <1>7
 <2> QED BY <1>1, <1>2, <1>5, <2>1 DEF Passed, Served
<1>9. WritingInv' BY <1>1, <1>2 DEF WritingInv
<1>10. PagingInv' BY <1>1, <1>4, <1>5, <1>7 DEF PagingInv
<1>11. GeneratorInv'
 <2>1. \A f \in DOMAIN history' :
         history'[f] \in 0 .. Len(items') /\ \A n \in 1 .. history'[f] : items'[n] < StartTime(f)'
   BY <1>1, <1>2, HistoryKeeps
 <2>2. ~ gen'.known => offset = 0 BY <1>5 DEF offset
 <2> QED BY <1>5, <1>8, <2>1, <2>2 DEF GeneratorInv
<1>12. PickerInv' BY <1>1, <1>2, <1>5 DEF PickerInv
<1>13. EventsInv' BY <1>1, <1>2, <1>5, <1>6, <1>7, <1>8, EventsKeep DEF FileTypeOK
<1>14. SortedInv'
 <2>1. Coming' = Coming BY <1>1 DEF Coming
 <2>2. Sorted => \A n \in 1 .. Len(items) :
         items[n] >= StartTime(gen.first) /\ n > offset => items[n] >= header.start + Coming * unit
   BY <1>1, <1>2, <1>7 DEF SortedInv
 <2> QED BY <1>1, <1>2, <1>3, <1>5, <1>7, <1>8, <2>1, <2>2, SortedKeeps
<1> QED BY <1>6, <1>9, <1>10, <1>11, <1>12, <1>13, <1>14 DEF FileInv

(* The item at the generator's place is the next of the file.              *)
LEMMA NextItem ==
  ASSUME FileInv, gen.pc = "run", gen.i <= Len(buffer)
  PROVE  /\ buffer[gen.i] = Passed + 1 /\ Passed + 1 \in 1 .. Len(items) /\ gen.i \in 1 .. Len(buffer)
         /\ gen.i + 1 \in 1 .. Len(buffer) + 1
<1>1. FileTypeOK /\ PagingInv /\ Len(buffer) \in Nat /\ Len(items) \in Nat
  BY Places DEF FileInv
<1>2. /\ at \in Nat /\ at <= Len(items) /\ Len(buffer) <= at /\ gen.i \in 1 .. Len(buffer) + 1
      /\ \A k \in 1 .. Len(buffer) : buffer[k] = at - Len(buffer) + k
  BY <1>1 DEF FileTypeOK, PagingInv
<1>3. gen.i \in 1 .. Len(buffer) BY <1>1, <1>2
<1>4. Passed = at - Len(buffer) + gen.i - 1 BY DEF Passed
<1>5. buffer[gen.i] = at - Len(buffer) + gen.i BY <1>2, <1>3
<1>6. gen.i \in Nat /\ gen.i >= 1 /\ gen.i <= Len(buffer) BY <1>1, <1>3
<1>7. Passed + 1 = at - Len(buffer) + gen.i /\ Passed + 1 >= 1 /\ Passed + 1 <= Len(items) /\ Passed \in Int
  BY <1>1, <1>2, <1>4, <1>6
<1> QED BY <1>1, <1>3, <1>5, <1>6, <1>7

(* Steps of the generator that move it to one of the places of its page.   *)
LEMMA GeneratorMoves ==
  ASSUME FileInv, gen.pc = "run", UNCHANGED <<items, conv, header, unit, at, readed, buffer, events>>,
         gen'.first = gen.first, gen'.pre = gen.pre, gen'.pc \in {"run", "end"},
         gen'.i \in 1 .. Len(buffer) + 1
  PROVE  PagingInv' /\ Passed' = at - Len(buffer) + gen'.i - 1
<1>1. PagingInv BY DEF FileInv
<1>2. PagingInv' BY <1>1 DEF PagingInv
<1> QED BY <1>2 DEF Passed

(* The generator ends at an item past the end.                             *)
LEMMA ItemPastTheEnd ==
  ASSUME FileInv, items_step, items[buffer[gen.i]] > EndTime
  PROVE  FileInv'
<1>1. /\ picker.pc = "next" /\ gen.pc = "run" /\ gen.i <= Len(buffer)
      /\ gen' = [gen EXCEPT !.pc = "end"]
      /\ UNCHANGED <<items, conv, header, unit, at, readed, buffer, history, picker, events>>
  BY DEF items_step
<1>2. /\ FileTypeOK /\ WritingInv /\ GeneratorInv /\ PickerInv /\ SortedInv /\ header.complete
      /\ picker.cached = NoItem
  BY <1>1 DEF FileInv, WritingInv, PickerInv
<1>3. gen'.pc = "end" /\ gen'.i = gen.i /\ gen'.pre = gen.pre /\ gen'.first = gen.first /\ gen'.known = gen.known
  BY <1>1, <1>2 DEF FileTypeOK
<1>4. /\ buffer[gen.i] = Passed + 1 /\ Passed + 1 \in 1 .. Len(items) /\ gen.i \in 1 .. Len(buffer)
      /\ gen.i + 1 \in 1 .. Len(buffer) + 1 /\ gen.i \in 1 .. Len(buffer) + 1
  BY <1>1, NextItem, Places
<1>5. FileTypeOK' BY <1>1, <1>2 DEF FileTypeOK
<1>6. PagingInv' /\ Passed' = Passed /\ Served' = Served /\ Passed \in Nat /\ Served \in Nat /\ Len(items) \in Nat
 <2>1. PagingInv' /\ Passed' = at - Len(buffer) + gen'.i - 1
   BY <1>1, <1>3, <1>4, GeneratorMoves
 <2>2. Passed' = Passed BY <1>1, <1>3, <2>1 DEF Passed
 <2> QED BY <1>1, <2>1, <2>2, Places DEF Served
<1>7. WritingInv' BY <1>1, <1>2 DEF WritingInv
<1>8. GeneratorInv'
 <2>1. \A f \in DOMAIN history' :
         history'[f] \in 0 .. Len(items') /\ \A n \in 1 .. history'[f] : items'[n] < StartTime(f)'
   BY <1>1, <1>2, HistoryKeeps
 <2>2. EndTime' = EndTime BY <1>1 DEF EndTime
 <2>3. StartTime(gen.first)' = StartTime(gen.first) BY <1>1, <1>3 DEF StartTime
 <2>4. ~ gen'.known => \A n \in 1 .. Passed' : items'[n] < StartTime(gen.first)'
   BY <1>1, <1>2, <1>3, <1>6, <2>3 DEF GeneratorInv
 <2>5. Passed' < Len(items') /\ items'[Passed' + 1] > EndTime' BY <1>1, <1>4, <1>6, <2>2
 <2> QED BY <2>1, <2>4, <2>5 DEF GeneratorInv
<1>9. PickerInv' BY <1>1, <1>2, <1>3 DEF PickerInv
<1>10. EventsInv' BY <1>1, <1>2, <1>3, <1>6, EventsKeep DEF FileTypeOK
<1>11. SortedInv'
 <2>1. Coming' = Coming BY <1>1 DEF Coming
 <2>2. Sorted => \A n \in 1 .. Len(items) :
         items[n] >= StartTime(gen.first) /\ n > Served => items[n] >= header.start + Coming * unit
   BY <1>1, <1>2, <1>6 DEF SortedInv
 <2> QED BY <1>1, <1>3, <1>6, <2>1, <2>2, SortedKeeps
<1> QED BY <1>5, <1>6, <1>7, <1>8, <1>9, <1>10, <1>11 DEF FileInv

(* The generator passes over an item that is too early.                    *)
LEMMA ItemTooEarly ==
  ASSUME FileInv, items_step, items[buffer[gen.i]] <= EndTime, items[buffer[gen.i]] < StartTime(gen.first)
  PROVE  FileInv'
<1>1. /\ FileTypeOK /\ WritingInv /\ GeneratorInv /\ PickerInv /\ SortedInv /\ header.complete
      /\ picker.cached = NoItem /\ picker.pc = "next" /\ gen.pc = "run" /\ gen.i <= Len(buffer)
  BY DEF FileInv, WritingInv, PickerInv, items_step
<1>2. /\ buffer[gen.i] = Passed + 1 /\ Passed + 1 \in 1 .. Len(items) /\ gen.i \in 1 .. Len(buffer)
      /\ gen.i + 1 \in 1 .. Len(buffer) + 1 /\ gen.i + 1 \in Nat
 <2>1. gen.i + 1 \in Nat
  <3>1. gen.i \in Nat BY <1>1 DEF FileTypeOK
  <3> QED BY <3>1
 <2> QED BY <1>1, <2>1, NextItem
<1>3. items[buffer[gen.i]] \in Int /\ EndTime \in Int BY <1>1, <1>2, Times
<1>4. /\ gen' = [gen EXCEPT !.i = @ + 1]
      /\ UNCHANGED <<items, conv, header, unit, at, readed, buffer, history, picker, events>>
  BY <1>3 DEF items_step
<1>5. gen'.pc = "run" /\ gen'.i = gen.i + 1 /\ gen'.pre = gen.pre /\ gen'.first = gen.first /\ gen'.known = gen.known
  BY <1>1, <1>4 DEF FileTypeOK
<1>6. FileTypeOK' BY <1>1, <1>2, <1>4 DEF FileTypeOK
<1>7. /\ PagingInv' /\ Passed' = Passed + 1 /\ Served' = Passed + 1 /\ Served = Passed
      /\ Passed \in Nat /\ Len(items) \in Nat
 <2>1. PagingInv' /\ Passed' = at - Len(buffer) + gen'.i - 1
   BY <1>1, <1>2, <1>4, <1>5, GeneratorMoves
 <2>2. at \in Nat /\ Len(buffer) \in Nat /\ gen.i \in Nat /\ Passed = at - Len(buffer) + gen.i - 1
   BY <1>1, Places DEF FileTypeOK, Passed
 <2>3. Passed' = Passed + 1 BY <1>5, <2>1, <2>2
 <2>4. picker'.cached = NoItem BY <1>1, <1>4
 <2> QED BY <1>1, <2>1, <2>3, <2>4, Places DEF Served
<1>8. WritingInv' BY <1>1, <1>4 DEF WritingInv
<1>9. GeneratorInv'
 <2>1. \A f \in DOMAIN history' :
         history'[f] \in 0 .. Len(items') /\ \A n \in 1 .. history'[f] : items'[n] < StartTime(f)'
   BY <1>1, <1>4, HistoryKeeps
 <2>2. StartTime(gen.first)' = StartTime(gen.first) BY <1>4, <1>5 DEF StartTime
 <2>3. ~ gen.known => \A n \in 1 .. Passed : items[n] < StartTime(gen.first)
   BY <1>1 DEF GeneratorInv
 <2>4. items[Passed + 1] < StartTime(gen.first) BY <1>2
 <2>5. ~ gen.known => \A n \in 1 .. Passed + 1 : items[n] < StartTime(gen.first)
   BY <1>7, <2>3, <2>4
 <2> QED BY <1>4, <1>5, <1>7, <2>1, <2>2, <2>5 DEF GeneratorInv
<1>10. PickerInv' BY <1>1, <1>4, <1>5 DEF PickerInv
<1>11. EventsInv'
 <2>1. picker.tick <= picker'.tick /\ picker'.tick \in Int BY <1>1, <1>4 DEF FileTypeOK
 <2>2. Served <= Served' /\ Served' \in Nat BY <1>7
 <2> QED BY <1>4, <1>5, <2>1, <2>2, EventsKeep
<1>12. SortedInv'
 <2>1. Coming' = Coming BY <1>4 DEF Coming
 <2>2. Sorted => \A n \in 1 .. Len(items) :
         items[n] >= StartTime(gen.first) /\ n > Passed => items[n] >= header.start + Coming * unit
   BY <1>1, <1>7 DEF SortedInv
 <2>3. Sorted => \A n \in 1 .. Len(items) :
         items[n] >= StartTime(gen.first) /\ n > Served' => items[n] >= header.start + Coming' * unit
   BY <1>7, <2>1, <2>2
 <2>4. \A n \in 1 .. Len(items) : Served < n /\ n <= Served' => items[n] < StartTime(gen.first)
  <3> SUFFICES ASSUME NEW n \in 1 .. Len(items), Passed < n, n <= Passed + 1 PROVE items[n] < StartTime(gen.first)
    BY <1>7
  <3>1. n = Passed + 1 BY <1>7
  <3> QED BY <1>2, <3>1
 <2>5. Served <= Served' /\ Served' \in Nat /\ picker.pc # "none" BY <1>1, <1>7
 <2> QED BY <1>4, <1>5, <2>3, <2>4, <2>5, SortedKeeps
<1> QED BY <1>6, <1>7, <1>8, <1>9, <1>10, <1>11, <1>12 DEF FileInv

(* An item is handed to the picker; the first one in time is remembered.   *)
LEMMA ItemYielded ==
  ASSUME FileInv, items_step, items[buffer[gen.i]] <= EndTime, items[buffer[gen.i]] >= StartTime(gen.first)
  PROVE  FileInv'
<1>1. /\ FileTypeOK /\ WritingInv /\ PagingInv /\ GeneratorInv /\ PickerInv /\ SortedInv /\ header.complete
      /\ picker.cached = NoItem /\ picker.pc = "next" /\ gen.pc = "run" /\ gen.i <= Len(buffer)
  BY DEF FileInv, WritingInv, PickerInv, items_step
<1>2. /\ buffer[gen.i] = Passed + 1 /\ Passed + 1 \in 1 .. Len(items) /\ gen.i \in 1 .. Len(buffer)
      /\ gen.i + 1 \in 1 .. Len(buffer) + 1 /\ gen.i + 1 \in Nat
 <2>1. gen.i + 1 \in Nat
  <3>1. gen.i \in Nat BY <1>1 DEF FileTypeOK
  <3> QED BY <3>1
 <2> QED BY <1>1, <2>1, NextItem
<1>3. items[buffer[gen.i]] \in Int /\ EndTime \in Int /\ StartTime(gen.first) \in Int /\ gen.first \in Int
  BY <1>1, <1>2, Times
<1>4. /\ gen' = [gen EXCEPT !.i = @ + 1, !.known = TRUE]
      /\ history' = IF gen.known THEN history
                    ELSE [f \in DOMAIN history \cup {gen.first} |->
                            IF f = gen.first THEN HistoryPos ELSE history[f]]
      /\ picker' = [picker EXCEPT !.pc = "pick", !.cached = buffer[gen.i]]
      /\ UNCHANGED <<items, conv, header, unit, at, readed, buffer, events>>
  BY <1>3 DEF items_step
<1>5. /\ gen'.pc = "run" /\ gen'.i = gen.i + 1 /\ gen'.pre = gen.pre /\ gen'.first = gen.first /\ gen'.known
      /\ picker'.pc = "pick" /\ picker'.cached = Passed + 1 /\ picker'.tick = picker.tick
  BY <1>1, <1>2, <1>4 DEF FileTypeOK
<1>6. Passed \in Nat /\ Len(items) \in Nat /\ at \in Nat /\ Len(buffer) \in Nat /\ gen.i \in Nat
      /\ Passed = at - Len(buffer) + gen.i - 1
  BY <1>1, Places DEF FileTypeOK, Passed
<1>7. FileTypeOK'
 <2>1. Passed + 1 \in Nat BY <1>6
 <2>2. gen' \in [pc : {"new", "run", "end"}, first : 0 .. LastTick, known : BOOLEAN, pre : Nat, i : Nat]
   BY <1>1, <1>2, <1>4 DEF FileTypeOK
 <2> QED BY <1>1, <1>2, <1>4, <2>1, <2>2 DEF FileTypeOK
<1>8. PagingInv' /\ Passed' = Passed + 1 /\ Served' = Passed /\ Served = Passed
 <2>1. PagingInv' /\ Passed' = at - Len(buffer) + gen'.i - 1
   BY <1>1, <1>2, <1>4, <1>5, GeneratorMoves
 <2>2. Passed' = Passed + 1 BY <1>5, <1>6, <2>1
 <2>3. picker'.cached # NoItem BY <1>5, <1>6 DEF NoItem
 <2> QED BY <1>1, <1>6, <2>1, <2>2, <2>3 DEF Served
<1>9. WritingInv' BY <1>1, <1>4 DEF WritingInv
<1>10. GeneratorInv'
 <2>1. ASSUME NEW f \in DOMAIN history
       PROVE  history[f] \in 0 .. Len(items') /\ \A n \in 1 .. history[f] : items'[n] < StartTime(f)'
   BY <1>1, <1>4, HistoryKeeps
 <2>2. CASE gen.known BY <1>4, <1>5, <2>1, <2>2 DEF GeneratorInv
 <2>3. CASE ~ gen.known
  <3>1. \A n \in 1 .. Passed : items[n] < StartTime(gen.first)
    BY <1>1, <2>3 DEF GeneratorInv
  <3>2. /\ gen.pre \in Nat /\ Len(buffer) <= gen.pre /\ gen.pre <= at /\ at <= Len(items)
        /\ HistoryPos = gen.pre - Len(buffer)
   <4>1. gen.pre \in Nat BY <1>1 DEF FileTypeOK
   <4>2. Len(buffer) > 0 BY <1>2, <1>6
   <4>3. gen.pc # "new" BY <1>1
   <4>4. Len(buffer) <= gen.pre /\ gen.pre <= at /\ at <= Len(items)
     BY <1>1, <4>2, <4>3 DEF PagingInv
   <4> QED BY <4>1, <4>4 DEF HistoryPos
  <3>3. gen.i >= 1 BY <1>2
  <3>4. HistoryPos \in 0 .. Len(items) /\ HistoryPos <= Passed BY <1>6, <3>2, <3>3
  <3>5. \A n \in 1 .. HistoryPos : items[n] < StartTime(gen.first) BY <1>6, <3>1, <3>4
  <3>6. StartTime(gen.first)' = StartTime(gen.first) BY <1>4, <1>5 DEF StartTime
  <3>7. /\ DOMAIN history' = DOMAIN history \cup {gen.first}
        /\ history'[gen.first] = HistoryPos
        /\ \A f \in DOMAIN history : f # gen.first => history'[f] = history[f]
    BY <1>4, <2>3
  <3>8. ASSUME NEW f \in DOMAIN history'
        PROVE  history'[f] \in 0 .. Len(items') /\ \A n \in 1 .. history'[f] : items'[n] < StartTime(f)'
   <4>1. CASE f = gen.first
    <5>1. StartTime(f)' = StartTime(gen.first) BY <1>4, <4>1 DEF StartTime
    <5> QED BY <1>4, <3>4, <3>5, <3>7, <4>1, <5>1
   <4>2. CASE f # gen.first BY <2>1, <3>7, <4>2
   <4> QED BY <4>1, <4>2
  <3> QED BY <1>5, <3>8 DEF GeneratorInv
 <2> QED BY <2>2, <2>3
<1>11. PickerInv'
 <2>1. StartTime(gen.first)' = StartTime(gen.first) BY <1>4, <1>5 DEF StartTime
 <2>2. /\ picker'.cached = Passed' /\ picker'.cached \in 1 .. Len(items') /\ items'[picker'.cached] >= StartTime(gen.first)'
       /\ picker'.cached # NoItem
   BY <1>2, <1>4, <1>5, <1>6, <1>8, <2>1 DEF NoItem
 <2> QED BY <1>1, <1>4, <1>5, <2>2 DEF PickerInv
<1>12. EventsInv'
 <2>1. picker.tick <= picker'.tick /\ picker'.tick \in Int /\ Served <= Served' /\ Served' \in Nat
  <3>1. picker.tick <= picker'.tick /\ picker'.tick \in Int BY <1>1, <1>5 DEF FileTypeOK
  <3> QED BY <1>6, <1>8, <3>1
 <2> QED BY <1>4, <1>5, <2>1, EventsKeep
<1>13. SortedInv'
 <2>1. Coming' = Coming BY <1>1, <1>5 DEF Coming
 <2>2. Sorted => \A n \in 1 .. Len(items) :
         items[n] >= StartTime(gen.first) /\ n > Passed => items[n] >= header.start + Coming * unit
  <3>1. \A n \in 1 .. Len(items) : n > Passed => ~ (n <= Served) BY <1>6, <1>8
  <3> QED BY <1>1, <3>1 DEF SortedInv
 <2>3. Sorted => \A n \in 1 .. Len(items) :
         items[n] >= StartTime(gen.first) /\ n > Served' => items[n] >= header.start + Coming' * unit
   BY <1>8, <2>1, <2>2
 <2>4. \A n \in 1 .. Len(items) : Served < n /\ n <= Served' => items[n] < StartTime(gen.first)
   BY <1>6, <1>8
 <2>5. Served <= Served' /\ Served' \in Nat /\ picker.pc # "none" BY <1>1, <1>6, <1>8
 <2> QED BY <1>4, <1>5, <2>3, <2>4, <2>5, SortedKeeps
<1> QED BY <1>7, <1>8, <1>9, <1>10, <1>11, <1>12, <1>13 DEF FileInv

LEMMA ItemsStepKeeps == FileInv /\ items_step => FileInv'
<1> SUFFICES ASSUME FileInv, items_step PROVE FileInv'
  OBVIOUS
<1>1. items[buffer[gen.i]] \in Int /\ EndTime \in Int /\ StartTime(gen.first) \in Int
 <2>1. gen.pc = "run" /\ gen.i <= Len(buffer) BY DEF items_step
 <2>2. buffer[gen.i] \in 1 .. Len(items) BY <2>1, NextItem
 <2> QED BY <2>2, Times DEF FileInv
<1>2. \/ items[buffer[gen.i]] > EndTime
      \/ items[buffer[gen.i]] <= EndTime /\ items[buffer[gen.i]] < StartTime(gen.first)
      \/ items[buffer[gen.i]] <= EndTime /\ items[buffer[gen.i]] >= StartTime(gen.first)
  BY <1>1
<1> QED BY <1>2, ItemPastTheEnd, ItemTooEarly, ItemYielded

(* The page is read through: the next page, or the end of the file.        *)
LEMMA ItemsRefillKeeps == FileInv /\ items_refill => FileInv'
<1> SUFFICES ASSUME FileInv, items_refill PROVE FileInv'
  OBVIOUS
<1>1. /\ FileTypeOK /\ WritingInv /\ PagingInv /\ GeneratorInv /\ PickerInv /\ SortedInv /\ header.complete
      /\ picker.cached = NoItem /\ picker.pc = "next" /\ gen.pc = "run" /\ gen.i > Len(buffer)
  BY DEF FileInv, WritingInv, PickerInv, items_refill
<1>2. /\ \/ buffer = <<>> /\ gen' = [gen EXCEPT !.pc = "end"] /\ UNCHANGED <<at, readed, buffer>>
         \/ buffer # <<>> /\ _fulfill_buffer(at, readed) /\ gen' = [gen EXCEPT !.i = 1, !.pre = at]
      /\ UNCHANGED <<items, conv, header, unit, history, picker, events>>
  BY DEF items_refill
<1>3. /\ at \in 0 .. Len(items) /\ readed \in 0 .. at /\ Len(items) \in Nat /\ Len(buffer) \in Nat
      /\ Len(buffer) <= at /\ gen.i = Len(buffer) + 1 /\ at \in Nat
 <2>1. /\ at \in Nat /\ readed \in Nat /\ at <= Len(items) /\ readed <= at /\ Len(buffer) <= at
       /\ gen.i \in 1 .. Len(buffer) + 1
   BY <1>1 DEF FileTypeOK, PagingInv
 <2> QED BY <1>1, <2>1, Places
<1>4. Passed = at /\ Served = at
 <2>1. at - Len(buffer) + gen.i - 1 = at BY <1>3
 <2> QED BY <1>1, <2>1 DEF Passed, Served
<1>5. /\ FileTypeOK' /\ PagingInv' /\ gen'.pc # "new" /\ gen'.pc \in {"run", "end"}
      /\ gen'.first = gen.first /\ gen'.known = gen.known
      /\ Passed' = at /\ (gen'.pc = "end" => at = Len(items))
 <2>1. CASE buffer = <<>>
  <3>1. /\ gen' = [gen EXCEPT !.pc = "end"] /\ UNCHANGED <<at, readed, buffer>>
        /\ gen'.pc = "end" /\ gen'.first = gen.first /\ gen'.known = gen.known /\ gen'.i = gen.i /\ gen'.pre = gen.pre
    BY <1>1, <1>2, <2>1 DEF FileTypeOK
  <3>2. FileTypeOK' BY <1>1, <1>2, <3>1 DEF FileTypeOK
  <3>3. Len(buffer) = 0 /\ BufferSize > 0 BY <2>1, FileAssumption
  <3>4. at = Len(items) BY <1>1, <3>3 DEF PagingInv
  <3>5. PagingInv' BY <1>1, <1>2, <3>1 DEF PagingInv
  <3>6. Passed' = at BY <1>1, <1>4, <3>1 DEF Passed
  <3> QED BY <3>1, <3>2, <3>4, <3>5, <3>6
 <2>2. CASE buffer # <<>>
  <3>1. /\ _fulfill_buffer(at, readed) /\ gen' = [gen EXCEPT !.i = 1, !.pre = at]
        /\ gen'.pc = "run" /\ gen'.first = gen.first /\ gen'.known = gen.known /\ gen'.i = 1 /\ gen'.pre = at
    BY <1>1, <1>2, <2>2 DEF FileTypeOK
  <3>2. /\ at' \in 0 .. Len(items) /\ readed' \in 0 .. at' /\ buffer' \in Seq(Nat)
        /\ Len(buffer') \in Nat /\ Len(buffer') <= BufferSize /\ at' = at + Len(buffer')
        /\ Len(buffer') < BufferSize => at' = Len(items)
        /\ \A k \in 1 .. Len(buffer') : buffer'[k] = at + k
    BY <1>1, <1>3, <3>1, FulfillBuffer
  <3>3. at' \in Nat /\ readed' \in Nat /\ readed' <= at' /\ at' <= Len(items) BY <1>3, <3>2
  <3>4. FileTypeOK'
   <4>1. gen' \in [pc : {"new", "run", "end"}, first : 0 .. LastTick, known : BOOLEAN, pre : Nat, i : Nat]
     BY <1>1, <1>3, <3>1 DEF FileTypeOK
   <4> QED BY <1>1, <1>2, <3>2, <3>3, <4>1 DEF FileTypeOK
  <3>5. Len(buffer') > 0 => Len(buffer') <= at
   <4>1. CASE Len(buffer) < BufferSize
    <5>1. at = Len(items) BY <1>1, <4>1 DEF PagingInv
    <5> QED BY <1>3, <3>2, <3>3, <5>1
   <4>2. CASE ~ (Len(buffer) < BufferSize)
    <5>1. BufferSize \in Nat BY FileAssumption
    <5> QED BY <1>3, <3>2, <4>2, <5>1
   <4> QED BY <4>1, <4>2
  <3>6. PagingInv'
   <4>1. \A k \in 1 .. Len(buffer') : buffer'[k] = at' - Len(buffer') + k
     BY <1>3, <3>2, <3>3
   <4>2. Len(buffer') <= at' /\ at <= at' /\ 1 \in 1 .. Len(buffer') + 1 BY <1>3, <3>2, <3>3
   <4> QED BY <1>2, <3>1, <3>2, <3>3, <3>5, <4>1, <4>2 DEF PagingInv
  <3>7. Passed' = at
   <4>1. at' - Len(buffer') + 1 - 1 = at BY <1>3, <3>2, <3>3
   <4> QED BY <3>1, <4>1 DEF Passed
  <3> QED BY <3>1, <3>4, <3>6, <3>7
 <2> QED BY <2>1, <2>2
<1>6. Served' = at BY <1>1, <1>2, <1>5 DEF Served
<1>7. WritingInv' BY <1>1, <1>2 DEF WritingInv
<1>8. GeneratorInv'
 <2>1. \A f \in DOMAIN history' :
         history'[f] \in 0 .. Len(items') /\ \A n \in 1 .. history'[f] : items'[n] < StartTime(f)'
   BY <1>1, <1>2, HistoryKeeps
 <2>2. StartTime(gen.first)' = StartTime(gen.first) BY <1>2, <1>5 DEF StartTime
 <2>3. ~ gen'.known => \A n \in 1 .. Passed' : items'[n] < StartTime(gen.first)'
   BY <1>1, <1>2, <1>4, <1>5, <2>2 DEF GeneratorInv
 <2>4. gen'.pc = "end" => Passed' = Len(items') BY <1>2, <1>5
 <2> QED BY <2>1, <2>3, <2>4 DEF GeneratorInv
<1>9. PickerInv' BY <1>1, <1>2, <1>5 DEF PickerInv
<1>10. EventsInv'
 <2>1. picker.tick <= picker'.tick /\ picker'.tick \in Int BY <1>1, <1>2 DEF FileTypeOK
 <2> QED BY <1>2, <1>3, <1>4, <1>5, <1>6, <2>1, EventsKeep
<1>11. SortedInv'
 <2>1. Coming' = Coming BY <1>2 DEF Coming
 <2>2. \A n \in 1 .. Len(items) : n > at => ~ (n <= Served) BY <1>3, <1>4
 <2>3. Sorted => \A n \in 1 .. Len(items) :
         items[n] >= StartTime(gen.first) /\ n > Served' => items[n] >= header.start + Coming' * unit
   BY <1>1, <1>6, <2>1, <2>2 DEF SortedInv
 <2>4. \A n \in 1 .. Len(items) : Served < n /\ n <= Served' => items[n] < StartTime(gen.first)
   BY <1>3, <1>4, <1>6
 <2>5. Served <= Served' /\ Served' \in Nat /\ picker.pc # "none" BY <1>1, <1>3, <1>4, <1>6
 <2> QED BY <1>2, <1>5, <2>3, <2>4, <2>5, SortedKeeps
<1> QED BY <1>5, <1>7, <1>8, <1>9, <1>10, <1>11 DEF FileInv

(* A new picker starts over; the history stays.                            *)
LEMMA ItemsTickPickerKeeps ==
  ASSUME FileInv, NEW first \in FirstTicks, items_tick_picker(first)
  PROVE  FileInv'
<1>1. /\ FileTypeOK /\ WritingInv /\ GeneratorInv /\ header.complete
      /\ gen' = NewGenerator(first) /\ picker' = [pc |-> "idle", tick |-> first - 1, cached |-> NoItem]
      /\ readed' = 0 /\ events' = <<>>
      /\ UNCHANGED <<items, conv, header, unit, at, buffer, history>>
  BY DEF FileInv, items_tick_picker
<1>2. first \in 0 .. LastTick /\ LastTick \in Nat /\ first \in Int BY FileAssumption
<1>3. /\ gen'.pc = "new" /\ gen'.first = first /\ picker'.pc = "idle" /\ picker'.tick = first - 1
      /\ picker'.cached = NoItem
  BY <1>1 DEF NewGenerator
<1>4. FileTypeOK'
 <2>1. gen' \in [pc : {"new", "run", "end"}, first : 0 .. LastTick, known : BOOLEAN, pre : Nat, i : Nat]
   BY <1>1, <1>2 DEF NewGenerator
 <2>2. picker' \in [pc : {"none", "idle", "next", "pick"}, tick : Int, cached : Nat]
   BY <1>1, <1>2 DEF NoItem
 <2> QED BY <1>1, <2>1, <2>2 DEF FileTypeOK
<1>5. Passed' = 0 /\ Served' = 0 BY <1>3 DEF Passed, Served
<1>6. WritingInv' /\ PagingInv' BY <1>1, <1>3 DEF WritingInv, PagingInv
<1>7. GeneratorInv'
 <2>1. \A f \in DOMAIN history' :
         history'[f] \in 0 .. Len(items') /\ \A n \in 1 .. history'[f] : items'[n] < StartTime(f)'
   BY <1>1, HistoryKeeps
 <2> QED BY <1>3, <2>1 DEF GeneratorInv
<1>8. PickerInv'
 <2>1. first - 1 <= first - 1 /\ first - 1 < LastTick BY <1>2
 <2> QED BY <1>3, <2>1 DEF PickerInv
<1>9. EventsInv' BY <1>1 DEF EventsInv
<1>10. SortedInv'
 <2>1. Coming' = first BY <1>2, <1>3 DEF Coming
 <2>2. StartTime(gen.first)' = header.start + first * unit BY <1>1, <1>3 DEF StartTime
 <2> SUFFICES ASSUME NEW n \in 1 .. Len(items), items[n] >= header.start + first * unit
              PROVE  ~ (n <= 0) /\ items[n] >= header.start + first * unit
   BY <1>1, <1>5, <2>1, <2>2 DEF SortedInv
 <2> QED OBVIOUS
<1> QED BY <1>4, <1>6, <1>7, <1>8, <1>9, <1>10 DEF FileInv

(* Steps that only move the picker.                                        *)
LEMMA PickerMoves ==
  ASSUME FileInv, UNCHANGED <<items, conv, header, unit, at, readed, buffer, history, gen>>, header.complete
  PROVE  WritingInv' /\ PagingInv' /\ GeneratorInv' /\ Passed' = Passed
<1>1. PagingInv /\ GeneratorInv BY DEF FileInv
<1>2. Passed' = Passed BY DEF Passed
<1>3. PagingInv' BY <1>1 DEF PagingInv
<1>4. WritingInv' BY DEF WritingInv
<1>5. GeneratorInv' BY <1>1, <1>2 DEF GeneratorInv, StartTime, EndTime
<1> QED BY <1>2, <1>3, <1>4, <1>5

LEMMA ReadItemsKeeps == FileInv /\ read_items => FileInv'
<1> SUFFICES ASSUME FileInv, read_items PROVE FileInv'
  OBVIOUS
<1>1. /\ FileTypeOK /\ WritingInv /\ PickerInv /\ SortedInv /\ header.complete
      /\ picker.pc = "idle" /\ picker.tick + 1 < LastTick
      /\ picker' = [picker EXCEPT !.pc = IF picker.cached = NoItem THEN "next" ELSE "pick", !.tick = @ + 1]
      /\ UNCHANGED <<items, conv, header, unit, at, readed, buffer, history, gen, events>>
  BY DEF FileInv, WritingInv, read_items, readerVars
<1>2. /\ picker'.pc = IF picker.cached = NoItem THEN "next" ELSE "pick"
      /\ picker'.tick = picker.tick + 1 /\ picker'.cached = picker.cached
  BY <1>1 DEF FileTypeOK
<1>3. picker.tick \in Int /\ gen.first \in Int /\ LastTick \in Int
  BY <1>1, Times DEF FileTypeOK
<1>4. FileTypeOK'
 <2>1. picker.tick + 1 \in Int BY <1>3
 <2>2. picker' \in [pc : {"none", "idle", "next", "pick"}, tick : Int, cached : Nat]
   BY <1>1, <2>1 DEF FileTypeOK
 <2> QED BY <1>1, <2>2 DEF FileTypeOK
<1>5. WritingInv' /\ PagingInv' /\ GeneratorInv' /\ Passed' = Passed /\ Served' = Served /\ Served \in Nat
  BY <1>1, <1>2, PickerMoves, Places DEF Served
<1>6. PickerInv'
 <2>1. gen.first <= picker.tick + 1 /\ gen.first - 1 <= picker.tick + 1
   BY <1>1, <1>3 DEF PickerInv
 <2>2. StartTime(gen.first)' = StartTime(gen.first) BY <1>1 DEF StartTime
 <2> QED BY <1>1, <1>2, <1>5, <2>1, <2>2 DEF PickerInv
<1>7. EventsInv'
 <2>1. picker.tick <= picker'.tick /\ picker'.tick \in Int BY <1>2, <1>3
 <2> QED BY <1>1, <1>5, <2>1, EventsKeep
<1>8. SortedInv'
 <2>1. Coming' = Coming BY <1>1, <1>2 DEF Coming
 <2>2. Sorted => \A n \in 1 .. Len(items) :
         items[n] >= StartTime(gen.first) /\ n > Served' => items[n] >= header.start + Coming' * unit
   BY <1>1, <1>5, <2>1 DEF SortedInv
 <2>3. \A n \in 1 .. Len(items) : Served < n /\ n <= Served' => items[n] < StartTime(gen.first)
   BY <1>5
 <2> QED BY <1>1, <1>5, <2>2, <2>3, SortedKeeps
<1> QED BY <1>4, <1>5, <1>6, <1>7, <1>8 DEF FileInv

(* The tick of a picker ends.                                              *)
LEMMA TickEnds ==
  ASSUME FileInv, picker.pc \in {"next", "pick"}, picker' = [picker EXCEPT !.pc = "idle"],
         UNCHANGED <<items, conv, header, unit, at, readed, buffer, history, gen, events>>,
         gen.pc = "run" => picker.cached # NoItem,
         Sorted => \A n \in 1 .. Len(items) :
           n > Served => items[n] >= header.start + (picker.tick + 1) * unit
  PROVE  FileInv'
<1>1. FileTypeOK /\ WritingInv /\ PickerInv /\ SortedInv /\ header.complete
  BY DEF FileInv, WritingInv
<1>2. picker'.pc = "idle" /\ picker'.tick = picker.tick /\ picker'.cached = picker.cached
  BY <1>1 DEF FileTypeOK
<1>3. picker.tick \in Int /\ gen.first \in Int /\ LastTick \in Int
  BY <1>1, Times DEF FileTypeOK
<1>4. FileTypeOK' BY <1>1 DEF FileTypeOK
<1>5. WritingInv' /\ PagingInv' /\ GeneratorInv' /\ Passed' = Passed /\ Served' = Served /\ Served \in Nat
  BY <1>1, <1>2, PickerMoves, Places DEF Served
<1>6. PickerInv'
 <2>1. StartTime(gen.first)' = StartTime(gen.first) BY DEF StartTime
 <2> QED BY <1>1, <1>2, <1>5, <2>1 DEF PickerInv
<1>7. EventsInv' BY <1>2, <1>3, <1>5, EventsKeep
<1>8. SortedInv'
 <2>1. Coming' = picker.tick + 1 BY <1>2 DEF Coming
 <2>2. \A n \in 1 .. Len(items) : Served < n /\ n <= Served' => items[n] < StartTime(gen.first)
   BY <1>5
 <2> QED BY <1>5, <2>1, <2>2, SortedKeeps
<1> QED BY <1>4, <1>5, <1>6, <1>7, <1>8 DEF FileInv

LEMMA PickEndsKeeps == FileInv /\ pick_ends => FileInv'
<1> SUFFICES ASSUME FileInv, pick_ends PROVE FileInv'
  OBVIOUS
<1>1. /\ FileTypeOK /\ GeneratorInv /\ PickerInv
      /\ picker.pc = "next" /\ gen.pc = "end" /\ picker' = [picker EXCEPT !.pc = "idle"]
      /\ UNCHANGED <<items, conv, header, unit, at, readed, buffer, history, gen, events>>
  BY DEF FileInv, pick_ends, readerVars
<1>2. /\ picker.cached = NoItem /\ picker.tick < LastTick /\ Served = Passed
      /\ Passed = Len(items) \/ (Passed < Len(items) /\ items[Passed + 1] > EndTime)
  BY <1>1 DEF PickerInv, GeneratorInv, Served
<1>3. ASSUME Sorted, NEW n \in 1 .. Len(items), n > Served
      PROVE  items[n] >= header.start + (picker.tick + 1) * unit
 <2>1. /\ Passed \in Nat /\ Len(items) \in Nat /\ picker.tick \in Int /\ LastTick \in Int
       /\ unit \in Nat \ {0} /\ header.start \in Int
   BY <1>1, Places, Times DEF FileTypeOK
 <2>2. Passed + 1 \in 1 .. Len(items) /\ items[Passed + 1] > EndTime BY <1>2, <1>3, <2>1
 <2>3. items[Passed + 1] <= items[n]
  <3>1. Passed + 1 = n \/ Passed + 1 < n BY <1>2, <1>3, <2>1
  <3>2. DOMAIN items = 1 .. Len(items) BY <1>1 DEF FileTypeOK
  <3>3. items[n] \in Int BY <1>1, Times
  <3> QED BY <1>3, <2>2, <3>1, <3>2, <3>3 DEF Sorted
 <2>4. (picker.tick + 1) * unit <= LastTick * unit /\ LastTick * unit \in Int /\ (picker.tick + 1) * unit \in Int
  <3>1. picker.tick + 1 <= LastTick /\ picker.tick + 1 \in Int BY <1>2, <2>1
  <3> QED BY <2>1, <3>1, TicksInOrder
 <2>5. items[n] \in Int /\ items[Passed + 1] \in Int BY <1>1, <2>2, Times
 <2> DEFINE b == (picker.tick + 1) * unit
            c == LastTick * unit
 <2>6. b \in Int /\ c \in Int /\ b <= c BY <2>4
 <2>7. items[Passed + 1] > header.start + c BY <2>2 DEF EndTime
 <2> HIDE DEF b, c
 <2>8. items[n] >= header.start + b BY <2>1, <2>3, <2>5, <2>6, <2>7
 <2> QED BY <2>8 DEF b
<1> QED BY <1>1, <1>3, TickEnds

(* The cached item is of a later tick, becomes an event, or is dropped.    *)
LEMMA PickLater ==
  ASSUME FileInv, pick, items[picker.cached] - (header.start + picker.tick * unit) >= unit
  PROVE  FileInv'
<1>1. /\ FileTypeOK /\ PickerInv /\ picker.pc = "pick" /\ picker' = [picker EXCEPT !.pc = "idle"]
      /\ UNCHANGED <<items, conv, header, unit, at, readed, buffer, history, gen, events>>
  BY DEF FileInv, pick, readerVars
<1>2. picker.cached # NoItem /\ picker.cached = Passed /\ picker.cached \in 1 .. Len(items) /\ Served = Passed - 1
  BY <1>1 DEF PickerInv, Served
<1>3. ASSUME Sorted, NEW n \in 1 .. Len(items), n > Served
      PROVE  items[n] >= header.start + (picker.tick + 1) * unit
 <2>1. /\ Passed \in Nat /\ Len(items) \in Nat /\ picker.tick \in Int /\ unit \in Nat \ {0} /\ header.start \in Int
   BY <1>1, Places, Times DEF FileTypeOK
 <2>2. items[picker.cached] <= items[n]
  <3>1. picker.cached = n \/ picker.cached < n BY <1>2, <1>3, <2>1
  <3>2. DOMAIN items = 1 .. Len(items) BY <1>1 DEF FileTypeOK
  <3>3. items[n] \in Int BY <1>1, Times
  <3> QED BY <1>2, <1>3, <3>1, <3>2, <3>3 DEF Sorted
 <2>3. (picker.tick + 1) * unit = picker.tick * unit + unit /\ picker.tick * unit \in Int
   BY <2>1, TicksInOrder
 <2>4. items[n] \in Int /\ items[picker.cached] \in Int BY <1>1, <1>2, Times
 <2> DEFINE b == picker.tick * unit
            c == (picker.tick + 1) * unit
 <2>5. b \in Int /\ items[picker.cached] - (header.start + b) >= unit BY <2>3
 <2>6. c = b + unit BY <2>3
 <2> HIDE DEF b, c
 <2>7. items[n] >= header.start + c BY <2>1, <2>2, <2>4, <2>5, <2>6
 <2> QED BY <2>7 DEF c
<1> QED BY <1>1, <1>2, <1>3, TickEnds

LEMMA PickTaken ==
  ASSUME FileInv, pick, items[picker.cached] - (header.start + picker.tick * unit) < unit
  PROVE  FileInv'
<1> DEFINE since == items[picker.cached] - (header.start + picker.tick * unit)
           e == [tick |-> picker.tick, item |-> picker.cached]
<1>1. /\ FileTypeOK /\ WritingInv /\ PickerInv /\ EventsInv /\ SortedInv /\ header.complete /\ picker.pc = "pick"
      /\ UNCHANGED <<items, conv, header, unit, at, readed, buffer, history, gen>>
  BY DEF FileInv, WritingInv, pick, readerVars
<1>2. /\ picker.cached # NoItem /\ picker.cached = Passed /\ picker.cached \in 1 .. Len(items) /\ Served = Passed - 1
      /\ gen.first <= picker.tick /\ gen.pc = "run"
  BY <1>1 DEF PickerInv, Served
<1>3. /\ Passed \in Nat /\ Served \in Nat /\ Passed = Served + 1 /\ Len(items) \in Nat /\ picker.tick \in Int
      /\ unit \in Nat \ {0} /\ header.start \in Int /\ gen.first \in Int /\ items[picker.cached] \in Int
      /\ Len(events) \in Nat /\ events \in Seq([tick : Int, item : Nat])
 <2>1. unit \in Nat \ {0} /\ picker.tick \in Int /\ events \in Seq([tick : Int, item : Nat])
   BY <1>1 DEF FileTypeOK
 <2>2. /\ header.start \in Int /\ gen.first \in Int /\ items[picker.cached] \in Int
   BY <1>1, <1>2, Times
 <2>3. /\ Passed \in Nat /\ Served \in Nat /\ Len(items) \in Nat /\ Len(events) \in Nat
   BY Places
 <2>4. Passed = Served + 1 BY <1>2, <2>3
 <2> QED BY <2>1, <2>2, <2>3, <2>4
<1>4. (picker.tick + 1) * unit = picker.tick * unit + unit /\ picker.tick * unit \in Int
  BY <1>3, TicksInOrder
<1> DEFINE b == picker.tick * unit
<1>5. since \in Int /\ since < unit /\ b \in Int /\ since = items[picker.cached] - (header.start + b)
 <2>1. b \in Int /\ since = items[picker.cached] - (header.start + b) /\ since < unit
   BY <1>4
 <2> HIDE DEF b, since
 <2> QED BY <1>3, <2>1
<1>6. /\ picker' = [picker EXCEPT !.pc = "next", !.cached = NoItem]
      /\ events' = IF since < 0 THEN events ELSE Append(events, e)
 <2>1. ~ (since >= unit)
  <3> HIDE DEF b, since
  <3> QED BY <1>3, <1>5
 <2> QED BY <2>1 DEF pick
<1>7. picker'.pc = "next" /\ picker'.tick = picker.tick /\ picker'.cached = NoItem
  BY <1>1, <1>6 DEF FileTypeOK
<1>8. since >= 0 => InTick(picker.cached, picker.tick)
 <2>1. since >= 0 => header.start + b <= items[picker.cached] /\ items[picker.cached] < header.start + (b + unit)
  <3>1. items[picker.cached] \in Int /\ header.start \in Int /\ unit \in Int BY <1>3
  <3> HIDE DEF b, since
  <3> QED BY <1>5, <3>1
 <2>2. (picker.tick + 1) * unit = b + unit BY <1>4
 <2> QED BY <2>1, <2>2 DEF InTick
<1>9. since < 0 => items[picker.cached] < header.start + picker.tick * unit
 <2>1. since < 0 => items[picker.cached] < header.start + b
  <3> HIDE DEF b, since
  <3> QED BY <1>3, <1>5
 <2> QED BY <2>1
<1> HIDE DEF since, b
<1>10. e \in [tick : Int, item : Nat] /\ e.item = picker.cached /\ e.tick = picker.tick
  BY <1>2, <1>3
<1> HIDE DEF e
<1>11. /\ events' \in Seq([tick : Int, item : Nat]) /\ Len(events') \in {Len(events), Len(events) + 1}
       /\ Len(events') = IF since < 0 THEN Len(events) ELSE Len(events) + 1
       /\ \A k \in 1 .. Len(events) : events'[k] = events[k]
       /\ (since >= 0 => events'[Len(events) + 1] = e)
 <2>1. CASE since < 0 BY <1>3, <1>5, <1>6, <2>1
 <2>2. CASE since >= 0
  <3>1. events' = Append(events, e) BY <1>5, <1>6, <2>2
  <3>2. events' \in Seq([tick : Int, item : Nat]) /\ Len(events') = Len(events) + 1
    BY <1>3, <1>10, <3>1
  <3>3. \A k \in 1 .. Len(events) : events'[k] = events[k] BY <1>3, <1>10, <3>1
  <3>4. events'[Len(events) + 1] = e BY <1>3, <1>10, <3>1
  <3>5. ~ (since < 0) BY <1>5, <2>2
  <3> QED BY <2>2, <3>2, <3>3, <3>4, <3>5
 <2> QED BY <1>5, <2>1, <2>2
<1>12. FileTypeOK'
 <2>1. picker' \in [pc : {"none", "idle", "next", "pick"}, tick : Int, cached : Nat]
   BY <1>1, <1>6 DEF FileTypeOK, NoItem
 <2> QED BY <1>1, <1>11, <2>1 DEF FileTypeOK
<1>13. WritingInv' /\ PagingInv' /\ GeneratorInv' /\ Passed' = Passed /\ Served' = Passed
  BY <1>1, <1>7, PickerMoves DEF Served
<1>14. PickerInv' BY <1>1, <1>2, <1>7 DEF PickerInv
<1>15. \A n \in 1 .. Served : n \in 1 .. Passed /\ n < Passed
 <2>1. Served \in Nat /\ Passed = Served + 1 BY <1>3
 <2> QED BY <2>1
<1>16. EventsInv'
 <2>1. ASSUME NEW k \in 1 .. Len(events')
       PROVE  /\ events'[k].item \in 1 .. Passed /\ events'[k].item \in 1 .. Len(items)
              /\ events'[k].tick \in gen.first .. picker.tick
              /\ InTick(events'[k].item, events'[k].tick)
  <3>1. CASE k \in 1 .. Len(events)
   <4>1. /\ events[k].item \in 1 .. Served /\ events[k].item \in 1 .. Len(items)
         /\ events[k].tick \in gen.first .. picker.tick
         /\ InTick(events[k].item, events[k].tick)
     BY <1>1, <3>1 DEF EventsInv
   <4>2. events'[k] = events[k] BY <1>11, <3>1
   <4>3. events[k].item \in 1 .. Passed BY <1>15, <4>1
   <4> QED BY <4>1, <4>2, <4>3
  <3>2. CASE k \notin 1 .. Len(events)
   <4>1. since >= 0 /\ k = Len(events) + 1 BY <1>3, <1>5, <1>11, <3>2
   <4>2. events'[k] = e BY <1>11, <4>1
   <4>3. picker.cached \in 1 .. Passed /\ picker.tick \in gen.first .. picker.tick
     BY <1>2, <1>3
   <4> QED BY <1>2, <1>8, <1>10, <4>1, <4>2, <4>3
  <3> QED BY <3>1, <3>2
 <2>2. \A n, t : InTick(n, t)' = InTick(n, t) BY <1>1 DEF InTick
 <2>3. ASSUME NEW k \in 1 .. Len(events')
       PROVE  /\ events'[k].item \in 1 .. Served' /\ events'[k].item \in 1 .. Len(items')
              /\ events'[k].tick \in gen'.first .. picker'.tick
              /\ InTick(events[k].item, events[k].tick)'
  <3>1. InTick(events[k].item, events[k].tick)' BY <1>1, <2>1 DEF InTick
  <3> QED BY <1>1, <1>7, <1>13, <2>1, <3>1
 <2>4. ASSUME NEW m \in 1 .. Len(events'), NEW n \in 1 .. Len(events'), m < n
       PROVE  events'[m].item < events'[n].item
  <3>1. m \in 1 .. Len(events) BY <1>3, <1>11, <2>4
  <3>2. CASE n \in 1 .. Len(events) BY <1>1, <1>11, <2>4, <3>1, <3>2 DEF EventsInv
  <3>3. CASE n \notin 1 .. Len(events)
   <4>1. since >= 0 /\ n = Len(events) + 1 BY <1>3, <1>5, <1>11, <3>3
   <4>2. events'[n].item = Passed BY <1>2, <1>10, <1>11, <4>1
   <4>3. events[m].item \in 1 .. Served /\ events'[m] = events[m]
     BY <1>1, <1>11, <3>1 DEF EventsInv
   <4>4. events[m].item < Passed BY <1>15, <4>3
   <4> QED BY <4>2, <4>3, <4>4
  <3> QED BY <3>2, <3>3
 <2> QED BY <2>3, <2>4 DEF EventsInv
<1>17. SortedInv'
 <2>1. Coming' = picker.tick /\ Coming = picker.tick BY <1>1, <1>7 DEF Coming
 <2>2. Sorted' = Sorted /\ StartTime(gen.first)' = StartTime(gen.first)
   BY <1>1 DEF Sorted, StartTime
 <2>3. ASSUME Sorted, NEW n \in 1 .. Len(items), items[n] >= StartTime(gen.first)
       PROVE  IF n <= Passed THEN \E k \in 1 .. Len(events') : events'[k].item = n
                            ELSE items[n] >= header.start + picker.tick * unit
  <3>1. CASE n <= Served
   <4>1. PICK k \in 1 .. Len(events) : events[k].item = n BY <1>1, <2>3, <3>1 DEF SortedInv
   <4>2. k \in 1 .. Len(events') /\ events'[k].item = n /\ n <= Passed
    <5>1. k \in 1 .. Len(events') BY <1>3, <1>11
    <5>2. n <= Passed BY <1>3, <3>1
    <5> QED BY <1>11, <4>1, <5>1, <5>2
   <4> QED BY <4>2
  <3>2. CASE ~ (n <= Served)
   <4>1. items[n] >= header.start + picker.tick * unit
     BY <1>1, <2>1, <2>3, <3>2 DEF SortedInv
   <4>2. CASE n <= Passed
    <5>1. n = picker.cached BY <1>2, <1>3, <3>2, <4>2
    <5>2. header.start + picker.tick * unit \in Int BY <1>1, <1>3, Times
    <5>3. ~ (since < 0) BY <1>3, <1>9, <4>1, <5>1, <5>2
    <5>4. Len(events) + 1 \in 1 .. Len(events') /\ events'[Len(events) + 1].item = n
      BY <1>3, <1>5, <1>10, <1>11, <5>1, <5>3
    <5> QED BY <4>2, <5>4
   <4> QED BY <4>1, <4>2
  <3> QED BY <3>1, <3>2
 <2> QED BY <1>1, <1>13, <2>1, <2>2, <2>3 DEF SortedInv
<1> QED BY <1>12, <1>13, <1>14, <1>16, <1>17 DEF FileInv

LEMMA FileInvInit == FileInit => FileInv
<1> SUFFICES ASSUME FileInit PROVE FileInv
  OBVIOUS
<1>1. /\ items = <<>> /\ header = [start |-> 0, end |-> 0, complete |-> FALSE] /\ unit \in Units
      /\ at = 0 /\ readed = 0 /\ buffer = <<>> /\ history = [f \in {} |-> 0] /\ events = <<>>
      /\ gen = [pc |-> "new", first |-> 0, known |-> FALSE, pre |-> 0, i |-> 0]
      /\ picker = [pc |-> "none", tick |-> 0, cached |-> 0]
  BY DEF FileInit, NewGenerator, NoItem
<1>2. gen.pc = "new" /\ picker.pc = "none" /\ picker.cached = NoItem /\ DOMAIN history = {}
  BY <1>1 DEF NoItem
<1>3. FileTypeOK
 <2>1. 0 \in 0 .. LastTick BY FileAssumption
 <2>2. conv \in [start : Int, end : Int, changed : BOOLEAN]
  <3>1. \/ conv = [start |-> 0, end |-> 0, changed |-> FALSE]
        \/ \E s \in UtcStarts : conv = [start |-> s, end |-> 0, changed |-> TRUE]
    BY DEF FileInit
  <3>2. \A s \in UtcStarts : s \in Int BY FileAssumption
  <3>3. CASE conv = [start |-> 0, end |-> 0, changed |-> FALSE] BY <3>3
  <3>4. ASSUME NEW s \in UtcStarts, conv = [start |-> s, end |-> 0, changed |-> TRUE]
        PROVE  conv \in [start : Int, end : Int, changed : BOOLEAN]
   <4>1. s \in Int BY <3>2
   <4> QED BY <3>4, <4>1
  <3> QED BY <3>1, <3>3, <3>4
 <2> QED BY <1>1, <2>1, <2>2, FileAssumption DEF FileTypeOK
<1>4. WritingInv /\ PagingInv /\ GeneratorInv /\ SortedInv
  BY <1>1, <1>2 DEF WritingInv, PagingInv, GeneratorInv, SortedInv
<1>5. PickerInv /\ EventsInv BY <1>1, <1>2 DEF PickerInv, EventsInv
<1> QED BY <1>3, <1>4, <1>5 DEF FileInv

LEMMA FileInvStep == FileInv /\ FileNext => FileInv'
<1> SUFFICES ASSUME FileInv, FileNext PROVE FileInv'
  OBVIOUS
<1>1. pick => FileInv'
 <2> SUFFICES ASSUME pick PROVE FileInv'
   OBVIOUS
 <2>1. FileTypeOK /\ picker.cached \in 1 .. Len(items) BY DEF FileInv, PickerInv, pick
 <2>2. /\ items[picker.cached] \in Int /\ picker.tick \in Int /\ header.start + picker.tick * unit \in Int
       /\ unit \in Int
  <3>1. picker.tick \in Int /\ unit \in Int BY <2>1 DEF FileTypeOK
  <3> QED BY <2>1, <3>1, Times
 <2>3. \/ items[picker.cached] - (header.start + picker.tick * unit) >= unit
       \/ items[picker.cached] - (header.start + picker.tick * unit) < unit
  <3> DEFINE b == header.start + picker.tick * unit
  <3>1. b \in Int BY <2>2
  <3> HIDE DEF b
  <3>2. items[picker.cached] - b >= unit \/ items[picker.cached] - b < unit BY <2>2, <3>1
  <3> QED BY <3>2 DEF b
 <2> QED BY <2>3, PickLater, PickTaken
<1> QED BY <1>1, WriteKeeps, UpdateHeaderKeeps, ItemsStartsKeeps, ItemsStepKeeps, ItemsRefillKeeps,
           ItemsTickPickerKeeps, ReadItemsKeeps, PickEndsKeeps
        DEF FileNext

(* The tick of an item by division and by comparison.                      *)
LEMMA TickOfItem ==
  ASSUME FileTypeOK, NEW n \in 1 .. Len(items), NEW t \in Int
  PROVE  /\ TickOf(n) \in Int
         /\ TickOf(n) >= t <=> items[n] >= header.start + t * unit
<1> DEFINE a == items[n] - header.start
           b == t * unit
<1>1. items[n] \in Int /\ header.start \in Int /\ unit \in Nat \ {0} BY Times DEF FileTypeOK
<1>2. a \in Int BY <1>1
<1>3. TickOf(n) = a \div unit BY DEF TickOf
<1> HIDE DEF a
<1>4. (a \div unit) \in Int /\ b \in Int /\ ((a \div unit) >= t <=> a >= b)
  BY <1>1, <1>2, TickAtLeast
<1> HIDE DEF b
<1>5. a >= b <=> items[n] >= header.start + b BY <1>1, <1>4 DEF a
<1>6. TickOf(n) \in Int /\ (TickOf(n) >= t <=> items[n] >= header.start + b)
  BY <1>3, <1>4, <1>5
<1> QED BY <1>6 DEF b

(* Whatever the size of the buffer, the start offsets asked for before and *)
(* the places remembered for them, the events of each tick are the items   *)
(* of that tick, none twice, and none missing if the file is sorted.       *)
THEOREM FileItemsAreOnTime == DataSpec => []ItemsComeOnTime
<1>1. DataInit => FileInv BY FileInvInit DEF DataInit
<1>2. FileInv /\ [DataNext]_dataVars => FileInv'
 <2> SUFFICES ASSUME FileInv, [DataNext]_dataVars PROVE FileInv'
   OBVIOUS
 <2>1. FileNext \/ UNCHANGED fileVars BY DEF DataNext, dataVars
 <2>2. CASE UNCHANGED fileVars
  <3>1. UNCHANGED <<items, rows, conv, header, unit, at, readed, buffer, history, gen, picker, events>>
    BY <2>2 DEF fileVars, readerVars
  <3>2. FileTypeOK' /\ WritingInv' /\ PagingInv'
    BY <3>1 DEF FileInv, FileTypeOK, WritingInv, PagingInv
  <3>3. Passed' = Passed /\ Served' = Served BY <3>1 DEF Passed, Served
  <3>4. GeneratorInv' BY <3>1, <3>3 DEF FileInv, GeneratorInv, StartTime, EndTime
  <3>5. PickerInv' BY <3>1, <3>3 DEF FileInv, PickerInv, StartTime
  <3>6. EventsInv' /\ SortedInv'
    BY <3>1, <3>3 DEF FileInv, EventsInv, SortedInv, InTick, Sorted, StartTime, Coming
  <3> QED BY <3>2, <3>4, <3>5, <3>6 DEF FileInv
 <2> QED BY <2>1, <2>2, FileInvStep
<1>3. FileInv => ItemsComeOnTime
 <2> SUFFICES ASSUME FileInv, picker.pc = "idle"
              PROVE  /\ \A k \in DOMAIN events : events[k].tick = TickOf(events[k].item)
                     /\ Cardinality(ReadSoFar) = Len(events)
                     /\ Sorted =>
                          /\ ReadSoFar = {n \in DOMAIN items : TickOf(n) \in gen.first .. picker.tick}
                          /\ \A k \in 1 .. Len(events) - 1 : events[k].item < events[k + 1].item
   BY DEF ItemsComeOnTime
 <2>1. /\ FileTypeOK /\ EventsInv /\ SortedInv /\ Len(events) \in Nat /\ Len(items) \in Nat
       /\ DOMAIN events = 1 .. Len(events) /\ DOMAIN items = 1 .. Len(items)
       /\ picker.tick \in Int /\ gen.first \in Int
   BY Places, Times DEF FileInv, FileTypeOK
 <2>2. ASSUME NEW k \in 1 .. Len(events)
       PROVE  /\ events[k].item \in 1 .. Len(items) /\ events[k].tick = TickOf(events[k].item)
              /\ events[k].tick \in gen.first .. picker.tick
  <3>1. /\ events[k].item \in 1 .. Len(items) /\ events[k].tick \in gen.first .. picker.tick
        /\ InTick(events[k].item, events[k].tick)
    BY <2>1 DEF EventsInv
  <3>2. events[k].tick \in Int /\ events[k].tick + 1 \in Int BY <2>1, <3>1
  <3>3. TickOf(events[k].item) >= events[k].tick BY <2>1, <3>1, <3>2, TickOfItem DEF InTick
  <3>4. ~ (TickOf(events[k].item) >= events[k].tick + 1)
   <4>1. /\ items[events[k].item] \in Int /\ header.start + (events[k].tick + 1) * unit \in Int
         /\ items[events[k].item] < header.start + (events[k].tick + 1) * unit
     BY <2>1, <3>1, <3>2, Times DEF InTick
   <4> DEFINE c == header.start + (events[k].tick + 1) * unit
   <4>2. TickOf(events[k].item) >= events[k].tick + 1 <=> items[events[k].item] >= c
     BY <2>1, <3>1, <3>2, TickOfItem
   <4>3. c \in Int /\ items[events[k].item] < c BY <4>1
   <4> HIDE DEF c
   <4> QED BY <4>1, <4>2, <4>3
  <3>5. TickOf(events[k].item) \in Int BY <2>1, <3>1, TickOfItem
  <3> QED BY <3>1, <3>2, <3>3, <3>4, <3>5
 <2>3. ReadSoFar = {events[k].item : k \in 1 .. Len(events)} BY <2>1 DEF ReadSoFar
 <2>4. Cardinality(ReadSoFar) = Len(events)
  <3> DEFINE I == 1 .. Len(events)
             f == [k \in I |-> events[k].item]
  <3>1. \A m, n \in I : m # n => f[m] # f[n]
   <4> SUFFICES ASSUME NEW m \in I, NEW n \in I, m # n PROVE f[m] # f[n]
     OBVIOUS
   <4>1. m < n \/ n < m OBVIOUS
   <4>2. f[m] < f[n] \/ f[n] < f[m] BY <2>1, <4>1 DEF EventsInv
   <4>3. f[m] \in Int /\ f[n] \in Int BY <2>2
   <4> QED BY <4>2, <4>3
  <3>2. f \in [I -> ReadSoFar] /\ \A x \in ReadSoFar : \E k \in I : f[k] = x BY <2>3
  <3>3. ExistsBijection(1 .. Len(events), ReadSoFar)
   <4>1. f \in Bijection(I, ReadSoFar)
     BY <3>1, <3>2 DEF Bijection, Injection, Surjection, IsInjective
   <4> QED BY <4>1 DEF ExistsBijection
  <3> HIDE DEF f
  <3> QED BY <2>1, <3>3, FS_CountingElements
 <2>5. ASSUME Sorted, NEW n \in 1 .. Len(items), TickOf(n) \in gen.first .. picker.tick
       PROVE  n \in ReadSoFar
  <3>1. items[n] >= StartTime(gen.first) BY <2>1, <2>5, TickOfItem DEF StartTime
  <3>2. ~ (items[n] >= header.start + (picker.tick + 1) * unit)
   <4>1. picker.tick + 1 \in Int /\ TickOf(n) \in Int BY <2>1, TickOfItem
   <4>2. ~ (TickOf(n) >= picker.tick + 1) BY <2>1, <2>5, <4>1
   <4> QED BY <2>1, <4>1, <4>2, TickOfItem
  <3>3. Coming = picker.tick + 1 BY DEF Coming
  <3>4. n <= Served BY <2>1, <2>5, <3>1, <3>2, <3>3 DEF SortedInv
  <3>5. PICK k \in 1 .. Len(events) : events[k].item = n
    BY <2>1, <2>5, <3>1, <3>4 DEF SortedInv
  <3> QED BY <2>3, <3>5
 <2>6. ASSUME Sorted PROVE ReadSoFar = {n \in DOMAIN items : TickOf(n) \in gen.first .. picker.tick}
  <3>1. \A x \in ReadSoFar : x \in 1 .. Len(items) /\ TickOf(x) \in gen.first .. picker.tick
    BY <2>2, <2>3
  <3> QED BY <2>1, <2>5, <2>6, <3>1
 <2>7. \A k \in 1 .. Len(events) - 1 : events[k].item < events[k + 1].item
   BY <2>1 DEF EventsInv
 <2> QED BY <2>1, <2>2, <2>4, <2>6, <2>7
<1> QED BY <1>1, <1>2, <1>3, PTL DEF DataSpec


-----------------------------------------------------------------------------
(* Citi bike.                                                              *)

Arrivals == [type : {"ReturnBike", "DeliverBike"}, from : Stations, to : Stations, n : Nat]
Decisions == [type : {"DECISION"}, s : Stations, kind : {"Supply", "Demand"}]
Actions == [type : {"ACTION"}, n : Nat, from : Stations, to : Stations]
BikeEvent == Trips \cup Arrivals \cup [type : {"RebalanceBike"}] \cup Decisions \cup Actions

Demands == [Stations -> Nat]

BikeTypeOK ==
  /\ now \in 0 .. MaxTick /\ pc \in {"step", "execute", "end"}
  /\ agenda \in [AgendaTicks -> Seq(BikeEvent)] /\ unlinked \in Seq(BikeEvent)
  /\ bikes \in [Stations -> Nat] /\ trips \in Demands
  /\ DOMAIN snapshots \subseteq 0 .. FrameIndex /\ DOMAIN cache \subseteq DOMAIN snapshots
  /\ snapshots \in [DOMAIN snapshots -> Demands] /\ cache \in [DOMAIN cache -> Demands]
  /\ requested \in Nat /\ resets \in Nat

(* What the events in a queue carry.                                       *)
OnTheWay(ag) == SumFunctionOnSet([t \in AgendaTicks |-> CarriedBy(ag[t])], AgendaTicks)

(* Whatever a transfer takes, its bikes are in some queue, or in what no   *)
(* queue leads to any more.                                                *)
BikeBook ==
  SumFunctionOnSet(bikes, Stations) + OnTheWay(agenda) + CarriedBy(unlinked)
    = SumFunctionOnSet(InitBikes, Stations)

(* Only arrivals wait for a later tick; once the stations of a tick ask    *)
(* for decisions, no trip of it is left.                                   *)
Immediate == {"RequireBike", "RebalanceBike", "DECISION", "ACTION"}
Waits(es) == \A i \in DOMAIN es : es[i].type \notin Immediate
NoTrip(es) == \A i \in DOMAIN es : es[i].type # "RequireBike"
Settles(es, decides) ==
  \A i \in DOMAIN es : es[i].type \in Immediate \ {"RequireBike"} =>
     decides /\ \A j \in DOMAIN es : j > i => es[j].type # "RequireBike"

BikeQueues ==
  /\ \A t \in AgendaTicks : t # now \/ pc # "execute" => Waits(agenda[t])
  /\ Settles(agenda[now], IsDecisionTick)

(* Where every decision ends a frame, what is cached of a frame is what    *)
(* its snapshot will show: no trip is counted in it any more.              *)
BikeCache ==
  /\ CacheShowsFrames
  /\ FrameIndex \in DOMAIN cache =>
       /\ (now + 1) % SnapshotResolution = 0
       /\ pc \in {"execute", "end"}
       /\ pc = "execute" => cache[FrameIndex] = trips /\ NoTrip(agenda[now])

(* Where transfers take time, no event is left behind.                     *)
Later == \A t \in TransferTimes : t > 0
Aligned == DecisionResolution % SnapshotResolution = 0
BikesInv == BikeTypeOK /\ BikeBook /\ WithinCapacity /\ BikeQueues

-----------------------------------------------------------------------------
(* The constants: the ticks that events are planned for are finitely many. *)
LEMMA Clock ==
  /\ IsFiniteSet(AgendaTicks) /\ AgendaTicks \subseteq Int
  /\ \A t \in 0 .. MaxTick : t \in AgendaTicks /\ \A d \in Durations : t + d \in AgendaTicks
<1> DEFINE A == Durations \cup TransferTimes
           B == {0} \cup TransferTimes
           a == Max(A)
           b == Min(B)
<1>1. IsFiniteSet(A) /\ A # {} /\ (\A x \in A : x \in Int) /\ Durations \subseteq Nat /\ MaxTick \in Nat
      /\ Durations # {} /\ TransferTimes \subseteq A
  BY CitiBikeAssumption
<1>2. IsFiniteSet(B) /\ B # {} /\ (\A x \in B : x \in Int)
 <2>1. IsFiniteSet(TransferTimes) BY <1>1, FS_Subset
 <2>2. IsFiniteSet({0}) BY FS_Singleton
 <2>3. IsFiniteSet({0} \cup TransferTimes) BY <2>1, <2>2, FS_Union
 <2> QED BY <1>1, <2>3
<1> HIDE DEF A
<1>3. a \in Int /\ \A x \in A : a >= x BY <1>1, Extremes
<1> HIDE DEF B
<1>4. b \in Int /\ \A x \in B : b <= x BY <1>2, Extremes
<1>5. AgendaTicks = b .. MaxTick + a BY DEF AgendaTicks, LastPlanned, A, B
<1> HIDE DEF a, b
<1>6. IsFiniteSet(b .. MaxTick + a) BY <1>1, <1>3, <1>4, FS_Interval
<1>7. \A d \in Durations : d \in Nat /\ d <= a BY <1>1, <1>3 DEF A
<1>8. b <= 0 BY <1>4 DEF B
<1>9. a >= 0
 <2>1. PICK d \in Durations : TRUE BY <1>1
 <2>2. d \in Nat /\ d <= a BY <1>7
 <2> QED BY <1>3, <2>2
<1> QED BY <1>1, <1>3, <1>4, <1>5, <1>6, <1>7, <1>8, <1>9

LEMMA StationFacts ==
  /\ IsFiniteSet(Stations)
  /\ \A s \in Stations : /\ Capacity[s] \in Nat \ {0} /\ InitBikes[s] \in Nat /\ InitBikes[s] <= Capacity[s]
                         /\ Near[s] \in Seq(Stations) /\ IsInjective(Near[s])
                         /\ ToSet(Near[s]) = Stations \ {s}
  /\ InitBikes \in [Stations -> Nat]
BY CitiBikeAssumption

\* What an event carries.
BikeLoad == [e \in BikeEvent |-> Carried(e)]

LEMMA BikeLoads ==
  /\ BikeLoad \in [BikeEvent -> Nat] /\ BikeLoad \in [BikeEvent -> Int]
  /\ \A es \in Seq(BikeEvent) : CarriedBy(es) = Sum(BikeLoad, es) /\ CarriedBy(es) \in Nat
<1>1. ASSUME NEW e \in BikeEvent PROVE Carried(e) \in Nat
  BY DEF Carried, BikeEvent, Trips, Arrivals, Decisions, Actions
<1>2. BikeLoad \in [BikeEvent -> Nat] BY <1>1 DEF BikeLoad
<1>3. BikeLoad \in [BikeEvent -> Int] BY <1>2
<1>4. ASSUME NEW es \in Seq(BikeEvent)
      PROVE  CarriedBy(es) = Sum(BikeLoad, es) /\ CarriedBy(es) \in Nat
 <2>1. \A i \in DOMAIN es : es[i] \in BikeEvent OBVIOUS
 <2>2. [i \in DOMAIN es |-> Carried(es[i])] = [i \in DOMAIN es |-> BikeLoad[es[i]]]
   BY <2>1 DEF BikeLoad
 <2>3. CarriedBy(es) = Sum(BikeLoad, es) BY <2>2 DEF CarriedBy, Sum
 <2> QED BY <1>2, <1>3, <2>3, SumType
<1> QED BY <1>2, <1>3, <1>4

\* A queue after an event was put at its end, or its first taken.
LEMMA QueueLoads ==
  ASSUME NEW es \in Seq(BikeEvent)
  PROVE  /\ \A e \in BikeEvent : Append(es, e) \in Seq(BikeEvent)
                                 /\ CarriedBy(Append(es, e)) = CarriedBy(es) + Carried(e)
         /\ \A fs \in Seq(BikeEvent) : CarriedBy(es \o fs) = CarriedBy(es) + CarriedBy(fs)
         /\ es # <<>> => /\ Head(es) \in BikeEvent /\ Tail(es) \in Seq(BikeEvent)
                         /\ CarriedBy(Tail(es)) = CarriedBy(es) - Carried(Head(es))
<1>1. /\ BikeLoad \in [BikeEvent -> Int]
      /\ \A fs \in Seq(BikeEvent) : CarriedBy(fs) = Sum(BikeLoad, fs) /\ CarriedBy(fs) \in Nat
      /\ \A e \in BikeEvent : BikeLoad[e] = Carried(e) /\ BikeLoad[e] \in Int
 <2>1. \A e \in BikeEvent : BikeLoad[e] = Carried(e) BY DEF BikeLoad
 <2> QED BY <2>1, BikeLoads
<1>2. ASSUME NEW fs \in Seq(BikeEvent) PROVE CarriedBy(es \o fs) = CarriedBy(es) + CarriedBy(fs)
 <2>1. Sum(BikeLoad, es \o fs) = Sum(BikeLoad, es) + Sum(BikeLoad, fs) BY <1>1, SumOfConcat
 <2>2. es \o fs \in Seq(BikeEvent) OBVIOUS
 <2> QED BY <1>1, <2>1, <2>2
<1>3. ASSUME NEW e \in BikeEvent
      PROVE  Append(es, e) \in Seq(BikeEvent) /\ CarriedBy(Append(es, e)) = CarriedBy(es) + Carried(e)
 <2>1. <<e>> \in Seq(BikeEvent) /\ Append(es, e) = es \o <<e>> /\ Append(es, e) \in Seq(BikeEvent)
   BY AppendIsConcat
 <2>2. Sum(BikeLoad, <<e>>) = BikeLoad[e] BY <1>1, SumOfEvents
 <2>3. CarriedBy(es \o <<e>>) = CarriedBy(es) + CarriedBy(<<e>>) BY <1>2, <2>1
 <2> QED BY <1>1, <2>1, <2>2, <2>3
<1>4. ASSUME es # <<>>
      PROVE  /\ Head(es) \in BikeEvent /\ Tail(es) \in Seq(BikeEvent)
             /\ CarriedBy(Tail(es)) = CarriedBy(es) - Carried(Head(es))
 <2>1. /\ Head(es) \in BikeEvent /\ Tail(es) \in Seq(BikeEvent)
       /\ Sum(BikeLoad, es) = BikeLoad[Head(es)] + Sum(BikeLoad, Tail(es))
   BY <1>1, <1>4, SumOfTail
 <2>2. BikeLoad[Head(es)] = Carried(Head(es)) /\ BikeLoad[Head(es)] \in Int BY <1>1, <2>1
 <2>3. CarriedBy(Tail(es)) = Sum(BikeLoad, Tail(es)) /\ CarriedBy(Tail(es)) \in Nat
       /\ CarriedBy(es) = Sum(BikeLoad, es) /\ CarriedBy(es) \in Nat
   BY <1>1, <2>1
 <2> DEFINE a == CarriedBy(Tail(es))
            b == CarriedBy(es)
            c == Carried(Head(es))
 <2>4. a \in Nat /\ b \in Nat /\ c \in Int /\ b = c + a BY <2>1, <2>2, <2>3
 <2> HIDE DEF a, b, c
 <2>5. a = b - c BY <2>4
 <2> QED BY <2>1, <2>5 DEF a, b, c
<1> QED BY <1>2, <1>3, <1>4

Agendas == [AgendaTicks -> Seq(BikeEvent)]

LEMMA WaitingBikes ==
  ASSUME NEW ag \in Agendas
  PROVE  /\ OnTheWay(ag) \in Nat
         /\ \A t \in AgendaTicks : CarriedBy(ag[t]) \in Nat /\ CarriedBy(ag[t]) <= OnTheWay(ag)
<1> DEFINE f == [t \in AgendaTicks |-> CarriedBy(ag[t])]
<1>1. \A t \in AgendaTicks : ag[t] \in Seq(BikeEvent) BY DEF Agendas
<1>2. \A t \in AgendaTicks : f[t] = CarriedBy(ag[t]) /\ f[t] \in Nat BY <1>1, BikeLoads
<1>3. OnTheWay(ag) = SumFunctionOnSet(f, AgendaTicks) /\ IsFiniteSet(AgendaTicks)
  BY Clock DEF OnTheWay
<1> HIDE DEF f
<1>4. SumFunctionOnSet(f, AgendaTicks) \in Nat BY <1>2, <1>3, SumIsNatural
<1>5. ASSUME NEW t \in AgendaTicks PROVE f[t] <= SumFunctionOnSet(f, AgendaTicks)
 <2>1. SumFunctionOnSet(f, AgendaTicks) = f[t] + SumFunctionOnSet(f, AgendaTicks \ {t})
   BY <1>2, <1>3, SumRemoves
 <2>2. IsFiniteSet(AgendaTicks \ {t}) /\ \A u \in AgendaTicks \ {t} : f[u] \in Nat
   BY <1>2, <1>3, FS_RemoveElement
 <2>3. SumFunctionOnSet(f, AgendaTicks \ {t}) \in Nat BY <2>2, SumIsNatural
 <2> QED BY <1>2, <2>1, <2>3
<1> QED BY <1>2, <1>3, <1>4, <1>5

\* The queue of one tick changed.
LEMMA QueueChanges ==
  ASSUME NEW ag \in Agendas, NEW t \in AgendaTicks, NEW es \in Seq(BikeEvent)
  PROVE  /\ [ag EXCEPT ![t] = es] \in Agendas
         /\ OnTheWay([ag EXCEPT ![t] = es]) = OnTheWay(ag) - CarriedBy(ag[t]) + CarriedBy(es)
<1> DEFINE b == [ag EXCEPT ![t] = es]
           f == [u \in AgendaTicks |-> CarriedBy(ag[u])]
           g == [u \in AgendaTicks |-> CarriedBy(b[u])]
<1>1. b \in Agendas /\ b[t] = es /\ \A u \in AgendaTicks \ {t} : b[u] = ag[u] BY DEF Agendas
<1>2. \A u \in AgendaTicks : ag[u] \in Seq(BikeEvent) /\ b[u] \in Seq(BikeEvent)
  BY <1>1 DEF Agendas
<1>3. \A u \in AgendaTicks : CarriedBy(ag[u]) \in Nat /\ CarriedBy(b[u]) \in Nat
  BY <1>2, BikeLoads
<1>4. OnTheWay(ag) = SumFunctionOnSet(f, AgendaTicks) /\ OnTheWay(b) = SumFunctionOnSet(g, AgendaTicks)
      /\ IsFiniteSet(AgendaTicks)
  BY Clock DEF OnTheWay
<1> HIDE DEF b
<1>5. /\ \A u \in AgendaTicks : f[u] \in Int /\ g[u] \in Int
      /\ \A u \in AgendaTicks \ {t} : g[u] = f[u]
      /\ f[t] = CarriedBy(ag[t]) /\ g[t] = CarriedBy(es)
  BY <1>1, <1>3
<1> HIDE DEF f, g
<1>6. SumFunctionOnSet(g, AgendaTicks) = SumFunctionOnSet(f, AgendaTicks) - f[t] + g[t]
  BY <1>4, <1>5, SumChanges
<1>7. OnTheWay(b) = OnTheWay(ag) - CarriedBy(ag[t]) + CarriedBy(es) BY <1>4, <1>5, <1>6
<1> QED BY <1>1, <1>7 DEF b

-----------------------------------------------------------------------------
(* A full station sends the bikes it has no dock for to its neighbours.    *)

FreeDocks(b) == [x \in Stations |-> Capacity[x] - b[x]]

\* Where the other stations have docks enough, every bike finds one.
LEMMA AllMove ==
  ASSUME NEW b \in [Stations -> Nat], \A x \in Stations : b[x] <= Capacity[x],
         NEW s \in Stations, NEW n \in Nat, n <= SumFunctionOnSet(FreeDocks(b), Stations \ {s})
  PROVE  /\ MoveToNeighbor(b, s, n) \in [Stations -> Nat]
         /\ MoveToNeighbor(b, s, n)[s] = b[s]
         /\ \A x \in Stations : MoveToNeighbor(b, s, n)[x] <= Capacity[x]
         /\ SumFunctionOnSet(MoveToNeighbor(b, s, n), Stations) = SumFunctionOnSet(b, Stations) + n
<1> DEFINE near == Near[s]
           k == Len(near)
           free == [i \in DOMAIN near |-> Capacity[near[i]] - b[near[i]]]
           Left(i) == Max({n - SumFunctionOnSet(free, 1 .. i - 1), 0})
           take == [i \in DOMAIN near |-> Min({free[i], Left(i)})]
           Place(x) == CHOOSE j \in DOMAIN near : near[j] = x
           m == [x \in Stations |-> IF x = s THEN b[s] ELSE b[x] + take[Place(x)]]
           added == [x \in Stations |-> m[x] - b[x]]
<1>1. /\ near \in Seq(Stations) /\ IsInjective(near) /\ ToSet(near) = Stations \ {s}
      /\ IsFiniteSet(Stations) /\ \A x \in Stations : Capacity[x] \in Nat
  BY StationFacts
<1>2. DOMAIN near = 1 .. k /\ k \in Nat /\ \A i \in 1 .. k : near[i] \in Stations /\ near[i] # s
 <2>1. DOMAIN near = 1 .. k /\ k \in Nat BY <1>1
 <2>2. \A i \in 1 .. k : near[i] \in ToSet(near) BY <2>1 DEF ToSet
 <2> QED BY <1>1, <2>1, <2>2
<1>3. \A x \in Stations \ {s} : Place(x) \in 1 .. k /\ near[Place(x)] = x
 <2> SUFFICES ASSUME NEW x \in Stations \ {s} PROVE Place(x) \in 1 .. k /\ near[Place(x)] = x
   OBVIOUS
 <2>1. x \in ToSet(near) BY <1>1
 <2>2. \E j \in DOMAIN near : near[j] = x BY <2>1 DEF ToSet
 <2> QED BY <1>2, <2>2
<1>4. \A i \in 1 .. k : Place(near[i]) = i
 <2> SUFFICES ASSUME NEW i \in 1 .. k PROVE Place(near[i]) = i
   OBVIOUS
 <2>1. near[i] \in Stations \ {s} BY <1>2
 <2>2. Place(near[i]) \in 1 .. k /\ near[Place(near[i])] = near[i] BY <1>3, <2>1
 <2> HIDE DEF Place
 <2> QED BY <1>1, <1>2, <2>2 DEF IsInjective
<1>5. m = MoveToNeighbor(b, s, n)
 <2>1. \A x \in Stations \ {s} : take[Place(x)] = Min({free[Place(x)], Left(Place(x))})
   BY <1>2, <1>3
 <2> DEFINE m2 == [x \in Stations |-> IF x = s THEN b[s]
                                    ELSE b[x] + Min({free[Place(x)], Left(Place(x))})]
 <2>2. MoveToNeighbor(b, s, n) = m2 BY Zenon DEF MoveToNeighbor
 <2>3. \A x \in Stations : m[x] = m2[x]
  <3> HIDE DEF Place, take, Left, free
  <3> QED BY <2>1
 <2> HIDE DEF take, Place, Left, free
 <2> QED BY <2>2, <2>3
<1>6. \A i \in 1 .. k : free[i] \in Nat /\ free[i] = FreeDocks(b)[near[i]]
                        /\ near[i] \in Stations /\ free[i] = Capacity[near[i]] - b[near[i]]
 <2> SUFFICES ASSUME NEW i \in 1 .. k
              PROVE  free[i] \in Nat /\ free[i] = FreeDocks(b)[near[i]]
                       /\ near[i] \in Stations /\ free[i] = Capacity[near[i]] - b[near[i]]
   OBVIOUS
 <2> DEFINE x == near[i]
 <2>1. x \in Stations /\ i \in DOMAIN near BY <1>2
 <2>2. free[i] = Capacity[x] - b[x] /\ FreeDocks(b)[x] = Capacity[x] - b[x]
   BY <2>1 DEF FreeDocks
 <2>3. Capacity[x] \in Nat /\ b[x] \in Nat /\ b[x] <= Capacity[x] BY <1>1, <2>1
 <2> HIDE DEF x, free
 <2> QED BY <2>1, <2>2, <2>3 DEF x
<1>7. SumFunctionOnSet(FreeDocks(b), ToSet(near)) = SumFunctionOnSet(free, DOMAIN near)
 <2> HIDE DEF free, near
 <2>1. /\ \A i \in DOMAIN near : free[i] \in Int
       /\ \A i \in DOMAIN near : FreeDocks(b)[near[i]] = free[i]
   BY <1>2, <1>6
 <2> QED BY <1>1, <2>1, SumOfPlaces
<1>8. n <= SumFunctionOnSet(free, 1 .. k) BY <1>1, <1>2, <1>7
<1>9. \A i \in 1 .. k : take[i] = LET left == n - SumFunctionOnSet(free, 1 .. i - 1)
                                  IN  IF left <= 0 THEN 0 ELSE IF free[i] <= left THEN free[i] ELSE left
 <2> SUFFICES ASSUME NEW i \in 1 .. k
              PROVE  take[i] = LET left == n - SumFunctionOnSet(free, 1 .. i - 1)
                               IN  IF left <= 0 THEN 0 ELSE IF free[i] <= left THEN free[i] ELSE left
   OBVIOUS
 <2> DEFINE left == n - SumFunctionOnSet(free, 1 .. i - 1)
 <2>1. \A j \in 1 .. k : free[j] \in Int
  <3> HIDE DEF free
  <3> QED BY <1>6
 <2>2. SumFunctionOnSet(free, 1 .. i - 1) \in Int
  <3>1. i - 1 \in 0 .. k OBVIOUS
  <3> HIDE DEF free, k
  <3> QED BY <1>2, <2>1, <3>1, SumsGrow
 <2>3. left \in Int /\ free[i] \in Nat
  <3> HIDE DEF free
  <3> QED BY <1>6, <2>2
 <2>4. take[i] = Min({free[i], Max({left, 0})}) BY <1>2
 <2> HIDE DEF left, free
 <2>5. Max({left, 0}) = IF left >= 0 THEN left ELSE 0 BY <2>3, GreatestOfTwo
 <2> DEFINE a == Max({left, 0})
 <2>6. a \in Int /\ a = IF left >= 0 THEN left ELSE 0 BY <2>3, <2>5
 <2> HIDE DEF a
 <2>7. Min({free[i], a}) = IF free[i] <= a THEN free[i] ELSE a BY <2>3, <2>6, LeastOfTwo
 <2>8. take[i] = IF free[i] <= a THEN free[i] ELSE a BY <2>4, <2>7 DEF a
 <2>9. take[i] = IF left <= 0 THEN 0 ELSE IF free[i] <= left THEN free[i] ELSE left
  <3> HIDE DEF take
  <3> QED BY <2>3, <2>6, <2>8
 <2> QED BY <2>9 DEF left
<1> HIDE DEF free, take
<1>10. /\ \A i \in 1 .. k : take[i] \in Nat /\ take[i] <= free[i]
       /\ SumFunctionOnSet(take, 1 .. k) = n
 <2>1. \A i \in 1 .. k : free[i] \in Nat BY <1>6
 <2>2. k \in Nat BY <1>2
 <2> HIDE DEF k
 <2> QED BY <1>8, <1>9, <2>1, <2>2, AllHandedOut
<1>11. ASSUME NEW x \in Stations
       PROVE  m[x] \in Nat /\ m[x] <= Capacity[x]
 <2>1. b[x] \in Nat /\ b[x] <= Capacity[x] /\ Capacity[x] \in Nat BY <1>1
 <2>2. CASE x = s BY <2>1, <2>2
 <2>3. CASE x # s
  <3> DEFINE i == Place(x)
  <3>1. i \in 1 .. k /\ near[i] = x BY <1>3, <2>3
  <3>2. m[x] = b[x] + take[i] BY <2>3
  <3> HIDE DEF i, m
  <3>3. take[i] \in Nat /\ take[i] <= free[i] /\ free[i] = Capacity[x] - b[x]
    BY <1>6, <1>10, <3>1
  <3> QED BY <2>1, <3>2, <3>3
 <2> QED BY <2>2, <2>3
<1>12. m \in [Stations -> Nat] /\ m[s] = b[s] BY <1>11
<1>13. \A i \in DOMAIN near : take[i] \in Int /\ added[near[i]] = take[i]
 <2> SUFFICES ASSUME NEW i \in 1 .. k PROVE take[i] \in Int /\ added[near[i]] = take[i]
   BY <1>2
 <2> DEFINE x == near[i]
 <2>1. x \in Stations /\ x # s BY <1>2
 <2>2. Place(x) = i BY <1>4
 <2>3. m[x] = b[x] + take[i] /\ added[x] = m[x] - b[x] BY <2>1, <2>2
 <2>4. b[x] \in Nat /\ take[i] \in Nat BY <1>10, <2>1
 <2>5. added[x] = take[i]
  <3> HIDE DEF x, m, added
  <3> QED BY <2>3, <2>4
 <2> QED BY <2>4, <2>5
<1>14. SumFunctionOnSet(added, ToSet(near)) = SumFunctionOnSet(take, DOMAIN near)
 <2> HIDE DEF near, added
 <2> QED BY <1>1, <1>13, SumOfPlaces
<1>15. \A x \in Stations : added[x] \in Int /\ b[x] \in Int /\ m[x] \in Int /\ m[x] = b[x] + added[x]
 <2> SUFFICES ASSUME NEW x \in Stations
              PROVE added[x] \in Int /\ b[x] \in Int /\ m[x] \in Int /\ m[x] = b[x] + added[x]
   OBVIOUS
 <2>1. added[x] = m[x] - b[x] /\ m[x] \in Nat /\ b[x] \in Nat BY <1>11
 <2> HIDE DEF added, m
 <2> QED BY <2>1
<1>16. added[s] = 0
 <2>1. added[s] = m[s] - b[s] /\ b[s] \in Nat OBVIOUS
 <2> HIDE DEF added, m
 <2> QED BY <1>12, <2>1
<1>17. SumFunctionOnSet(added, Stations) = n
 <2>1. \A x \in Stations : added[x] \in Int BY <1>15
 <2>2. SumFunctionOnSet(added, Stations \ {s}) = n
  <3> HIDE DEF added, near
  <3> QED BY <1>1, <1>2, <1>10, <1>14
 <2> HIDE DEF added, m, k, near, Left, Place
 <2>3. SumFunctionOnSet(added, Stations) = added[s] + SumFunctionOnSet(added, Stations \ {s})
  <3>1. IsFiniteSet(Stations) BY <1>1
  <3>2. ASSUME NEW f, \A x \in Stations : f[x] \in Int
        PROVE  SumFunctionOnSet(f, Stations) = f[s] + SumFunctionOnSet(f, Stations \ {s})
    BY <3>1, <3>2, SumRemoves
  <3> QED BY <2>1, <3>2
 <2> QED BY <1>16, <2>2, <2>3
<1>18. SumFunctionOnSet(m, Stations) = SumFunctionOnSet(b, Stations) + SumFunctionOnSet(added, Stations)
 <2> HIDE DEF m, added
 <2> QED BY <1>1, <1>15, SumOfSums
<1> HIDE DEF m, added
<1>19. SumFunctionOnSet(m, Stations) = SumFunctionOnSet(b, Stations) + n BY <1>17, <1>18
<1> QED BY <1>5, <1>11, <1>12, <1>19

\* The docks of all stations are those with a bike and the free ones.
LEMMA AllDocks ==
  ASSUME NEW b \in [Stations -> Nat], \A x \in Stations : b[x] <= Capacity[x]
  PROVE  /\ SumFunctionOnSet(b, Stations) \in Nat /\ SumFunctionOnSet(FreeDocks(b), Stations) \in Nat
         /\ SumFunctionOnSet(Capacity, Stations)
              = SumFunctionOnSet(b, Stations) + SumFunctionOnSet(FreeDocks(b), Stations)
         /\ \A s \in Stations : /\ SumFunctionOnSet(FreeDocks(b), Stations \ {s}) \in Nat
                                /\ SumFunctionOnSet(FreeDocks(b), Stations)
                                     = (Capacity[s] - b[s]) + SumFunctionOnSet(FreeDocks(b), Stations \ {s})
<1> DEFINE d == FreeDocks(b)
<1>1. IsFiniteSet(Stations) BY StationFacts
<1>2. ASSUME NEW x \in Stations
      PROVE  /\ b[x] \in Nat /\ d[x] \in Nat /\ Capacity[x] \in Nat
             /\ Capacity[x] = b[x] + d[x] /\ d[x] = Capacity[x] - b[x]
 <2>1. b[x] \in Nat /\ Capacity[x] \in Nat /\ b[x] <= Capacity[x] BY StationFacts
 <2>2. d[x] = Capacity[x] - b[x] BY DEF FreeDocks
 <2> HIDE DEF d
 <2> QED BY <2>1, <2>2
<1> HIDE DEF d
<1>3. /\ \A x \in Stations : b[x] \in Nat /\ d[x] \in Nat
      /\ \A x \in Stations : b[x] \in Int /\ d[x] \in Int /\ Capacity[x] \in Int /\ Capacity[x] = b[x] + d[x]
  BY <1>2
<1>4. SumFunctionOnSet(b, Stations) \in Nat BY <1>1, <1>3, SumIsNatural
<1>5. SumFunctionOnSet(d, Stations) \in Nat BY <1>1, <1>3, SumIsNatural
<1>6. SumFunctionOnSet(Capacity, Stations) = SumFunctionOnSet(b, Stations) + SumFunctionOnSet(d, Stations)
  BY <1>1, <1>3, SumOfSums
<1>7. ASSUME NEW s \in Stations
      PROVE  /\ SumFunctionOnSet(d, Stations \ {s}) \in Nat
             /\ SumFunctionOnSet(d, Stations) = (Capacity[s] - b[s]) + SumFunctionOnSet(d, Stations \ {s})
 <2>1. SumFunctionOnSet(d, Stations) = d[s] + SumFunctionOnSet(d, Stations \ {s})
   BY <1>1, <1>3, SumRemoves
 <2>2. IsFiniteSet(Stations \ {s}) BY <1>1, FS_RemoveElement
 <2>3. \A x \in Stations \ {s} : d[x] \in Nat BY <1>3
 <2>4. SumFunctionOnSet(d, Stations \ {s}) \in Nat BY <2>2, <2>3, SumIsNatural
 <2> QED BY <1>2, <2>1, <2>4
<1> QED BY <1>4, <1>5, <1>6, <1>7 DEF d

\* Bikes that arrive at a station find docks, there or nearby, where all stations
\* together have enough of them.
LEMMA AllArrive ==
  ASSUME bikes \in [Stations -> Nat], \A x \in Stations : bikes[x] <= Capacity[x],
         NEW s \in Stations, NEW n \in Nat,
         SumFunctionOnSet(bikes, Stations) + n <= SumFunctionOnSet(Capacity, Stations)
  PROVE  /\ Arrived(s, n) \in [Stations -> Nat]
         /\ \A x \in Stations : Arrived(s, n)[x] <= Capacity[x]
         /\ SumFunctionOnSet(Arrived(s, n), Stations) = SumFunctionOnSet(bikes, Stations) + n
<1> DEFINE k == Accepted(s, n)
           b == IF k < n THEN MoveToNeighbor(bikes, s, n - k) ELSE bikes
           a == [b EXCEPT ![s] = bikes[s] + k]
           others == SumFunctionOnSet(FreeDocks(bikes), Stations \ {s})
           held == SumFunctionOnSet(bikes, Stations)
<1>1. /\ held \in Nat /\ others \in Nat
      /\ held + n <= held + ((Capacity[s] - bikes[s]) + others)
  BY AllDocks
<1>2. bikes[s] \in Nat /\ Capacity[s] \in Nat /\ bikes[s] <= Capacity[s] /\ IsFiniteSet(Stations)
      /\ \A x \in Stations : Capacity[x] \in Nat
  BY StationFacts
<1>3. k = IF Capacity[s] - bikes[s] <= n THEN Capacity[s] - bikes[s] ELSE n
  BY <1>2, LeastOfTwo DEF Accepted
<1>4. a = Arrived(s, n) BY Zenon DEF Arrived
<1> HIDE DEF others, held, k
<1>5. /\ k \in Nat /\ k <= n /\ bikes[s] + k <= Capacity[s] /\ n - k \in Nat
      /\ n - k <= others
  BY <1>1, <1>2, <1>3
<1>6. /\ b \in [Stations -> Nat] /\ b[s] = bikes[s] /\ \A x \in Stations : b[x] <= Capacity[x]
      /\ SumFunctionOnSet(b, Stations) = held + (n - k)
 <2>1. CASE k < n
  <3> DEFINE j == n - k
  <3>1. j \in Nat /\ j <= SumFunctionOnSet(FreeDocks(bikes), Stations \ {s}) /\ b = MoveToNeighbor(bikes, s, j)
    BY <1>5, <2>1 DEF others
  <3> HIDE DEF j
  <3>2. /\ MoveToNeighbor(bikes, s, j) \in [Stations -> Nat]
        /\ MoveToNeighbor(bikes, s, j)[s] = bikes[s]
        /\ \A x \in Stations : MoveToNeighbor(bikes, s, j)[x] <= Capacity[x]
        /\ SumFunctionOnSet(MoveToNeighbor(bikes, s, j), Stations) = SumFunctionOnSet(bikes, Stations) + j
    BY <3>1, AllMove
  <3> HIDE DEF b
  <3> QED BY <3>1, <3>2 DEF j, held
 <2>2. CASE ~(k < n)
  <3>1. n - k = 0 /\ b = bikes BY <1>5, <2>2
  <3> QED BY <1>1, <3>1 DEF held
 <2> QED BY <2>1, <2>2
<1> HIDE DEF b
<1>7. a \in [Stations -> Nat] /\ a[s] = bikes[s] + k /\ \A x \in Stations \ {s} : a[x] = b[x]
  BY <1>2, <1>5, <1>6
<1>8. \A x \in Stations : a[x] <= Capacity[x] BY <1>5, <1>6, <1>7
<1>9. SumFunctionOnSet(a, Stations) = SumFunctionOnSet(b, Stations) - b[s] + a[s]
 <2>1. \A x \in Stations : b[x] \in Int /\ a[x] \in Int BY <1>6, <1>7
 <2> HIDE DEF a
 <2> QED BY <1>2, <1>7, <2>1, SumChanges
<1> HIDE DEF a
<1>10. SumFunctionOnSet(a, Stations) = held + n BY <1>1, <1>2, <1>5, <1>6, <1>7, <1>9
<1> QED BY <1>4, <1>7, <1>8, <1>10 DEF held

-----------------------------------------------------------------------------
(* The queues of a tick.                                                   *)

LEMMA QueueGrows ==
  ASSUME NEW es \in Seq(BikeEvent), NEW fs \in Seq(BikeEvent), NEW d \in BOOLEAN
  PROVE  /\ es \o fs \in Seq(BikeEvent)
         /\ Waits(es) /\ Waits(fs) => Waits(es \o fs)
         /\ NoTrip(es) /\ NoTrip(fs) => NoTrip(es \o fs)
         /\ Settles(es, d) /\ Waits(fs) => Settles(es \o fs, d)
         /\ Waits(es) /\ Settles(fs, d) => Settles(es \o fs, d)
<1>1. /\ es \o fs \in Seq(BikeEvent) /\ Len(es) \in Nat /\ Len(fs) \in Nat
      /\ DOMAIN es = 1 .. Len(es) /\ DOMAIN fs = 1 .. Len(fs)
      /\ DOMAIN (es \o fs) = 1 .. Len(es) + Len(fs)
  OBVIOUS
<1>2. \A i \in DOMAIN (es \o fs) : \/ i \in DOMAIN es /\ (es \o fs)[i] = es[i]
                                   \/ /\ i - Len(es) \in DOMAIN fs /\ i > Len(es)
                                      /\ (es \o fs)[i] = fs[i - Len(es)]
  OBVIOUS
<1> DEFINE hs == es \o fs
           n == Len(es)
<1> HIDE DEF hs, n
<1>3. /\ n \in Nat /\ DOMAIN es = 1 .. n /\ DOMAIN hs \subseteq Nat
      /\ \A i \in DOMAIN hs : \/ i \in DOMAIN es /\ hs[i] = es[i]
                              \/ i - n \in DOMAIN fs /\ i > n /\ hs[i] = fs[i - n]
  BY <1>1, <1>2 DEF hs, n
<1>4. Waits(es) /\ Waits(fs) => Waits(hs) BY <1>3 DEF Waits
<1>5. NoTrip(es) /\ NoTrip(fs) => NoTrip(hs) BY <1>3 DEF NoTrip
<1>6. ASSUME Settles(es, d), Waits(fs) PROVE Settles(hs, d)
 <2> SUFFICES ASSUME NEW i \in DOMAIN hs, hs[i].type \in Immediate \ {"RequireBike"}
              PROVE  d /\ \A j \in DOMAIN hs : j > i => hs[j].type # "RequireBike"
   BY DEF Settles
 <2>1. i \in DOMAIN es /\ hs[i] = es[i] BY <1>3, <1>6 DEF Waits
 <2>2. d /\ \A j \in DOMAIN es : j > i => es[j].type # "RequireBike"
   BY <1>6, <2>1 DEF Settles
 <2>3. \A j \in DOMAIN fs : fs[j].type # "RequireBike" BY <1>6 DEF Waits, Immediate
 <2> QED BY <1>3, <2>2, <2>3
<1>7. ASSUME Waits(es), Settles(fs, d) PROVE Settles(hs, d)
 <2> SUFFICES ASSUME NEW i \in DOMAIN hs, hs[i].type \in Immediate \ {"RequireBike"}
              PROVE  d /\ \A j \in DOMAIN hs : j > i => hs[j].type # "RequireBike"
   BY DEF Settles
 <2>1. i - n \in DOMAIN fs /\ i > n /\ hs[i] = fs[i - n] BY <1>3, <1>7 DEF Waits
 <2>2. d /\ \A j \in DOMAIN fs : j > i - n => fs[j].type # "RequireBike"
   BY <1>7, <2>1 DEF Settles
 <2>3. ASSUME NEW j \in DOMAIN hs, j > i PROVE hs[j].type # "RequireBike"
  <3>1. i \in Nat /\ j \in Nat /\ j \notin DOMAIN es BY <1>3, <2>1, <2>3
  <3>2. j - n \in DOMAIN fs /\ hs[j] = fs[j - n] /\ j - n > i - n BY <1>3, <2>3, <3>1
  <3> QED BY <2>2, <3>2
 <2> QED BY <2>2, <2>3
<1> QED BY <1>1, <1>4, <1>5, <1>6, <1>7 DEF hs

LEMMA QueueShrinks ==
  ASSUME NEW es \in Seq(BikeEvent), es # <<>>, NEW d \in BOOLEAN
  PROVE  /\ Waits(es) => Waits(Tail(es))
         /\ NoTrip(es) => NoTrip(Tail(es))
         /\ Settles(es, d) => Settles(Tail(es), d)
         /\ Settles(es, d) /\ Head(es).type \in Immediate \ {"RequireBike"} => d /\ NoTrip(Tail(es))
<1> DEFINE ts == Tail(es)
<1>1. /\ DOMAIN es \subseteq Nat /\ 1 \in DOMAIN es /\ es[1] = Head(es)
      /\ \A i \in DOMAIN ts : i \in Nat \ {0} /\ i + 1 \in DOMAIN es /\ ts[i] = es[i + 1]
  OBVIOUS
<1> HIDE DEF ts
<1>2. Waits(es) => Waits(ts) BY <1>1 DEF Waits
<1>3. NoTrip(es) => NoTrip(ts) BY <1>1 DEF NoTrip
<1>4. Settles(es, d) => Settles(ts, d)
 <2> SUFFICES ASSUME Settles(es, d), NEW i \in DOMAIN ts, ts[i].type \in Immediate \ {"RequireBike"}
              PROVE  d /\ \A j \in DOMAIN ts : j > i => ts[j].type # "RequireBike"
   BY DEF Settles
 <2>1. i + 1 \in DOMAIN es /\ ts[i] = es[i + 1] BY <1>1
 <2>2. d /\ \A j \in DOMAIN es : j > i + 1 => es[j].type # "RequireBike" BY <2>1 DEF Settles
 <2>3. ASSUME NEW j \in DOMAIN ts, j > i PROVE ts[j].type # "RequireBike"
  <3>1. i \in Nat /\ j \in Nat /\ j + 1 \in DOMAIN es /\ ts[j] = es[j + 1] BY <1>1
  <3>2. j + 1 > i + 1 BY <2>3, <3>1
  <3> QED BY <2>2, <3>1, <3>2
 <2> QED BY <2>2, <2>3
<1>5. Settles(es, d) /\ Head(es).type \in Immediate \ {"RequireBike"} => d /\ NoTrip(ts)
 <2> SUFFICES ASSUME Settles(es, d), Head(es).type \in Immediate \ {"RequireBike"}
              PROVE  d /\ NoTrip(ts)
   OBVIOUS
 <2>1. d /\ \A j \in DOMAIN es : j > 1 => es[j].type # "RequireBike" BY <1>1 DEF Settles
 <2>2. ASSUME NEW i \in DOMAIN ts PROVE ts[i].type # "RequireBike"
  <3>1. i \in Nat \ {0} /\ i + 1 \in DOMAIN es /\ ts[i] = es[i + 1] BY <1>1
  <3>2. i + 1 > 1 BY <3>1
  <3> QED BY <2>1, <3>1, <3>2
 <2> QED BY <2>1, <2>2 DEF NoTrip
<1> QED BY <1>2, <1>3, <1>4, <1>5 DEF ts

LEMMA QueueTypes ==
  ASSUME NEW es \in Seq(BikeEvent), NEW d \in BOOLEAN
  PROVE  /\ Waits(es) => NoTrip(es) /\ Settles(es, d)
         /\ NoTrip(es) /\ d => Settles(es, d)
         /\ Waits(<<>>)
         /\ \A e \in BikeEvent : /\ <<e>> \in Seq(BikeEvent)
                                 /\ e.type \notin Immediate => Waits(<<e>>)
                                 /\ e.type # "RequireBike" => NoTrip(<<e>>)
                                 /\ Settles(<<e>>, TRUE)
                                 /\ e.type = "RequireBike" => Settles(<<e>>, d)
<1>1. Waits(es) => NoTrip(es) /\ Settles(es, d) BY DEF Waits, NoTrip, Settles, Immediate
<1>2. NoTrip(es) /\ d => Settles(es, d) BY DEF NoTrip, Settles
<1>3. Waits(<<>>) BY DEF Waits
<1>4. ASSUME NEW e \in BikeEvent
      PROVE  /\ <<e>> \in Seq(BikeEvent)
             /\ e.type \notin Immediate => Waits(<<e>>)
             /\ e.type # "RequireBike" => NoTrip(<<e>>)
             /\ Settles(<<e>>, TRUE)
             /\ e.type = "RequireBike" => Settles(<<e>>, d)
 <2> DEFINE fs == <<e>>
 <2>1. fs \in Seq(BikeEvent) /\ DOMAIN fs = {1} /\ fs[1] = e OBVIOUS
 <2> HIDE DEF fs
 <2>2. e.type \notin Immediate => Waits(fs) BY <2>1 DEF Waits
 <2>3. e.type # "RequireBike" => NoTrip(fs) BY <2>1 DEF NoTrip
 <2>4. Settles(fs, TRUE) BY <2>1 DEF Settles
 <2>5. e.type = "RequireBike" => Settles(fs, d) BY <2>1 DEF Settles
 <2> QED BY <2>1, <2>2, <2>3, <2>4, <2>5 DEF fs
<1> QED BY <1>1, <1>2, <1>3, <1>4

-----------------------------------------------------------------------------
(* The handlers.                                                           *)

\* What the queues of a tick that runs are like.
Running(ag) ==
  /\ ag \in Agendas
  /\ \A t \in AgendaTicks : t # now => Waits(ag[t])
  /\ Settles(ag[now], IsDecisionTick)

LEMMA AtNow ==
  ASSUME BikesInv
  PROVE  /\ now \in AgendaTicks /\ now \in 0 .. MaxTick /\ agenda \in Agendas /\ agenda[now] \in Seq(BikeEvent)
         /\ IsDecisionTick \in BOOLEAN /\ Running(agenda)
<1>1. BikeTypeOK /\ BikeQueues BY DEF BikesInv
<1>2. now \in 0 .. MaxTick /\ agenda \in Agendas BY <1>1 DEF BikeTypeOK, Agendas
<1>3. now \in AgendaTicks BY <1>2, Clock
<1>4. agenda[now] \in Seq(BikeEvent) BY <1>2, <1>3 DEF Agendas
<1>5. IsDecisionTick \in BOOLEAN BY DEF IsDecisionTick
<1>6. Running(agenda) BY <1>1, <1>2 DEF Running, BikeQueues
<1> QED BY <1>2, <1>3, <1>4, <1>5, <1>6

\* A queue that changes at its own tick.
LEMMA QueueReplaced ==
  ASSUME BikesInv, NEW ag, Running(ag), NEW es \in Seq(BikeEvent), Settles(es, IsDecisionTick)
  PROVE  /\ Running([ag EXCEPT ![now] = es])
         /\ [ag EXCEPT ![now] = es][now] = es
         /\ OnTheWay([ag EXCEPT ![now] = es]) = OnTheWay(ag) - CarriedBy(ag[now]) + CarriedBy(es)
<1> DEFINE b == [ag EXCEPT ![now] = es]
<1>1. now \in AgendaTicks /\ ag \in Agendas BY AtNow DEF Running
<1>2. b \in Agendas /\ OnTheWay(b) = OnTheWay(ag) - CarriedBy(ag[now]) + CarriedBy(es)
  BY <1>1, QueueChanges
<1>3. b[now] = es /\ \A t \in AgendaTicks : t # now => b[t] = ag[t] BY <1>1 DEF Agendas
<1> HIDE DEF b
<1>4. Running(b) BY <1>2, <1>3 DEF Running
<1> QED BY <1>2, <1>3, <1>4 DEF b

\* The first event of the tick is handled.
LEMMA FirstHandled ==
  ASSUME BikesInv, agenda[now] # <<>>
  PROVE  /\ Head(agenda[now]) \in BikeEvent /\ Carried(Head(agenda[now])) \in Nat
         /\ Running(Handled) /\ Handled[now] = Tail(agenda[now])
         /\ Tail(agenda[now]) \in Seq(BikeEvent) /\ Settles(Tail(agenda[now]), IsDecisionTick)
         /\ OnTheWay(Handled) = OnTheWay(agenda) - Carried(Head(agenda[now]))
         /\ Carried(Head(agenda[now])) <= OnTheWay(agenda) /\ OnTheWay(agenda) \in Nat
         /\ CarriedBy(Tail(agenda[now])) = CarriedBy(agenda[now]) - Carried(Head(agenda[now]))
         /\ CarriedBy(Tail(agenda[now])) \in Nat /\ CarriedBy(agenda[now]) \in Nat
<1> DEFINE es == agenda[now]
           ts == Tail(agenda[now])
<1>1. now \in AgendaTicks /\ agenda \in Agendas /\ es \in Seq(BikeEvent) /\ IsDecisionTick \in BOOLEAN
      /\ Running(agenda) /\ Settles(es, IsDecisionTick)
  BY AtNow DEF Running
<1>2. /\ Head(es) \in BikeEvent /\ ts \in Seq(BikeEvent)
      /\ CarriedBy(ts) = CarriedBy(es) - Carried(Head(es))
  BY <1>1, QueueLoads
<1>3. Settles(ts, IsDecisionTick) BY <1>1, QueueShrinks
<1>4. Handled = [agenda EXCEPT ![now] = ts] BY DEF Handled
<1>5. Running(Handled) /\ Handled[now] = ts
      /\ OnTheWay(Handled) = OnTheWay(agenda) - CarriedBy(es) + CarriedBy(ts)
 <2> HIDE DEF ts
 <2> QED BY <1>1, <1>2, <1>3, <1>4, QueueReplaced
<1>6. OnTheWay(agenda) \in Nat /\ CarriedBy(es) \in Nat /\ CarriedBy(es) <= OnTheWay(agenda)
  BY <1>1, WaitingBikes
<1>7. CarriedBy(ts) \in Nat BY <1>2, BikeLoads
<1>8. Carried(Head(es)) \in Nat
 <2>1. BikeLoad[Head(es)] = Carried(Head(es)) BY <1>2 DEF BikeLoad
 <2> QED BY <1>2, <2>1, BikeLoads
<1> DEFINE a == CarriedBy(es)
           b == CarriedBy(ts)
           c == Carried(Head(es))
           w == OnTheWay(agenda)
           v == OnTheWay(Handled)
<1>9. a \in Nat /\ b \in Nat /\ c \in Nat /\ w \in Nat /\ a <= w /\ b = a - c /\ v = w - a + b
  BY <1>2, <1>5, <1>6, <1>7, <1>8
<1> HIDE DEF a, b, c, w, v
<1>10. v = w - c /\ c <= w BY <1>9
<1> QED BY <1>2, <1>3, <1>5, <1>6, <1>7, <1>8, <1>10 DEF a, b, c, w, v

\* Its arrival is planned.
LEMMA ArrivalPlanned ==
  ASSUME BikesInv, agenda[now] # <<>>, NEW t \in AgendaTicks, NEW e \in Arrivals
  PROVE  /\ Running(Plan(t, e)) /\ Carried(e) = e.n /\ e \in BikeEvent
         /\ OnTheWay(Plan(t, e)) = OnTheWay(agenda) - Carried(Head(agenda[now])) + e.n
         /\ NoTrip(agenda[now]) => NoTrip(Plan(t, e)[now])
<1> DEFINE h == Handled
           fs == Append(h[t], e)
           p == [h EXCEPT ![t] = fs]
<1>1. /\ Running(h) /\ OnTheWay(h) = OnTheWay(agenda) - Carried(Head(agenda[now]))
      /\ h[now] = Tail(agenda[now])
      /\ OnTheWay(agenda) \in Nat /\ Carried(Head(agenda[now])) \in Nat
  BY FirstHandled
<1> HIDE DEF h
<1>2. e \in BikeEvent /\ Carried(e) = e.n /\ e.type \notin Immediate /\ e.n \in Nat
  BY DEF BikeEvent, Arrivals, Carried, Immediate
<1>3. h \in Agendas /\ h[t] \in Seq(BikeEvent) /\ now \in AgendaTicks /\ IsDecisionTick \in BOOLEAN
      /\ agenda[now] \in Seq(BikeEvent)
  BY <1>1, AtNow DEF Running, Agendas
<1>4. fs \in Seq(BikeEvent) /\ CarriedBy(fs) = CarriedBy(h[t]) + e.n
  BY <1>2, <1>3, QueueLoads
<1>5. fs = h[t] \o <<e>> /\ <<e>> \in Seq(BikeEvent) BY <1>2, <1>3, AppendIsConcat
<1>6. Waits(<<e>>) BY <1>2, <1>3, QueueTypes
<1>7. /\ Waits(h[t]) => Waits(fs)
      /\ Settles(h[t], IsDecisionTick) => Settles(fs, IsDecisionTick)
      /\ NoTrip(h[t]) => NoTrip(fs)
 <2>1. NoTrip(<<e>>) BY <1>3, <1>5, <1>6, QueueTypes
 <2> QED BY <1>3, <1>5, <1>6, <2>1, QueueGrows
<1> HIDE DEF fs
<1>8. p \in Agendas /\ OnTheWay(p) = OnTheWay(h) - CarriedBy(h[t]) + CarriedBy(fs)
  BY <1>3, <1>4, QueueChanges
<1>9. p[t] = fs /\ \A u \in AgendaTicks : u # t => p[u] = h[u] BY <1>3 DEF Agendas
<1>10. Plan(t, e) = p BY DEF Plan, fs, h
<1> HIDE DEF p
<1>11. Running(p) BY <1>1, <1>3, <1>7, <1>8, <1>9 DEF Running
<1>12. NoTrip(agenda[now]) => NoTrip(p[now])
 <2>1. NoTrip(agenda[now]) => NoTrip(h[now]) BY <1>1, <1>3, QueueShrinks
 <2> QED BY <1>3, <1>7, <1>9, <2>1
<1>13. CarriedBy(h[t]) \in Nat BY <1>3, BikeLoads
<1>14. OnTheWay(p) = OnTheWay(agenda) - Carried(Head(agenda[now])) + e.n
  BY <1>1, <1>2, <1>4, <1>8, <1>13
<1> QED BY <1>2, <1>10, <1>11, <1>12, <1>14

\* The queues after a step within a tick.
LEMMA StillRunning ==
  ASSUME BikesInv, UNCHANGED <<now, pc>>, pc = "execute", Running(agenda')
  PROVE  BikeQueues'
<1>1. \A t \in AgendaTicks : t # now => Waits(agenda'[t]) BY DEF Running
<1>2. Settles(agenda'[now], IsDecisionTick) BY DEF Running
<1>3. Settles(agenda'[now'], IsDecisionTick') BY <1>2 DEF IsDecisionTick
<1> QED BY <1>1, <1>3 DEF BikeQueues

\* A new episode.
Fresh ==
  /\ now = 0 /\ pc = "step" /\ requested = 0 /\ resets \in Nat
  /\ agenda = [t \in AgendaTicks |-> <<>>] /\ unlinked = <<>> /\ bikes = InitBikes
  /\ trips = NoTrips /\ snapshots = Empty /\ cache = Empty

LEMMA InitialBikes == Fresh => BikesInv
<1> SUFFICES ASSUME Fresh PROVE BikesInv
  OBVIOUS
<1> USE DEF Fresh
<1>1. agenda \in [AgendaTicks -> Seq(BikeEvent)] /\ unlinked \in Seq(BikeEvent) /\ MaxTick \in Nat
      /\ now \in AgendaTicks /\ IsFiniteSet(AgendaTicks)
  BY Clock, CitiBikeAssumption
<1>2. CarriedBy(<<>>) = 0
 <2>1. Sum(BikeLoad, <<>>) = 0 /\ <<>> \in Seq(BikeEvent) BY BikeLoads, SumOfEvents
 <2> QED BY <2>1, BikeLoads
<1>3. BikeTypeOK
 <2>1. Empty \in [DOMAIN Empty -> Demands] /\ DOMAIN Empty = {} BY DEF Empty
 <2>2. NoTrips \in Demands BY DEF NoTrips, Demands
 <2> QED BY <1>1, <2>1, <2>2, StationFacts DEF BikeTypeOK
<1>4. OnTheWay(agenda) = 0
 <2> DEFINE f == [t \in AgendaTicks |-> CarriedBy(agenda[t])]
 <2>1. \A t \in AgendaTicks : f[t] = 0 BY <1>2
 <2>2. OnTheWay(agenda) = SumFunctionOnSet(f, AgendaTicks) BY DEF OnTheWay
 <2> HIDE DEF f
 <2> QED BY <1>1, <2>1, <2>2, SumOfZeros
<1>5. BikeBook
 <2>1. SumFunctionOnSet(InitBikes, Stations) \in Nat
  <3>1. \A x \in Stations : InitBikes[x] \in Nat BY StationFacts
  <3> QED BY <3>1, StationFacts, SumIsNatural
 <2> QED BY <1>2, <1>4, <2>1 DEF BikeBook
<1>6. WithinCapacity BY StationFacts DEF WithinCapacity
<1>7. BikeQueues
 <2>1. \A t \in AgendaTicks : Waits(agenda[t]) BY DEF Waits
 <2>2. Settles(agenda[now], IsDecisionTick) BY <1>1 DEF Settles
 <2> QED BY <2>1, <2>2 DEF BikeQueues
<1> QED BY <1>3, <1>5, <1>6, <1>7 DEF BikesInv

LEMMA InitBikesInv == Init => BikesInv
BY InitialBikes DEF Init, Fresh

\* Trips and the question to the stations are put at the end of the tick.
LEMMA StepKeepsBikes ==
  ASSUME BikesInv, NEW ts \in {<<>>} \cup {<<t>> : t \in Trips}, Step(ts)
  PROVE  BikesInv'
<1> DEFINE q == IF IsDecisionTick THEN <<[type |-> "RebalanceBike"]>> ELSE <<>>
           es == (agenda[now] \o ts) \o q
<1>1. /\ now \in AgendaTicks /\ agenda \in Agendas /\ agenda[now] \in Seq(BikeEvent)
      /\ IsDecisionTick \in BOOLEAN /\ Running(agenda)
  BY AtNow
<1>2. /\ BikeTypeOK /\ BikeBook /\ WithinCapacity /\ BikeQueues /\ pc = "step" /\ pc' = "execute"
      /\ now' = now /\ unlinked' = unlinked /\ bikes' = bikes /\ trips' = trips
      /\ snapshots' = snapshots /\ cache' = cache /\ resets' = resets
      /\ requested' = requested + Len(ts) /\ agenda' = [agenda EXCEPT ![now] = es]
  BY DEF BikesInv, Step
<1>3. /\ ts \in Seq(BikeEvent) /\ Settles(ts, IsDecisionTick) /\ CarriedBy(ts) = 0 /\ Len(ts) \in Nat
 <2>1. CASE ts = <<>>
  <3>1. Waits(ts) /\ ts \in Seq(BikeEvent) BY <2>1 DEF Waits
  <3>2. Settles(ts, IsDecisionTick) BY <1>1, <3>1, QueueTypes
  <3>3. CarriedBy(ts) = 0
   <4>1. Sum(BikeLoad, <<>>) = 0 BY BikeLoads, SumOfEvents
   <4> QED BY <2>1, <3>1, <4>1, BikeLoads
  <3> QED BY <3>1, <3>2, <3>3
 <2>2. CASE ts # <<>>
  <3>1. PICK t \in Trips : ts = <<t>> BY <2>2
  <3>2. t \in BikeEvent /\ t.type = "RequireBike" /\ Carried(t) = 0
    BY DEF BikeEvent, Trips, Carried
  <3>3. ts \in Seq(BikeEvent) /\ Settles(ts, IsDecisionTick) BY <1>1, <3>1, <3>2, QueueTypes
  <3>4. CarriedBy(ts) = 0
   <4>1. Sum(BikeLoad, <<t>>) = BikeLoad[t] /\ BikeLoad[t] = 0
     BY <3>2, BikeLoads, SumOfEvents DEF BikeLoad
   <4> QED BY <3>1, <3>3, <4>1, BikeLoads
  <3> QED BY <3>3, <3>4
 <2> QED BY <2>1, <2>2
<1>4. q \in Seq(BikeEvent) /\ Settles(q, IsDecisionTick) /\ CarriedBy(q) = 0
      /\ (IsDecisionTick \/ q = <<>>) /\ NoTrip(q)
 <2>1. CASE IsDecisionTick
  <3> DEFINE r == [type |-> "RebalanceBike"]
  <3>1. r \in BikeEvent /\ Carried(r) = 0 /\ r.type = "RebalanceBike" /\ q = <<r>>
    BY <2>1 DEF BikeEvent, Carried
  <3> HIDE DEF r, q
  <3>2. q \in Seq(BikeEvent) /\ NoTrip(q) BY <1>1, <3>1, QueueTypes
  <3>3. CarriedBy(q) = 0
   <4>1. Sum(BikeLoad, <<r>>) = BikeLoad[r] /\ BikeLoad[r] = 0
     BY <3>1, BikeLoads, SumOfEvents DEF BikeLoad
   <4> QED BY <3>1, <3>2, <4>1, BikeLoads
  <3>4. Settles(q, IsDecisionTick) BY <1>1, <2>1, <3>2, QueueTypes
  <3> QED BY <2>1, <3>2, <3>3, <3>4
 <2>2. CASE ~ IsDecisionTick
  <3>1. q = <<>> BY <2>2
  <3> HIDE DEF q
  <3>2. Waits(q) /\ q \in Seq(BikeEvent) BY <3>1 DEF Waits
  <3>3. Settles(q, IsDecisionTick) /\ NoTrip(q) BY <1>1, <3>2, QueueTypes
  <3>4. CarriedBy(q) = 0
   <4>1. Sum(BikeLoad, <<>>) = 0 BY BikeLoads, SumOfEvents
   <4> QED BY <3>1, <3>2, <4>1, BikeLoads
  <3> QED BY <3>1, <3>2, <3>3, <3>4
 <2> QED BY <1>1, <2>1, <2>2
<1> HIDE DEF q
<1>5. Waits(agenda[now]) BY <1>1, <1>2 DEF BikeQueues
<1>6. ts \o q \in Seq(BikeEvent) /\ Settles(ts \o q, IsDecisionTick)
 <2>1. ts \o q \in Seq(BikeEvent) BY <1>3, <1>4
 <2>2. CASE ts = <<>>
  <3>1. ts \o q = q BY <1>4, <2>2
  <3> QED BY <1>4, <2>1, <3>1
 <2>3. CASE ts # <<>>
  <3>1. PICK t \in Trips : ts = <<t>> BY <2>3
  <3>2. \A i \in DOMAIN (ts \o q) : \/ i = 1 /\ (ts \o q)[i].type = "RequireBike"
                                    \/ i - 1 \in DOMAIN q /\ (ts \o q)[i] = q[i - 1]
    BY <1>4, <3>1 DEF Trips
  <3>3. DOMAIN (ts \o q) \subseteq Nat \ {0} /\ DOMAIN q \subseteq Nat \ {0} BY <1>4, <2>1
  <3> DEFINE r == ts \o q
  <3> SUFFICES ASSUME NEW i \in DOMAIN r, r[i].type \in Immediate \ {"RequireBike"}
               PROVE  IsDecisionTick /\ \A j \in DOMAIN r : j > i => r[j].type # "RequireBike"
    BY <2>1 DEF Settles
  <3>4. i - 1 \in DOMAIN q BY <3>2
  <3>5. ASSUME NEW j \in DOMAIN r, j > i PROVE r[j].type # "RequireBike"
   <4>1. j # 1 BY <3>3, <3>5
   <4>2. j - 1 \in DOMAIN q /\ r[j] = q[j - 1] BY <3>2, <4>1
   <4> QED BY <1>4, <4>2 DEF NoTrip
  <3>6. IsDecisionTick BY <1>4, <3>4
  <3> QED BY <3>5, <3>6
 <2> QED BY <2>2, <2>3
<1>7. es = agenda[now] \o (ts \o q)
 <2>1. ASSUME NEW x \in Seq(BikeEvent), NEW y \in Seq(BikeEvent), NEW z \in Seq(BikeEvent)
       PROVE  (x \o y) \o z = x \o (y \o z)
   BY ConcatAssociative
 <2> QED BY <1>1, <1>3, <1>4, <2>1
<1>8. es \in Seq(BikeEvent) /\ Settles(es, IsDecisionTick)
  BY <1>1, <1>5, <1>6, <1>7, QueueGrows
<1>9. CarriedBy(es) = CarriedBy(agenda[now])
 <2>1. CarriedBy(ts \o q) = 0 BY <1>3, <1>4, QueueLoads
 <2>2. CarriedBy(agenda[now] \o (ts \o q)) = CarriedBy(agenda[now]) + CarriedBy(ts \o q)
   BY <1>1, <1>6, QueueLoads
 <2>3. CarriedBy(agenda[now]) \in Nat BY <1>1, BikeLoads
 <2> QED BY <1>7, <2>1, <2>2, <2>3
<1> HIDE DEF es
<1>10. Running(agenda') /\ OnTheWay(agenda') = OnTheWay(agenda)
 <2>1. Running([agenda EXCEPT ![now] = es])
       /\ OnTheWay([agenda EXCEPT ![now] = es]) = OnTheWay(agenda) - CarriedBy(agenda[now]) + CarriedBy(es)
   BY <1>1, <1>8, QueueReplaced
 <2>2. CarriedBy(agenda[now]) \in Nat /\ OnTheWay(agenda) \in Nat BY <1>1, WaitingBikes
 <2> QED BY <1>2, <1>9, <2>1, <2>2
<1>11. BikeTypeOK' BY <1>2, <1>3, <1>10 DEF BikeTypeOK, Running, Agendas, FrameIndex
<1>12. BikeBook' /\ WithinCapacity' BY <1>2, <1>10 DEF BikeBook, WithinCapacity
<1>13. BikeQueues'
 <2>1. Settles(agenda'[now'], IsDecisionTick') BY <1>2, <1>10 DEF Running, IsDecisionTick
 <2> QED BY <1>2, <1>10, <2>1 DEF BikeQueues, Running
<1> QED BY <1>11, <1>12, <1>13 DEF BikesInv

LEMMA EventKinds ==
  ASSUME NEW e \in BikeEvent
  PROVE  /\ e.type = "RequireBike" => e \in Trips /\ Carried(e) = 0
         /\ e.type \in {"ReturnBike", "DeliverBike"} => e \in Arrivals /\ Carried(e) = e.n
         /\ e.type = "RebalanceBike" => Carried(e) = 0
         /\ e.type = "DECISION" => e \in Decisions /\ Carried(e) = 0
         /\ e.type = "ACTION" => e \in Actions /\ Carried(e) = 0
BY DEF BikeEvent, Trips, Arrivals, Decisions, Actions, Carried

\* One bike fewer, or some fewer, at a station.
LEMMA BikesTaken ==
  ASSUME BikesInv, NEW s \in Stations, NEW n \in Nat, n <= bikes[s]
  PROVE  LET b == [bikes EXCEPT ![s] = @ - n]
         IN  /\ b \in [Stations -> Nat] /\ \A x \in Stations : b[x] <= Capacity[x]
             /\ SumFunctionOnSet(b, Stations) = SumFunctionOnSet(bikes, Stations) - n
             /\ SumFunctionOnSet(bikes, Stations) \in Nat
<1> DEFINE b == [bikes EXCEPT ![s] = @ - n]
<1>1. bikes \in [Stations -> Nat] /\ \A x \in Stations : bikes[x] <= Capacity[x] /\ Capacity[x] \in Nat
  BY StationFacts DEF BikesInv, BikeTypeOK, WithinCapacity
<1>2. b[s] = bikes[s] - n /\ bikes[s] \in Nat /\ \A x \in Stations : x # s => b[x] = bikes[x]
  BY <1>1
<1>3. b \in [Stations -> Nat] /\ \A x \in Stations : b[x] <= Capacity[x] BY <1>1, <1>2
<1> HIDE DEF b
<1>4. SumFunctionOnSet(b, Stations) = SumFunctionOnSet(bikes, Stations) - bikes[s] + b[s]
 <2>1. \A x \in Stations : bikes[x] \in Int /\ b[x] \in Int BY <1>1, <1>3
 <2>2. IsFiniteSet(Stations) /\ \A x \in Stations \ {s} : b[x] = bikes[x]
   BY <1>2, StationFacts
 <2> QED BY <2>1, <2>2, SumChanges
<1>5. SumFunctionOnSet(bikes, Stations) \in Nat BY <1>1, AllDocks
<1> QED BY <1>2, <1>3, <1>4, <1>5 DEF b

\* The part of the invariant that a handler inside a tick changes.
LEMMA HandlerKeeps ==
  ASSUME BikesInv, pc = "execute", UNCHANGED <<now, pc, resets, requested>>,
         Running(agenda'), unlinked' \in Seq(BikeEvent), CarriedBy(unlinked') \in Nat,
         bikes' \in [Stations -> Nat], \A x \in Stations : bikes'[x] <= Capacity[x],
         trips' \in Demands,
         DOMAIN snapshots' \subseteq 0 .. FrameIndex, snapshots' \in [DOMAIN snapshots' -> Demands],
         DOMAIN cache' \subseteq DOMAIN snapshots', cache' \in [DOMAIN cache' -> Demands],
         SumFunctionOnSet(bikes', Stations) + OnTheWay(agenda') + CarriedBy(unlinked')
           = SumFunctionOnSet(bikes, Stations) + OnTheWay(agenda) + CarriedBy(unlinked)
  PROVE  BikesInv'
<1>1. BikeTypeOK /\ BikeBook BY DEF BikesInv
<1>2. BikeTypeOK' BY <1>1 DEF BikeTypeOK, Running, Agendas, FrameIndex
<1>3. BikeBook' BY <1>1 DEF BikeBook
<1>4. WithinCapacity' BY StationFacts DEF WithinCapacity
<1>5. BikeQueues' BY StillRunning
<1> QED BY <1>2, <1>3, <1>4, <1>5 DEF BikesInv

LEMMA RequiredBikeKeeps ==
  ASSUME BikesInv, NEW d \in Durations, OnRequiredBike(d)
  PROVE  BikesInv'
<1> DEFINE e == Head(agenda[now])
           r == [type |-> "ReturnBike", from |-> e.src, to |-> e.dest, n |-> 1]
<1>1. /\ pc = "execute" /\ agenda[now] # <<>> /\ e.type = "RequireBike"
      /\ trips' = [trips EXCEPT ![e.src] = @ + 1]
      /\ UNCHANGED <<now, pc, unlinked, snapshots, cache, requested, resets>>
      /\ IF bikes[e.src] < 1 THEN agenda' = Handled /\ UNCHANGED bikes
         ELSE bikes' = Taken(e.src) /\ agenda' = Plan(now + d, r)
  BY DEF OnRequiredBike, NextIs
<1>2. /\ e \in BikeEvent /\ Running(Handled) /\ OnTheWay(Handled) = OnTheWay(agenda) - Carried(e)
      /\ OnTheWay(agenda) \in Nat
  BY <1>1, FirstHandled
<1>3. e \in Trips /\ Carried(e) = 0 BY <1>1, <1>2, EventKinds
<1>4. e.src \in Stations /\ e.dest \in Stations /\ r \in Arrivals /\ r.n = 1
  BY <1>3 DEF Trips, Arrivals
<1>5. BikeTypeOK /\ WithinCapacity BY DEF BikesInv
<1>6. trips' \in Demands BY <1>1, <1>4, <1>5 DEF BikeTypeOK, Demands
<1>7. /\ unlinked' \in Seq(BikeEvent) /\ CarriedBy(unlinked') \in Nat /\ unlinked' = unlinked
      /\ DOMAIN snapshots' \subseteq 0 .. FrameIndex /\ snapshots' \in [DOMAIN snapshots' -> Demands]
      /\ DOMAIN cache' \subseteq DOMAIN snapshots' /\ cache' \in [DOMAIN cache' -> Demands]
  BY <1>1, <1>5, BikeLoads DEF BikeTypeOK
<1> HIDE DEF e
<1>8. /\ Running(agenda') /\ bikes' \in [Stations -> Nat] /\ \A x \in Stations : bikes'[x] <= Capacity[x]
      /\ SumFunctionOnSet(bikes', Stations) + OnTheWay(agenda')
           = SumFunctionOnSet(bikes, Stations) + OnTheWay(agenda)
 <2>1. CASE bikes[e.src] < 1 BY <1>1, <1>2, <1>3, <1>5, <2>1 DEF BikeTypeOK, WithinCapacity
 <2>2. CASE ~(bikes[e.src] < 1)
  <3>1. bikes[e.src] \in Nat /\ 1 <= bikes[e.src] /\ bikes' = [bikes EXCEPT ![e.src] = @ - 1]
        /\ agenda' = Plan(now + d, r)
    BY <1>1, <1>4, <1>5, <2>2 DEF BikeTypeOK, Taken
  <3>2. /\ bikes' \in [Stations -> Nat] /\ \A x \in Stations : bikes'[x] <= Capacity[x]
        /\ SumFunctionOnSet(bikes', Stations) = SumFunctionOnSet(bikes, Stations) - 1
        /\ SumFunctionOnSet(bikes, Stations) \in Nat
    BY <1>4, <3>1, BikesTaken
  <3>3. now + d \in AgendaTicks BY AtNow, Clock
  <3> HIDE DEF r
  <3>4. Running(agenda') /\ OnTheWay(agenda') = OnTheWay(agenda) - Carried(e) + r.n
    BY <1>1, <1>4, <3>1, <3>3, ArrivalPlanned DEF e
  <3> QED BY <1>2, <1>3, <1>4, <3>2, <3>4
 <2> QED BY <2>1, <2>2
<1>9. SumFunctionOnSet(bikes', Stations) + OnTheWay(agenda') + CarriedBy(unlinked')
        = SumFunctionOnSet(bikes, Stations) + OnTheWay(agenda) + CarriedBy(unlinked)
  BY <1>7, <1>8
<1> QED BY <1>1, <1>6, <1>7, <1>8, <1>9, HandlerKeeps

\* Bikes that arrive leave the queue for a dock.
LEMMA ArrivalKeeps == BikesInv /\ OnArrival => BikesInv'
<1> SUFFICES ASSUME BikesInv, OnArrival PROVE BikesInv'
  OBVIOUS
<1> DEFINE e == Head(agenda[now])
<1>1. /\ pc = "execute" /\ agenda[now] # <<>> /\ e.type \in {"ReturnBike", "DeliverBike"}
      /\ bikes' = Arrived(e.to, e.n) /\ agenda' = Handled
      /\ UNCHANGED <<now, pc, unlinked, trips, snapshots, cache, requested, resets>>
  BY DEF OnArrival, NextIs
<1>2. /\ e \in BikeEvent /\ Running(Handled) /\ OnTheWay(Handled) = OnTheWay(agenda) - Carried(e)
      /\ Carried(e) <= OnTheWay(agenda) /\ OnTheWay(agenda) \in Nat
  BY <1>1, FirstHandled
<1>3. e \in Arrivals /\ Carried(e) = e.n BY <1>1, <1>2, EventKinds
<1>4. e.to \in Stations /\ e.n \in Nat BY <1>3 DEF Arrivals
<1>5. BikeTypeOK /\ WithinCapacity /\ BikeBook BY DEF BikesInv
<1> HIDE DEF e
<1>6. /\ unlinked' \in Seq(BikeEvent) /\ CarriedBy(unlinked') \in Nat /\ unlinked' = unlinked
      /\ trips' \in Demands
      /\ DOMAIN snapshots' \subseteq 0 .. FrameIndex /\ snapshots' \in [DOMAIN snapshots' -> Demands]
      /\ DOMAIN cache' \subseteq DOMAIN snapshots' /\ cache' \in [DOMAIN cache' -> Demands]
  BY <1>1, <1>5, BikeLoads DEF BikeTypeOK
<1>7. bikes \in [Stations -> Nat] /\ \A x \in Stations : bikes[x] <= Capacity[x]
  BY <1>5, StationFacts DEF BikeTypeOK, WithinCapacity
<1>8. /\ SumFunctionOnSet(bikes, Stations) \in Nat
      /\ SumFunctionOnSet(bikes, Stations) + e.n <= SumFunctionOnSet(Capacity, Stations)
 <2> DEFINE a == SumFunctionOnSet(bikes, Stations)
            i == SumFunctionOnSet(InitBikes, Stations)
            c == SumFunctionOnSet(Capacity, Stations)
            f == SumFunctionOnSet(FreeDocks(InitBikes), Stations)
            w == OnTheWay(agenda)
            u == CarriedBy(unlinked)
 <2>1. a \in Nat BY <1>7, AllDocks
 <2>2. i \in Nat /\ f \in Nat /\ c = i + f BY StationFacts, AllDocks
 <2>3. a + w + u = i /\ u \in Nat /\ w \in Nat /\ e.n <= w
   BY <1>2, <1>3, <1>5, <1>6 DEF BikeBook
 <2> HIDE DEF a, i, c, f, w, u
 <2>4. a + e.n <= c BY <1>4, <2>1, <2>2, <2>3
 <2> QED BY <2>1, <2>4 DEF a, c
<1>9. /\ bikes' \in [Stations -> Nat] /\ \A x \in Stations : bikes'[x] <= Capacity[x]
      /\ SumFunctionOnSet(bikes', Stations) = SumFunctionOnSet(bikes, Stations) + e.n
  BY <1>1, <1>4, <1>7, <1>8, AllArrive
<1>10. SumFunctionOnSet(bikes', Stations) + OnTheWay(agenda') + CarriedBy(unlinked')
         = SumFunctionOnSet(bikes, Stations) + OnTheWay(agenda) + CarriedBy(unlinked)
  BY <1>1, <1>2, <1>3, <1>4, <1>6, <1>8, <1>9
<1> QED BY <1>1, <1>2, <1>6, <1>9, <1>10, HandlerKeeps

\* The stations' questions for decisions replace the check of the stations.
LEMMA RebalanceKeeps ==
  ASSUME BikesInv, OnRebalance
  PROVE  BikesInv' /\ NoTrip(agenda'[now])
<1> DEFINE asking == {s \in Stations : DecisionType(s) # "None"}
           Asked(ss) == [i \in DOMAIN ss |-> [type |-> "DECISION", s |-> ss[i], kind |-> DecisionType(ss[i])]]
           tl == Tail(agenda[now])
<1>1. PICK ss \in [1 .. Cardinality(asking) -> asking] :
        agenda' = [agenda EXCEPT ![now] = Tail(@) \o Asked(ss)]
  BY DEF OnRebalance
<1>2. /\ pc = "execute" /\ agenda[now] # <<>> /\ Head(agenda[now]).type = "RebalanceBike"
      /\ UNCHANGED <<now, pc, unlinked, bikes, trips, snapshots, cache, requested, resets>>
  BY DEF OnRebalance, NextIs
<1> DEFINE ds == Asked(ss)
<1>3. /\ ds \in Seq(BikeEvent) /\ \A i \in DOMAIN ds : ds[i].type = "DECISION"
 <2>1. Cardinality(asking) \in Nat
  <3>1. IsFiniteSet(asking) BY StationFacts, FS_Subset
  <3> QED BY <3>1, FS_CardinalityType
 <2>2. \A s \in asking : [type |-> "DECISION", s |-> s, kind |-> DecisionType(s)] \in Decisions
   BY DEF Decisions, DecisionType
 <2>3. \A i \in DOMAIN ss : ss[i] \in asking OBVIOUS
 <2>4. DOMAIN ss = 1 .. Cardinality(asking) /\ DOMAIN ds = DOMAIN ss OBVIOUS
 <2>5. \A i \in DOMAIN ds : ds[i] \in Decisions /\ ds[i].type = "DECISION"
  <3> HIDE DEF asking
  <3> QED BY <2>2, <2>3, <2>4 DEF Decisions
 <2>6. \A i \in DOMAIN ds : ds[i] \in BikeEvent BY <2>5 DEF BikeEvent
 <2> HIDE DEF asking
 <2>7. ds \in Seq(BikeEvent) BY <2>1, <2>4, <2>6
 <2> QED BY <2>5, <2>7
<1>4. CarriedBy(ds) = 0
 <2> HIDE DEF ds
 <2>1. \A i \in DOMAIN ds : BikeLoad[ds[i]] = 0
  <3> SUFFICES ASSUME NEW i \in DOMAIN ds PROVE BikeLoad[ds[i]] = 0
    OBVIOUS
  <3>1. ds[i] \in BikeEvent /\ ds[i].type = "DECISION" BY <1>3
  <3> QED BY <3>1, EventKinds DEF BikeLoad
 <2>2. Sum(BikeLoad, ds) = 0 BY <1>3, <2>1, BikeLoads, SumOfNone
 <2> QED BY <1>3, <2>2, BikeLoads
<1>5. agenda' = [agenda EXCEPT ![now] = tl \o ds] BY <1>1
<1> HIDE DEF ds
<1>6. /\ Head(agenda[now]) \in BikeEvent /\ tl \in Seq(BikeEvent) /\ OnTheWay(agenda) \in Nat
      /\ CarriedBy(tl) = CarriedBy(agenda[now]) - Carried(Head(agenda[now]))
      /\ CarriedBy(agenda[now]) \in Nat
  BY <1>2, FirstHandled
<1>7. Carried(Head(agenda[now])) = 0 BY <1>2, <1>6, EventKinds
<1>8. /\ agenda[now] \in Seq(BikeEvent) /\ IsDecisionTick \in BOOLEAN /\ Running(agenda)
      /\ Settles(agenda[now], IsDecisionTick)
  BY AtNow DEF Running
<1>9. IsDecisionTick /\ NoTrip(tl) BY <1>2, <1>8, QueueShrinks DEF Immediate
<1>10. /\ tl \o ds \in Seq(BikeEvent) /\ Settles(tl \o ds, IsDecisionTick)
       /\ CarriedBy(tl \o ds) = CarriedBy(agenda[now]) /\ NoTrip(tl \o ds)
 <2>1. NoTrip(ds) BY <1>3 DEF NoTrip
 <2>2. NoTrip(tl \o ds) /\ tl \o ds \in Seq(BikeEvent)
   BY <1>3, <1>6, <1>8, <1>9, <2>1, QueueGrows
 <2>3. Settles(tl \o ds, IsDecisionTick) BY <1>8, <1>9, <2>2, QueueTypes
 <2>4. CarriedBy(tl \o ds) = CarriedBy(tl) + CarriedBy(ds) BY <1>3, <1>6, QueueLoads
 <2> QED BY <1>4, <1>6, <1>7, <2>2, <2>3, <2>4
<1> DEFINE es == tl \o ds
<1> HIDE DEF es, tl
<1>11. /\ Running(agenda') /\ NoTrip(agenda'[now])
       /\ OnTheWay(agenda') = OnTheWay(agenda) - CarriedBy(agenda[now]) + CarriedBy(agenda[now])
 <2>1. es \in Seq(BikeEvent) /\ Settles(es, IsDecisionTick) /\ CarriedBy(es) = CarriedBy(agenda[now])
       /\ NoTrip(es)
       /\ agenda' = [agenda EXCEPT ![now] = es]
   BY <1>5, <1>10 DEF es
 <2> QED BY <1>8, <2>1, QueueReplaced
<1>12. OnTheWay(agenda') = OnTheWay(agenda) BY <1>6, <1>11
<1>13. BikeTypeOK /\ WithinCapacity BY DEF BikesInv
<1>14. /\ unlinked' \in Seq(BikeEvent) /\ CarriedBy(unlinked') \in Nat /\ unlinked' = unlinked
       /\ trips' \in Demands /\ bikes' = bikes
       /\ bikes' \in [Stations -> Nat] /\ \A x \in Stations : bikes'[x] <= Capacity[x]
       /\ DOMAIN snapshots' \subseteq 0 .. FrameIndex /\ snapshots' \in [DOMAIN snapshots' -> Demands]
       /\ DOMAIN cache' \subseteq DOMAIN snapshots' /\ cache' \in [DOMAIN cache' -> Demands]
  BY <1>2, <1>13, BikeLoads, StationFacts DEF BikeTypeOK, WithinCapacity
<1> QED BY <1>2, <1>11, <1>12, <1>14, HandlerKeeps

-----------------------------------------------------------------------------
(* Snapshots and what the trip filter has cached of them.                  *)

LEMMA Frames ==
  ASSUME BikeTypeOK
  PROVE  /\ now \in Nat /\ FrameIndex \in Nat
         /\ DOMAIN WithSnapshot = DOMAIN snapshots \cup {FrameIndex}
         /\ DOMAIN WithSnapshot \subseteq 0 .. FrameIndex
         /\ WithSnapshot \in [DOMAIN WithSnapshot -> Demands]
         /\ WithSnapshot[FrameIndex] = trips
         /\ \A k \in DOMAIN snapshots : k # FrameIndex => WithSnapshot[k] = snapshots[k]
<1>1. now \in Nat /\ FrameIndex \in Nat
 <2>1. now \in Nat /\ SnapshotResolution \in Nat \ {0} BY CitiBikeAssumption DEF BikeTypeOK
 <2>2. now \div SnapshotResolution \in Nat BY <2>1
 <2> QED BY <2>1, <2>2 DEF FrameIndex
<1>2. DOMAIN snapshots \subseteq 0 .. FrameIndex /\ trips \in Demands
      /\ \A k \in DOMAIN snapshots : snapshots[k] \in Demands
  BY DEF BikeTypeOK
<1> HIDE DEF FrameIndex
<1> QED BY <1>1, <1>2 DEF WithSnapshot

\* What is cached after a look: of the latest frame what it shows now, of those
\* that were cached what was, of the others what their snapshots show.
LEMMA Lookup ==
  ASSUME BikeTypeOK
  PROVE  LET l == LookedUp(WithSnapshot)
         IN  /\ DOMAIN l \subseteq DOMAIN WithSnapshot /\ FrameIndex \in DOMAIN l
             /\ l \in [DOMAIN l -> Demands]
             /\ l[FrameIndex] = trips
             /\ \A k \in DOMAIN l : k # FrameIndex =>
                  l[k] = IF k \in DOMAIN cache THEN cache[k] ELSE snapshots[k]
<1> DEFINE w == WithSnapshot
           f == WindowFrames(w)
           l == LookedUp(w)
<1>1. /\ FrameIndex \in Nat /\ DOMAIN w = DOMAIN snapshots \cup {FrameIndex}
      /\ DOMAIN w \subseteq 0 .. FrameIndex /\ w \in [DOMAIN w -> Demands] /\ w[FrameIndex] = trips
      /\ \A k \in DOMAIN snapshots : k # FrameIndex => w[k] = snapshots[k]
  BY Frames
<1>2. DOMAIN cache \subseteq DOMAIN snapshots /\ \A k \in DOMAIN cache : cache[k] \in Demands
  BY DEF BikeTypeOK
<1> HIDE DEF w
<1>3. f \subseteq DOMAIN w BY DEF WindowFrames
<1>4. FrameIndex \in f
 <2>1. {j \in DOMAIN w : j > FrameIndex} = {} BY <1>1
 <2>2. Cardinality({j \in DOMAIN w : j > FrameIndex}) = 0 BY <2>1, FS_EmptySet
 <2>3. 0 < Windows BY CitiBikeAssumption
 <2> QED BY <1>1, <2>2, <2>3 DEF WindowFrames
<1>5. Max(f) = FrameIndex
 <2>1. \A k \in f : k \in Int /\ FrameIndex >= k BY <1>1, <1>3
 <2>2. \A x \in f : (\A y \in f : x >= y) => x = FrameIndex BY <1>1, <1>4, <2>1
 <2> HIDE DEF f
 <2> QED BY <1>4, <2>1, <2>2 DEF Max
<1>6. /\ DOMAIN l = DOMAIN cache \cup f
      /\ \A k \in DOMAIN cache \cup f : l[k] = IF k \in DOMAIN cache /\ k # FrameIndex THEN cache[k] ELSE w[k]
      /\ l = [k \in DOMAIN l |-> l[k]]
  BY <1>5 DEF LookedUp
<1> HIDE DEF f, l
<1>7. \A k \in DOMAIN l : l[k] \in Demands BY <1>1, <1>2, <1>3, <1>6
<1>8. l \in [DOMAIN l -> Demands] BY <1>6, <1>7
<1>9. \A k \in DOMAIN l : k # FrameIndex => l[k] = IF k \in DOMAIN cache THEN cache[k] ELSE snapshots[k]
  BY <1>1, <1>3, <1>6
<1>10. DOMAIN l \subseteq DOMAIN w /\ FrameIndex \in DOMAIN l /\ l[FrameIndex] = trips
  BY <1>1, <1>2, <1>3, <1>4, <1>6
<1> QED BY <1>8, <1>9, <1>10 DEF l, w

LEMMA CandidateFacts ==
  ASSUME BikeTypeOK, NEW s \in Stations, NEW sort \in {"Supply", "Demand"}, NEW snaps
  PROVE  /\ Candidates(s, sort, snaps) \subseteq Stations
         /\ \A x \in Stations : \A n \in 1 .. Min({OwnScope(s, sort), NeighborScope(sort)[x]}) : n \in Nat
<1>1. DistanceFilter(s) \subseteq Stations
 <2>1. Near[s] \in Seq(Stations) BY StationFacts
 <2>2. \A i \in DOMAIN Near[s] : Near[s][i] \in Stations BY <2>1
 <2> QED BY <2>2 DEF DistanceFilter
<1>2. \A set : RequirementsFilter(sort, set) \subseteq set BY DEF RequirementsFilter, Best
<1>3. \A set : TripsWindowFilter(sort, snaps, set) \subseteq set
  BY DEF TripsWindowFilter, Best
<1>4. Candidates(s, sort, snaps) \subseteq Stations BY <1>1, <1>2, <1>3 DEF Candidates
<1>5. \A x \in Stations : \A n \in 1 .. Min({OwnScope(s, sort), NeighborScope(sort)[x]}) : n \in Nat
 <2> SUFFICES ASSUME NEW x \in Stations, NEW n \in 1 .. Min({OwnScope(s, sort), NeighborScope(sort)[x]})
              PROVE  n \in Nat
   OBVIOUS
 <2> DEFINE a == OwnScope(s, sort)
            b == NeighborScope(sort)[x]
 <2>1. bikes[s] \in Nat /\ bikes[x] \in Nat /\ Capacity[s] \in Nat /\ Capacity[x] \in Nat
   BY StationFacts DEF BikeTypeOK
 <2>2. ScopeLow \in Int /\ ScopeHigh \in Int BY CitiBikeAssumption
 <2>3. a \in Int BY <2>1, <2>2 DEF OwnScope
 <2>4. b \in Int BY <2>1, <2>2 DEF NeighborScope
 <2>5. n \in 1 .. Min({a, b}) OBVIOUS
 <2> HIDE DEF a, b
 <2>6. Min({a, b}) \in Int BY <2>3, <2>4, LeastOfTwo
 <2> QED BY <2>5, <2>6
<1> QED BY <1>4, <1>5

-----------------------------------------------------------------------------
(* Decisions, and what the agent answers.                                  *)

\* Nothing moves at a decision; a frame is written.
LEMMA DecisionKeeps ==
  ASSUME BikesInv, pc = "execute", UNCHANGED <<now, pc, unlinked, bikes, trips, requested, resets>>,
         Running(agenda'), OnTheWay(agenda') = OnTheWay(agenda),
         snapshots' = WithSnapshot,
         DOMAIN cache' \subseteq DOMAIN WithSnapshot, cache' \in [DOMAIN cache' -> Demands]
  PROVE  BikesInv'
<1>1. BikeTypeOK /\ WithinCapacity BY DEF BikesInv
<1>2. DOMAIN snapshots' \subseteq 0 .. FrameIndex /\ snapshots' \in [DOMAIN snapshots' -> Demands]
  BY <1>1, Frames
<1>3. /\ unlinked' \in Seq(BikeEvent) /\ CarriedBy(unlinked') \in Nat /\ unlinked' = unlinked
      /\ trips' \in Demands /\ bikes' = bikes
      /\ bikes' \in [Stations -> Nat] /\ \A x \in Stations : bikes'[x] <= Capacity[x]
  BY <1>1, BikeLoads, StationFacts DEF BikeTypeOK, WithinCapacity
<1> QED BY <1>2, <1>3, HandlerKeeps

LEMMA DecideKeeps ==
  ASSUME BikesInv, Decide
  PROVE  BikesInv' /\ IsDecisionTick /\ NoTrip(agenda'[now])
<1> DEFINE d == Head(agenda[now])
           tl == Tail(agenda[now])
<1>1. /\ pc = "execute" /\ agenda[now] # <<>> /\ d.type = "DECISION"
      /\ snapshots' = WithSnapshot /\ cache' = LookedUp(WithSnapshot)
      /\ UNCHANGED <<now, pc, unlinked, bikes, trips, requested, resets>>
  BY DEF Decide, NextIs
<1>2. /\ d \in BikeEvent /\ tl \in Seq(BikeEvent) /\ OnTheWay(agenda) \in Nat
      /\ CarriedBy(tl) = CarriedBy(agenda[now]) - Carried(d)
      /\ CarriedBy(agenda[now]) \in Nat
  BY <1>1, FirstHandled
<1>3. d \in Decisions /\ Carried(d) = 0 BY <1>1, <1>2, EventKinds
<1>4. BikeTypeOK BY DEF BikesInv
<1>5. PICK x \in Candidates(d.s, d.kind, WithSnapshot) :
        \E n \in 1 .. Min({OwnScope(d.s, d.kind), NeighborScope(d.kind)[x]}) :
          agenda' = [agenda EXCEPT ![now] = <<[type |-> "ACTION", n |-> n,
                       from |-> IF d.kind = "Supply" THEN d.s ELSE x,
                       to |-> IF d.kind = "Supply" THEN x ELSE d.s]>> \o Tail(@)]
  BY DEF Decide
<1>6. PICK n \in 1 .. Min({OwnScope(d.s, d.kind), NeighborScope(d.kind)[x]}) :
        agenda' = [agenda EXCEPT ![now] = <<[type |-> "ACTION", n |-> n,
                       from |-> IF d.kind = "Supply" THEN d.s ELSE x,
                       to |-> IF d.kind = "Supply" THEN x ELSE d.s]>> \o Tail(@)]
  BY <1>5
<1> DEFINE act == [type |-> "ACTION", n |-> n,
                   from |-> IF d.kind = "Supply" THEN d.s ELSE x,
                   to |-> IF d.kind = "Supply" THEN x ELSE d.s]
           es == <<act>> \o tl
<1>7. agenda' = [agenda EXCEPT ![now] = es] BY <1>6
<1> HIDE DEF d
<1>8. act \in BikeEvent /\ act.type = "ACTION" /\ Carried(act) = 0
 <2>1. d.s \in Stations /\ d.kind \in {"Supply", "Demand"} BY <1>3 DEF Decisions
 <2>2. x \in Stations BY <1>4, <2>1, CandidateFacts
 <2>3. n \in Nat BY <1>4, <2>1, <2>2, CandidateFacts
 <2> QED BY <2>1, <2>2, <2>3 DEF BikeEvent, Actions, Carried
<1> HIDE DEF act, tl
<1>9. /\ agenda[now] \in Seq(BikeEvent) /\ IsDecisionTick \in BOOLEAN /\ Running(agenda)
      /\ Settles(agenda[now], IsDecisionTick)
  BY AtNow DEF Running
<1>10. IsDecisionTick /\ NoTrip(tl) BY <1>1, <1>9, QueueShrinks DEF Immediate, d, tl
<1>11. es \in Seq(BikeEvent) /\ Settles(es, IsDecisionTick) /\ CarriedBy(es) = CarriedBy(agenda[now])
       /\ NoTrip(es)
 <2>1. <<act>> \in Seq(BikeEvent) /\ NoTrip(<<act>>) BY <1>8, <1>9, QueueTypes
 <2>2. NoTrip(es) /\ es \in Seq(BikeEvent) BY <1>2, <1>9, <1>10, <2>1, QueueGrows
 <2>3. Settles(es, IsDecisionTick) BY <1>9, <1>10, <2>2, QueueTypes
 <2>4. CarriedBy(<<act>>) = 0
  <3>1. Sum(BikeLoad, <<act>>) = BikeLoad[act] /\ BikeLoad[act] = 0
    BY <1>8, BikeLoads, SumOfEvents DEF BikeLoad
  <3> QED BY <2>1, <3>1, BikeLoads
 <2>5. CarriedBy(es) = CarriedBy(<<act>>) + CarriedBy(tl) BY <1>2, <2>1, QueueLoads
 <2> QED BY <1>2, <1>3, <2>2, <2>3, <2>4, <2>5
<1> HIDE DEF es
<1>12. Running(agenda') /\ OnTheWay(agenda') = OnTheWay(agenda) /\ NoTrip(agenda'[now])
 <2>1. Running([agenda EXCEPT ![now] = es]) /\ [agenda EXCEPT ![now] = es][now] = es
       /\ OnTheWay([agenda EXCEPT ![now] = es]) = OnTheWay(agenda) - CarriedBy(agenda[now]) + CarriedBy(es)
   BY <1>9, <1>11, QueueReplaced
 <2> QED BY <1>2, <1>7, <1>11, <2>1
<1>13. DOMAIN cache' \subseteq DOMAIN WithSnapshot /\ cache' \in [DOMAIN cache' -> Demands]
  BY <1>1, <1>4, Lookup
<1> QED BY <1>1, <1>10, <1>12, <1>13, DecisionKeeps

LEMMA DecideNothingKeeps == BikesInv /\ DecideNothing => BikesInv'
<1> SUFFICES ASSUME BikesInv, DecideNothing PROVE BikesInv'
  OBVIOUS
<1> DEFINE d == Head(agenda[now])
<1>1. /\ pc = "execute" /\ agenda[now] # <<>> /\ d.type = "DECISION"
      /\ snapshots' = WithSnapshot /\ agenda' = Handled
      /\ UNCHANGED <<now, pc, unlinked, bikes, trips, cache, requested, resets>>
  BY DEF DecideNothing, NextIs
<1>2. /\ d \in BikeEvent /\ Running(Handled) /\ OnTheWay(Handled) = OnTheWay(agenda) - Carried(d)
      /\ OnTheWay(agenda) \in Nat
  BY <1>1, FirstHandled
<1>3. Carried(d) = 0 BY <1>1, <1>2, EventKinds
<1> HIDE DEF d
<1>4. BikeTypeOK BY DEF BikesInv
<1>5. DOMAIN cache' \subseteq DOMAIN WithSnapshot /\ cache' \in [DOMAIN cache' -> Demands]
  BY <1>1, <1>4, Frames DEF BikeTypeOK
<1>6. OnTheWay(agenda') = OnTheWay(agenda) BY <1>1, <1>2, <1>3
<1> QED BY <1>1, <1>2, <1>5, <1>6, DecisionKeeps

\* A transfer takes bikes from a station to a queue, or to an event that no queue holds.
LEMMA ActionKeeps ==
  ASSUME BikesInv, NEW t \in TransferTimes, now + t \in AgendaTicks, OnAction(t)
  PROVE  BikesInv'
<1> DEFINE a == Head(agenda[now])
           n == Executed(a)
           e == [type |-> "DeliverBike", from |-> a.from, to |-> a.to, n |-> n]
<1>1. /\ pc = "execute" /\ agenda[now] # <<>> /\ a.type = "ACTION"
      /\ UNCHANGED <<now, pc, trips, snapshots, cache, requested, resets>>
      /\ IF n > 0 THEN /\ bikes' = [bikes EXCEPT ![a.from] = @ - n]
                       /\ TransferPlanned(now + t, e)
         ELSE agenda' = Handled /\ UNCHANGED <<bikes, unlinked>>
  BY DEF OnAction, NextIs
<1>2. /\ a \in BikeEvent /\ Running(Handled) /\ OnTheWay(Handled) = OnTheWay(agenda) - Carried(a)
      /\ OnTheWay(agenda) \in Nat
  BY <1>1, FirstHandled
<1>3. a \in Actions /\ Carried(a) = 0 BY <1>1, <1>2, EventKinds
<1>4. a.from \in Stations /\ a.to \in Stations /\ a.n \in Nat BY <1>3 DEF Actions
<1>5. BikeTypeOK /\ WithinCapacity BY DEF BikesInv
<1>6. n \in Nat /\ n <= bikes[a.from]
 <2>1. bikes[a.from] \in Nat BY <1>4, <1>5 DEF BikeTypeOK
 <2> HIDE DEF a
 <2> QED BY <1>4, <2>1, LeastOfTwo DEF Executed
<1>7. e \in Arrivals /\ e.n = n BY <1>4, <1>6 DEF Arrivals
<1>8. /\ DOMAIN snapshots' \subseteq 0 .. FrameIndex /\ snapshots' \in [DOMAIN snapshots' -> Demands]
      /\ DOMAIN cache' \subseteq DOMAIN snapshots' /\ cache' \in [DOMAIN cache' -> Demands]
      /\ trips' \in Demands /\ unlinked \in Seq(BikeEvent) /\ CarriedBy(unlinked) \in Nat
      /\ bikes \in [Stations -> Nat] /\ \A x \in Stations : bikes[x] <= Capacity[x]
  BY <1>1, <1>5, BikeLoads, StationFacts, SMTT(30) DEF BikeTypeOK, WithinCapacity
<1> HIDE DEF a, n
<1>9. /\ Running(agenda') /\ bikes' \in [Stations -> Nat] /\ \A x \in Stations : bikes'[x] <= Capacity[x]
      /\ unlinked' \in Seq(BikeEvent) /\ CarriedBy(unlinked') \in Nat
      /\ SumFunctionOnSet(bikes', Stations) + OnTheWay(agenda') + CarriedBy(unlinked')
           = SumFunctionOnSet(bikes, Stations) + OnTheWay(agenda) + CarriedBy(unlinked)
 <2>1. CASE ~(n > 0) BY <1>1, <1>2, <1>3, <1>8, <2>1
 <2>2. CASE n > 0
  <3>1. bikes' = [bikes EXCEPT ![a.from] = @ - n] /\ TransferPlanned(now + t, e)
    BY <1>1, <2>2
  <3>2. /\ bikes' \in [Stations -> Nat] /\ \A x \in Stations : bikes'[x] <= Capacity[x]
        /\ SumFunctionOnSet(bikes', Stations) = SumFunctionOnSet(bikes, Stations) - n
        /\ SumFunctionOnSet(bikes, Stations) \in Nat
    BY <1>4, <1>6, <3>1, BikesTaken
  <3> HIDE DEF e
  <3>3. /\ Running(Plan(now + t, e)) /\ e \in BikeEvent /\ Carried(e) = n
        /\ OnTheWay(Plan(now + t, e)) = OnTheWay(agenda) - Carried(a) + n
    BY <1>1, <1>7, ArrivalPlanned DEF a
  <3>4. CASE now + t = now /\ Tail(agenda[now]) = <<>>
   <4>1. unlinked' = Append(unlinked, e) /\ agenda' = Handled
     BY <3>1, <3>4 DEF TransferPlanned
   <4>2. unlinked' \in Seq(BikeEvent) /\ CarriedBy(unlinked') = CarriedBy(unlinked) + n
     BY <1>8, <3>3, <4>1, QueueLoads
   <4> QED BY <1>2, <1>3, <1>6, <1>8, <3>2, <4>1, <4>2
  <3>5. CASE ~(now + t = now /\ Tail(agenda[now]) = <<>>)
   <4>1. unlinked' = unlinked /\ agenda' = Plan(now + t, e)
     BY <3>1, <3>5 DEF TransferPlanned
   <4> QED BY <1>2, <1>3, <1>6, <1>8, <3>2, <3>3, <4>1
  <3> QED BY <3>4, <3>5
 <2> QED BY <2>1, <2>2
<1> QED BY <1>1, <1>8, <1>9, HandlerKeeps

\* A tick is over: its queue is empty, and those of other ticks hold arrivals only.
LEMMA PostStepKeepsBikes == BikesInv /\ PostStep => BikesInv'
<1> SUFFICES ASSUME BikesInv, PostStep PROVE BikesInv'
  OBVIOUS
<1>1. /\ pc = "execute" /\ agenda[now] = <<>>
      /\ UNCHANGED <<agenda, unlinked, bikes, cache, requested, resets>>
      /\ snapshots' \in {WithSnapshot, snapshots} /\ trips' \in {NoTrips, trips}
      /\ pc' \in {"step", "end"} /\ (pc' = "end" => now' = now)
      /\ (pc' = "step" => now' = now + 1 /\ now # MaxTick)
  BY DEF PostStep
<1>2. BikeTypeOK /\ BikeBook /\ WithinCapacity /\ BikeQueues BY DEF BikesInv
<1>3. now' \in 0 .. MaxTick /\ now \in 0 .. MaxTick /\ now <= now'
  BY <1>1, <1>2, CitiBikeAssumption, SMTT(30) DEF BikeTypeOK
<1>4. FrameIndex \in Nat /\ FrameIndex' \in Nat /\ FrameIndex <= FrameIndex'
 <2>1. SnapshotResolution \in Nat \ {0} /\ now \in Nat /\ now' \in Nat
   BY <1>3, CitiBikeAssumption
 <2>2. FrameIndex = now \div SnapshotResolution /\ FrameIndex' = now' \div SnapshotResolution
   BY DEF FrameIndex
 <2>3. now \div SnapshotResolution <= now' \div SnapshotResolution
   BY <1>3, <2>1, DivisionMonotone
 <2>4. now \div SnapshotResolution \in Nat /\ now' \div SnapshotResolution \in Nat
   BY <2>1, DivisionBounds
 <2> QED BY <2>2, <2>3, <2>4
<1>5. BikeTypeOK'
 <2>1. /\ DOMAIN snapshots' \subseteq 0 .. FrameIndex /\ snapshots' \in [DOMAIN snapshots' -> Demands]
       /\ DOMAIN snapshots \subseteq DOMAIN snapshots'
   BY <1>1, <1>2, Frames DEF BikeTypeOK
 <2>2. 0 .. FrameIndex \subseteq 0 .. FrameIndex' BY <1>4
 <2>3. trips' \in Demands BY <1>1, <1>2 DEF BikeTypeOK, NoTrips, Demands
 <2> QED BY <1>1, <1>2, <1>3, <2>1, <2>2, <2>3 DEF BikeTypeOK
<1>6. BikeBook' /\ WithinCapacity' BY <1>1, <1>2 DEF BikeBook, WithinCapacity
<1>7. BikeQueues'
 <2>1. \A t \in AgendaTicks : Waits(agenda[t])
  <3>1. Waits(<<>>) BY DEF Waits
  <3> QED BY <1>1, <1>2, <3>1 DEF BikeQueues
 <2>2. now' \in AgendaTicks /\ agenda \in Agendas BY <1>3, Clock, AtNow
 <2>3. Waits(agenda[now']) /\ agenda[now'] \in Seq(BikeEvent) BY <2>1, <2>2 DEF Agendas
 <2>4. Settles(agenda[now'], IsDecisionTick') BY <2>3, QueueTypes DEF IsDecisionTick
 <2> QED BY <1>1, <2>1, <2>4 DEF BikeQueues
<1> QED BY <1>5, <1>6, <1>7 DEF BikesInv

LEMMA ResetKeepsBikes == BikesInv /\ Reset => BikesInv'
<1> SUFFICES ASSUME BikesInv, Reset PROVE BikesInv'
  OBVIOUS
<1>1. Fresh' BY DEF BikesInv, BikeTypeOK, Reset, Forgotten, Fresh
<1> QED BY <1>1, InitialBikes, PTL

LEMMA BikesStep == BikesInv /\ [Next]_vars => BikesInv'
<1> SUFFICES ASSUME BikesInv, [Next]_vars PROVE BikesInv'
  OBVIOUS
<1>1. ASSUME NEW ts \in {<<>>} \cup {<<t>> : t \in Trips}, Step(ts) PROVE BikesInv'
  BY <1>1, StepKeepsBikes
<1>2. ASSUME NEW d \in Durations, OnRequiredBike(d) PROVE BikesInv'
  BY <1>2, RequiredBikeKeeps
<1>3. CASE OnArrival BY <1>3, ArrivalKeeps
<1>4. CASE OnRebalance BY <1>4, RebalanceKeeps
<1>5. CASE Decide BY <1>5, DecideKeeps
<1>6. CASE DecideNothing BY <1>6, DecideNothingKeeps
<1>7. ASSUME NEW t \in TransferTimes, now + t \in AgendaTicks, OnAction(t) PROVE BikesInv'
  BY <1>7, ActionKeeps
<1>8. CASE PostStep BY <1>8, PostStepKeepsBikes
<1>9. CASE Reset BY <1>9, ResetKeepsBikes
<1>10. CASE UNCHANGED vars
  BY <1>10 DEF vars, BikesInv, BikeTypeOK, BikeBook, WithinCapacity, BikeQueues, FrameIndex, IsDecisionTick
<1> QED BY <1>1, <1>2, <1>3, <1>4, <1>5, <1>6, <1>7, <1>8, <1>9, <1>10 DEF Next

(***************************************************************************)
(* No bike is lost or made, however trips, returns, overflows and          *)
(* transfers interleave and whatever time transfers take: every one is at  *)
(* a station, in an event that waits, or in the event of a transfer that   *)
(* has left the queue (TransfersArrive tells when there are such).  No     *)
(* station has more bikes than docks.                                      *)
(***************************************************************************)
THEOREM BikesAreConserved == Spec => [](BikeBook /\ WithinCapacity)
<1>1. BikesInv => BikeBook /\ WithinCapacity BY DEF BikesInv
<1> QED BY <1>1, InitBikesInv, BikesStep, PTL DEF Spec

\* The agenda of the past is empty where every transfer takes time.
LEMMA NothingLeftBehind ==
  ASSUME Later, BikesInv, TransfersArrive, [Next]_vars
  PROVE  TransfersArrive'
<1>1. unlinked = <<>> /\ (\A t \in AgendaTicks : t < now => agenda[t] = <<>>)
  BY DEF TransfersArrive
<1>2. now \in AgendaTicks /\ now \in 0 .. MaxTick /\ agenda \in Agendas BY AtNow
<1>a. now \in Int /\ AgendaTicks \subseteq Int BY <1>2, Clock
<1>3. ASSUME NEW t \in AgendaTicks, ~(t < now), NEW es, agenda' = [agenda EXCEPT ![t] = es],
             now' = now, unlinked' = unlinked
      PROVE  TransfersArrive'
 <2>1. \A u \in AgendaTicks : u < now => agenda'[u] = agenda[u]
   BY <1>2, <1>a, <1>3 DEF Agendas
 <2> QED BY <1>1, <1>3, <2>1 DEF TransfersArrive
<1>4. ASSUME NEW t \in AgendaTicks, ~(t < now), NEW e, agenda' = Plan(t, e), now' = now, unlinked' = unlinked
      PROVE  TransfersArrive'
 <2>1. \A u \in AgendaTicks : u < now => agenda'[u] = agenda[u]
   BY <1>2, <1>a, <1>4 DEF Agendas, Plan, Handled
 <2> QED BY <1>1, <1>4, <2>1 DEF TransfersArrive
<1>b. ASSUME NEW es, agenda' = [agenda EXCEPT ![now] = es], now' = now, unlinked' = unlinked
      PROVE  TransfersArrive'
 <2>1. ~(now < now) BY <1>a
 <2> QED BY <1>2, <1>3, <1>b, <2>1
<1>5. ASSUME NEW ts \in {<<>>} \cup {<<t>> : t \in Trips}, Step(ts) PROVE TransfersArrive'
 <2>1. PICK es : agenda' = [agenda EXCEPT ![now] = es] BY <1>5 DEF Step
 <2>2. now' = now /\ unlinked' = unlinked BY <1>5 DEF Step
 <2> QED BY <1>b, <2>1, <2>2
<1>6. ASSUME agenda' = Handled, now' = now, unlinked' = unlinked PROVE TransfersArrive'
  BY <1>6, <1>b DEF Handled
<1>7. ASSUME NEW d \in Durations, OnRequiredBike(d) PROVE TransfersArrive'
 <2>1. now + d \in AgendaTicks /\ ~(now + d < now)
  <3>1. d \in Nat BY CitiBikeAssumption
  <3> QED BY <1>2, <1>a, <3>1, Clock
 <2>2. now' = now /\ unlinked' = unlinked BY <1>7 DEF OnRequiredBike
 <2>3. agenda' = Handled \/ \E e : agenda' = Plan(now + d, e) BY <1>7 DEF OnRequiredBike
 <2> QED BY <1>4, <1>6, <2>1, <2>2, <2>3
<1>8. CASE OnArrival BY <1>6, <1>8 DEF OnArrival
<1>9. CASE OnRebalance
 <2>1. PICK es : agenda' = [agenda EXCEPT ![now] = es] BY <1>9 DEF OnRebalance
 <2>2. now' = now /\ unlinked' = unlinked BY <1>9 DEF OnRebalance
 <2> QED BY <1>b, <2>1, <2>2
<1>10. CASE Decide
 <2>1. PICK es : agenda' = [agenda EXCEPT ![now] = es] BY <1>10 DEF Decide
 <2>2. now' = now /\ unlinked' = unlinked BY <1>10 DEF Decide
 <2> QED BY <1>b, <2>1, <2>2
<1>11. CASE DecideNothing BY <1>6, <1>11 DEF DecideNothing
<1>12. ASSUME NEW t \in TransferTimes, now + t \in AgendaTicks, OnAction(t) PROVE TransfersArrive'
 <2>1. t \in Int /\ t > 0 BY CitiBikeAssumption DEF Later
 <2>2. now + t # now /\ ~(now + t < now)
  <3>1. now \in Int BY <1>a
  <3> QED BY <2>1, <3>1
 <2>3. now' = now BY <1>12 DEF OnAction
 <2>4. (agenda' = Handled \/ \E e : agenda' = Plan(now + t, e)) /\ unlinked' = unlinked
   BY <1>12, <2>2 DEF OnAction, TransferPlanned
 <2> QED BY <1>4, <1>6, <1>12, <2>2, <2>3, <2>4
<1>13. CASE PostStep
 <2>1. agenda[now] = <<>> /\ agenda' = agenda /\ unlinked' = unlinked /\ now' \in {now, now + 1}
   BY <1>13 DEF PostStep
 <2>2. \A t \in AgendaTicks : t < now' => t < now \/ t = now
  <3>1. ASSUME NEW t \in Int, NEW n \in Int, NEW m \in {n, n + 1}, t < m PROVE t < n \/ t = n
    BY <3>1
  <3>2. now \in Int /\ \A t \in AgendaTicks : t \in Int BY <1>a
  <3> QED BY <2>1, <3>1, <3>2
 <2> QED BY <1>1, <2>1, <2>2 DEF TransfersArrive
<1>14. CASE Reset BY <1>14 DEF Reset, TransfersArrive
<1>15. CASE UNCHANGED vars BY <1>15 DEF vars, TransfersArrive
<1> QED BY <1>5, <1>7, <1>8, <1>9, <1>10, <1>11, <1>12, <1>13, <1>14, <1>15 DEF Next

(***************************************************************************)
(* Where every transfer takes at least a tick none is lost: each is handled*)
(* at a tick to come (TransfersArrive, which fails where rounding the      *)
(* transfer time may give zero or less).                                   *)
(***************************************************************************)
THEOREM LateTransfersArrive == Later => (Spec => []TransfersArrive)
<1> SUFFICES ASSUME Later PROVE Spec => []TransfersArrive
  OBVIOUS
<1>1. Init => TransfersArrive BY DEF Init, TransfersArrive
<1>2. BikesInv /\ TransfersArrive /\ [Next]_vars => TransfersArrive' BY NothingLeftBehind
<1> QED BY <1>1, <1>2, InitBikesInv, BikesStep, PTL DEF Spec

(***************************************************************************)
(* Then the bikes at the stations and in the events of this tick and of    *)
(* those to come are at every moment the ones there were at first          *)
(* (BikesAccounted).                                                       *)
(***************************************************************************)
THEOREM BikesAreAccounted == Later => (Spec => []BikesAccounted)
<1> SUFFICES ASSUME Later PROVE Spec => []BikesAccounted
  OBVIOUS
<1>1. BikesInv /\ TransfersArrive => BikesAccounted
 <2> SUFFICES ASSUME BikesInv, TransfersArrive PROVE BikesAccounted
   OBVIOUS
 <2> DEFINE f == [t \in AgendaTicks |-> CarriedBy(agenda[t])]
            past == {t \in AgendaTicks : ~(t >= now)}
            rest == {t \in AgendaTicks : t >= now}
 <2>1. BikeBook /\ WithinCapacity /\ unlinked = <<>> /\ now \in AgendaTicks /\ agenda \in Agendas
       /\ \A t \in AgendaTicks : t < now => agenda[t] = <<>>
   BY AtNow DEF BikesInv, TransfersArrive
 <2>2. CarriedBy(<<>>) = 0
  <3>1. Sum(BikeLoad, <<>>) = 0 /\ <<>> \in Seq(BikeEvent) BY BikeLoads, SumOfEvents
  <3> QED BY <3>1, BikeLoads
 <2>3. \A t \in AgendaTicks : f[t] \in Int BY <2>1, WaitingBikes
 <2>4. \A t \in past : f[t] = 0
  <3>1. \A t \in past : t \in AgendaTicks /\ t < now BY <2>1, Clock
  <3> QED BY <2>1, <2>2, <3>1
 <2>5. IsFiniteSet(AgendaTicks) /\ IsFiniteSet(past) /\ rest \subseteq AgendaTicks /\ past = AgendaTicks \ rest
   BY Clock, FS_Subset
 <2>6. OnTheWay(agenda) = SumFunctionOnSet(f, AgendaTicks) BY DEF OnTheWay
 <2> HIDE DEF f, past, rest
 <2>7. SumFunctionOnSet(f, AgendaTicks) = SumFunctionOnSet(f, rest) + SumFunctionOnSet(f, past)
   BY <2>3, <2>5, SumSplits
 <2>8. SumFunctionOnSet(f, past) = 0 BY <2>4, <2>5, SumOfZeros
 <2>9. SumFunctionOnSet(f, rest) \in Int
  <3>1. IsFiniteSet(rest) /\ \A t \in rest : f[t] \in Int BY <2>3, <2>5, FS_Subset
  <3> QED BY <3>1, SumRecursion
 <2>10. SumFunctionOnSet(f, rest) = OnTheWay(agenda) BY <2>6, <2>7, <2>8, <2>9
 <2>11. SumFunctionOnSet(bikes, Stations) \in Nat
  <3>1. bikes \in [Stations -> Nat] /\ \A x \in Stations : bikes[x] <= Capacity[x]
    BY StationFacts DEF BikesInv, BikeTypeOK, WithinCapacity
  <3> QED BY <3>1, AllDocks
 <2>12. SumFunctionOnSet(bikes, Stations) + OnTheWay(agenda) = SumFunctionOnSet(InitBikes, Stations)
   BY <2>1, <2>2, <2>6, <2>9, <2>10, <2>11 DEF BikeBook
 <2>13. BikesConserved BY <2>10, <2>12 DEF BikesConserved, f, rest
 <2> QED BY <2>1, <2>13 DEF BikesAccounted
<1>2. Init => BikesInv /\ TransfersArrive BY InitBikesInv DEF Init, TransfersArrive
<1>3. BikesInv /\ TransfersArrive /\ [Next]_vars => BikesInv' /\ TransfersArrive'
  BY BikesStep, NothingLeftBehind
<1> QED BY <1>1, <1>2, <1>3, PTL DEF Spec

-----------------------------------------------------------------------------
(* The cache of the trip filter.                                           *)

LEMMA SameFrame ==
  ASSUME BikeCache, UNCHANGED <<now, pc, cache>>,
         \A k \in DOMAIN snapshots : k # FrameIndex => snapshots'[k] = snapshots[k],
         DOMAIN cache \subseteq DOMAIN snapshots, FrameIndex \in Int, DOMAIN cache \subseteq Int,
         FrameIndex \in DOMAIN cache /\ pc = "execute" => trips' = trips /\ NoTrip(agenda'[now])
  PROVE  BikeCache'
<1>1. FrameIndex' = FrameIndex BY DEF FrameIndex
<1>2. CacheShowsFrames' BY <1>1 DEF BikeCache, CacheShowsFrames
<1>3. FrameIndex' \in DOMAIN cache' =>
        /\ (now' + 1) % SnapshotResolution = 0
        /\ pc' \in {"execute", "end"}
        /\ pc' = "execute" => cache'[FrameIndex'] = trips' /\ NoTrip(agenda'[now'])
  BY <1>1 DEF BikeCache
<1> QED BY <1>2, <1>3 DEF BikeCache

LEMMA CacheStep ==
  ASSUME Aligned, BikesInv, BikeCache, [Next]_vars
  PROVE  BikeCache'
<1>1. /\ now \in Nat /\ FrameIndex \in Nat /\ BikeTypeOK
      /\ DOMAIN cache \subseteq DOMAIN snapshots /\ DOMAIN snapshots \subseteq 0 .. FrameIndex
  BY Frames DEF BikesInv, BikeTypeOK
<1>2. DOMAIN cache \subseteq Int BY <1>1
<1>3. ASSUME UNCHANGED <<now, pc, cache, snapshots, trips>>,
             NoTrip(agenda[now]) => NoTrip(agenda'[now])
      PROVE  BikeCache'
  BY <1>1, <1>2, <1>3, SameFrame DEF BikeCache
<1>4. ASSUME agenda' = Handled, agenda[now] # <<>> PROVE NoTrip(agenda[now]) => NoTrip(agenda'[now])
  BY <1>4, AtNow, FirstHandled, QueueShrinks
<1>5. ASSUME NEW ts \in {<<>>} \cup {<<t>> : t \in Trips}, Step(ts) PROVE BikeCache'
 <2>1. /\ pc = "step" /\ pc' = "execute" /\ now' = now /\ cache' = cache /\ snapshots' = snapshots
   BY <1>5 DEF Step
 <2>2. FrameIndex \notin DOMAIN cache /\ FrameIndex' = FrameIndex
   BY <2>1 DEF BikeCache, FrameIndex
 <2>3. CacheShowsFrames' BY <2>1, <2>2 DEF BikeCache, CacheShowsFrames
 <2> QED BY <2>1, <2>2, <2>3 DEF BikeCache
<1>6. ASSUME NEW d \in Durations, OnRequiredBike(d) PROVE BikeCache'
 <2>1. /\ pc = "execute" /\ agenda[now] # <<>> /\ Head(agenda[now]).type = "RequireBike"
       /\ UNCHANGED <<now, pc, snapshots, cache>>
   BY <1>6 DEF OnRequiredBike, NextIs
 <2>2. ~ NoTrip(agenda[now])
  <3>1. agenda[now] \in Seq(BikeEvent) BY AtNow
  <3>2. 1 \in DOMAIN agenda[now] /\ agenda[now][1] = Head(agenda[now]) BY <2>1, <3>1
  <3> QED BY <2>1, <3>2 DEF NoTrip
 <2>3. FrameIndex \notin DOMAIN cache BY <2>1, <2>2 DEF BikeCache
 <2> QED BY <1>1, <1>2, <2>1, <2>3, SameFrame
<1>7. CASE OnArrival BY <1>3, <1>4, <1>7 DEF OnArrival, NextIs
<1>8. CASE OnRebalance
 <2>1. NoTrip(agenda'[now]) BY <1>8, RebalanceKeeps
 <2> QED BY <1>3, <1>8, <2>1 DEF OnRebalance
<1>9. CASE Decide
 <2>1. /\ pc = "execute" /\ UNCHANGED <<now, pc, trips>>
       /\ snapshots' = WithSnapshot /\ cache' = LookedUp(WithSnapshot)
   BY <1>9 DEF Decide, NextIs
 <2>2. IsDecisionTick /\ NoTrip(agenda'[now]) BY <1>9, DecideKeeps
 <2>3. (now + 1) % SnapshotResolution = 0
  <3>1. now + 1 \in Nat /\ DecisionResolution \in Nat \ {0} /\ SnapshotResolution \in Nat \ {0}
    BY <1>1, CitiBikeAssumption
  <3> QED BY <2>2, <3>1, DivisionChain DEF IsDecisionTick, Aligned
 <2>4. FrameIndex' = FrameIndex BY <2>1 DEF FrameIndex
 <2>5. /\ DOMAIN cache' \subseteq DOMAIN WithSnapshot
       /\ cache'[FrameIndex] = trips
       /\ \A k \in DOMAIN cache' : k # FrameIndex =>
            cache'[k] = IF k \in DOMAIN cache THEN cache[k] ELSE snapshots[k]
   BY <1>1, <2>1, Lookup
 <2>6. /\ DOMAIN WithSnapshot = DOMAIN snapshots \cup {FrameIndex}
       /\ DOMAIN WithSnapshot \subseteq 0 .. FrameIndex
       /\ \A k \in DOMAIN snapshots : k # FrameIndex => WithSnapshot[k] = snapshots[k]
   BY <1>1, Frames
 <2>7. CacheShowsFrames'
  <3> SUFFICES ASSUME NEW k \in DOMAIN cache', k < FrameIndex
               PROVE  cache'[k] = snapshots'[k]
    BY <2>4 DEF CacheShowsFrames
  <3>1. k \in DOMAIN snapshots /\ k # FrameIndex BY <1>1, <2>5, <2>6
  <3>2. k \in DOMAIN cache => cache[k] = snapshots[k] BY DEF BikeCache, CacheShowsFrames
  <3> QED BY <2>1, <2>5, <2>6, <3>1, <3>2
 <2>8. cache'[FrameIndex'] = trips' /\ NoTrip(agenda'[now']) BY <2>1, <2>2, <2>4, <2>5
 <2> QED BY <2>1, <2>3, <2>7, <2>8 DEF BikeCache
<1>10. CASE DecideNothing
 <2>1. /\ pc = "execute" /\ UNCHANGED <<now, pc, trips, cache>>
       /\ snapshots' = WithSnapshot /\ agenda' = Handled /\ agenda[now] # <<>>
   BY <1>10 DEF DecideNothing, NextIs
 <2>2. NoTrip(agenda[now]) => NoTrip(agenda'[now]) BY <1>4, <2>1
 <2>3. \A k \in DOMAIN snapshots : k # FrameIndex => snapshots'[k] = snapshots[k]
   BY <1>1, <2>1, Frames
 <2> QED BY <1>1, <1>2, <2>1, <2>2, <2>3, SameFrame DEF BikeCache
<1>11. ASSUME NEW t \in TransferTimes, now + t \in AgendaTicks, OnAction(t) PROVE BikeCache'
 <2> DEFINE a == Head(agenda[now])
            n == Executed(a)
            e == [type |-> "DeliverBike", from |-> a.from, to |-> a.to, n |-> n]
 <2>1. /\ agenda[now] # <<>> /\ a.type = "ACTION" /\ UNCHANGED <<now, pc, trips, snapshots, cache>>
       /\ agenda' = Handled \/ (n > 0 /\ agenda' = Plan(now + t, e))
   BY <1>11 DEF OnAction, NextIs, TransferPlanned
 <2>2. e \in Arrivals
  <3>1. a \in BikeEvent BY <2>1, FirstHandled
  <3>2. a \in Actions BY <2>1, <3>1, EventKinds
  <3>3. a.from \in Stations /\ a.to \in Stations /\ a.n \in Nat BY <3>2 DEF Actions
  <3>4. bikes[a.from] \in Nat BY <1>1, <3>3 DEF BikeTypeOK
  <3> HIDE DEF a
  <3>5. n \in Nat BY <3>3, <3>4, LeastOfTwo DEF Executed
  <3> HIDE DEF n
  <3> QED BY <3>3, <3>5 DEF Arrivals
 <2> HIDE DEF e
 <2>3. NoTrip(agenda[now]) => NoTrip(agenda'[now])
   BY <1>4, <1>11, <2>1, <2>2, ArrivalPlanned
 <2> QED BY <1>3, <2>1, <2>3
<1>12. CASE PostStep
 <2> DEFINE ends == (now + 1) % SnapshotResolution = 0
 <2>1. /\ pc = "execute" /\ cache' = cache
       /\ snapshots' = IF ends \/ now = MaxTick THEN WithSnapshot ELSE snapshots
       /\ \/ pc' = "end" /\ now' = now
          \/ pc' = "step" /\ now' = now + 1
   BY <1>12 DEF PostStep
 <2>2. /\ DOMAIN WithSnapshot = DOMAIN snapshots \cup {FrameIndex}
       /\ WithSnapshot[FrameIndex] = trips
       /\ \A k \in DOMAIN snapshots : k # FrameIndex => WithSnapshot[k] = snapshots[k]
   BY <1>1, Frames
 <2>3. \A k \in DOMAIN snapshots : k # FrameIndex => snapshots'[k] = snapshots[k]
   BY <2>1, <2>2
 <2>4. \A k \in DOMAIN cache : k < FrameIndex => cache'[k] = snapshots'[k]
   BY <1>1, <2>1, <2>3 DEF BikeCache, CacheShowsFrames
 <2>5. CASE pc' = "end"
  <3>1. FrameIndex' = FrameIndex /\ now' = now BY <2>1, <2>5 DEF FrameIndex
  <3>2. CacheShowsFrames' BY <2>1, <2>4, <3>1 DEF CacheShowsFrames
  <3> QED BY <2>1, <2>5, <3>1, <3>2 DEF BikeCache
 <2>6. CASE pc' = "step"
  <3>1. now' = now + 1 BY <2>1, <2>6
  <3>2. FrameIndex' = IF ends THEN FrameIndex + 1 ELSE FrameIndex
   <4>1. SnapshotResolution \in Nat \ {0} BY CitiBikeAssumption
   <4> QED BY <1>1, <3>1, <4>1, DivisionOfNext DEF FrameIndex
  <3>3. FrameIndex \in DOMAIN cache => ends /\ cache[FrameIndex] = trips
    BY <2>1 DEF BikeCache
  <3>4. FrameIndex' \notin DOMAIN cache BY <1>1, <3>2, <3>3
  <3>5. CacheShowsFrames'
   <4> SUFFICES ASSUME NEW k \in DOMAIN cache, k < FrameIndex' PROVE cache'[k] = snapshots'[k]
     BY <2>1 DEF CacheShowsFrames
   <4>1. CASE k < FrameIndex BY <2>4, <4>1
   <4>2. CASE ~(k < FrameIndex)
    <5>1. k = FrameIndex /\ ends BY <1>1, <3>2, <4>2
    <5>2. cache'[k] = trips /\ snapshots'[k] = trips BY <2>1, <2>2, <3>3, <5>1
    <5> QED BY <5>2
   <4> QED BY <4>1, <4>2
  <3> QED BY <2>1, <3>4, <3>5 DEF BikeCache
 <2> QED BY <2>1, <2>5, <2>6
<1>13. CASE Reset
 <2>1. DOMAIN cache' = {} BY <1>13 DEF Reset, Forgotten, Empty
 <2> QED BY <2>1 DEF BikeCache, CacheShowsFrames
<1>14. CASE UNCHANGED vars BY <1>3, <1>14 DEF vars
<1> QED BY <1>5, <1>6, <1>7, <1>8, <1>9, <1>10, <1>11, <1>12, <1>13, <1>14 DEF Next

(***************************************************************************)
(* Where every decision tick ends a frame, the trip filter never decides   *)
(* on a frame that it has read too early: what it keeps of a frame that is *)
(* over is what the snapshot of the frame shows.  Where the resolutions do *)
(* not fit, it reads a frame before it is over and keeps that.             *)
(***************************************************************************)
THEOREM CacheIsFaithful == Aligned => (Spec => []CacheShowsFrames)
<1> SUFFICES ASSUME Aligned PROVE Spec => []CacheShowsFrames
  OBVIOUS
<1>1. Init => BikeCache BY DEF Init, Empty, BikeCache, CacheShowsFrames
<1>2. BikesInv /\ BikeCache /\ [Next]_vars => BikeCache' BY CacheStep
<1>3. BikeCache => CacheShowsFrames BY DEF BikeCache
<1> QED BY <1>1, <1>2, <1>3, InitBikesInv, BikesStep, PTL DEF Spec

=============================================================================
