------------------------- MODULE EventSource_proofs -------------------------
(***************************************************************************)
(* Proofs about the source of events: the Mach rights of the exceptions    *)
(* (ExceptionRights) and the polls of the main thread (EventSource).       *)
(***************************************************************************)
EXTENDS ExceptionRights, EventSource, TLAPS

-----------------------------------------------------------------------------
(***************************************************************************)
(* The Mach rights of an exception are balanced, for every finite set of   *)
(* threads, every set of request contents and every capture limit.         *)
(*                                                                         *)
(* The balance is not inductive.  That a request leaves the channel once   *)
(* needs the channel to hold each request at most once and only requests   *)
(* placed there; that TearDown releases one thread right per queued        *)
(* request needs the listener to forward only requests that carry one.     *)
(***************************************************************************)

\* The channel holds the requests placed in it, each once.
ChannelHolds ==
    /\ \A i \in 1 .. Len(queue) : queue[i] \in Threads => place[queue[i]] = "channel"
    /\ \A i, j \in 1 .. Len(queue) : queue[i] \in Threads /\ queue[i] = queue[j] => i = j

\* A forwarded request carries the thread's port.
ForwardedHasPorts == \A t \in Threads : place[t] = "channel" => form[t].descriptors = "ports"

RightsInv == RightsTypeOK /\ ChannelHolds /\ ForwardedHasPorts /\ RightsAreBalanced

-----------------------------------------------------------------------------

(* get_task_threads lists every thread.                                    *)
LEMMA ListingIsComplete ==
  ASSUME NEW s \in Orders \cup {<<>>}
  PROVE  /\ s \in Seq(Threads)
         /\ \A t \in Threads : t \in Range(s) <=> s # <<>>
<1>1. CASE s = <<>>
  BY <1>1 DEF Range
<1>2. CASE s # <<>>
  <2> DEFINE n == Cardinality(Threads)
  <2>1. n \in Nat
    BY RightsAssumption
  <2>2. s \in [1 .. n -> Threads] /\ \A t \in Threads : \E i \in 1 .. n : s[i] = t
    BY <1>2 DEF Orders, Bijection, Injection, Surjection
  <2>3. s \in Seq(Threads)
    BY <2>1, <2>2
  <2> HIDE DEF n
  <2>4. ASSUME NEW t \in Threads PROVE t \in Range(s)
    <3>1. PICK i \in 1 .. n : s[i] = t
      BY <2>2
    <3>2. i \in DOMAIN s
      BY <2>2
    <3> QED
      BY <3>1, <3>2 DEF Range
  <2> QED
    BY <1>2, <2>3, <2>4
<1> QED
  BY <1>1, <1>2

(* inspect_all_threads keeps only threads it was given.                    *)
LEMMA RetainedAreListed ==
  ASSUME NEW s \in Seq(Threads), NEW c \in Threads \cup {Nobody}
  PROVE  /\ Retained(s, c) \in Seq(Threads)
         /\ Range(Retained(s, c)) \subseteq Range(s)
<1>0. MaxCaptured \in Nat /\ MaxCaptured >= 1 /\ Len(s) \in Nat
  BY RightsAssumption
<1>1. CASE Len(s) <= MaxCaptured
  BY <1>1 DEF Retained
<1>2. CASE Len(s) > MaxCaptured /\ \E i \in 1 .. Len(s) : i > MaxCaptured /\ s[i] = c
  <2> DEFINE r == SubSeq(s, 1, MaxCaptured - 1)
  <2>1. Retained(s, c) = Append(r, c)
    BY <1>0, <1>2 DEF Retained
  <2>2. c \in Threads /\ c \in Range(s)
    BY <1>2 DEF Range
  <2>3. r \in Seq(Threads) /\ Len(r) = MaxCaptured - 1
        /\ \A i \in 1 .. MaxCaptured - 1 : r[i] = s[i]
    BY <1>0, <1>2
  <2> HIDE DEF r
  <2>4. Append(r, c) \in Seq(Threads)
    BY <2>2, <2>3
  <2>5. ASSUME NEW i \in DOMAIN Append(r, c) PROVE Append(r, c)[i] \in Range(s)
    <3>1. i \in 1 .. MaxCaptured
      BY <1>0, <2>2, <2>3
    <3>2. CASE i = MaxCaptured
      BY <1>0, <2>2, <2>3, <3>2
    <3>3. CASE i # MaxCaptured
      <4>1. Append(r, c)[i] = s[i] /\ i \in DOMAIN s
        BY <1>0, <1>2, <2>2, <2>3, <3>1, <3>3
      <4> QED
        BY <4>1 DEF Range
    <3> QED
      BY <3>2, <3>3
  <2> QED
    BY <2>1, <2>4, <2>5 DEF Range
<1>3. CASE Len(s) > MaxCaptured /\ ~ \E i \in 1 .. Len(s) : i > MaxCaptured /\ s[i] = c
  <2> DEFINE r == SubSeq(s, 1, MaxCaptured)
  <2>1. Retained(s, c) = r
    BY <1>0, <1>3 DEF Retained
  <2>2. r \in Seq(Threads) /\ Len(r) = MaxCaptured /\ \A i \in 1 .. MaxCaptured : r[i] = s[i]
    BY <1>0, <1>3
  <2> HIDE DEF r
  <2>3. ASSUME NEW i \in DOMAIN r PROVE r[i] \in Range(s)
    <3>1. r[i] = s[i] /\ i \in DOMAIN s
      BY <1>0, <1>3, <2>2
    <3> QED
      BY <3>1 DEF Range
  <2> QED
    BY <2>1, <2>2, <2>3 DEF Range
<1> QED
  BY <1>0, <1>1, <1>2, <1>3

-----------------------------------------------------------------------------

(* An appended request is the last one; the others keep their places.   *)
LEMMA QueueAppends ==
  ASSUME NEW S, NEW q \in Seq(S), NEW e \in S
  PROVE  /\ Append(q, e) \in Seq(S)
         /\ \A i \in 1 .. Len(Append(q, e)) :
               \/ i \in 1 .. Len(q) /\ Append(q, e)[i] = q[i]
               \/ i = Len(q) + 1 /\ Append(q, e)[i] = e
OBVIOUS

(* The head is the first request; the others move one place forward.    *)
LEMMA QueueRemoves ==
  ASSUME NEW S, NEW q \in Seq(S), q # <<>>
  PROVE  /\ Head(q) = q[1] /\ Head(q) \in S /\ 1 \in 1 .. Len(q)
         /\ Tail(q) \in Seq(S)
         /\ \A i \in 1 .. Len(Tail(q)) : i + 1 \in 1 .. Len(q) /\ i + 1 # 1 /\ Tail(q)[i] = q[i + 1]
OBVIOUS

(* One more "fatal" in the channel changes nothing.                        *)
LEMMA FatalKeepsChannel ==
  ASSUME RightsTypeOK, ChannelHolds, Fatal,
         \A t \in Threads : place[t] = "channel" => place'[t] = "channel"
  PROVE  /\ queue' \in Seq(Threads \cup {"fatal"})
         /\ ChannelHolds'
<1>1. CASE queue' = queue
  BY <1>1 DEF RightsTypeOK, ChannelHolds
<1>2. CASE queue' = Append(queue, "fatal")
  <2>1. /\ queue' \in Seq(Threads \cup {"fatal"})
        /\ \A i \in 1 .. Len(queue') :
             \/ i \in 1 .. Len(queue) /\ queue'[i] = queue[i]
             \/ i = Len(queue) + 1 /\ queue'[i] = "fatal"
    BY <1>2, QueueAppends DEF RightsTypeOK
  <2>2. "fatal" \notin Threads
    BY RightsAssumption
  <2>3. ASSUME NEW i \in 1 .. Len(queue'), queue'[i] \in Threads PROVE place'[queue'[i]] = "channel"
    BY <2>1, <2>2, <2>3 DEF ChannelHolds
  <2>4. ASSUME NEW i \in 1 .. Len(queue'), NEW j \in 1 .. Len(queue'), queue'[i] \in Threads, queue'[i] = queue'[j]
        PROVE  i = j
    <3>1. i \in 1 .. Len(queue) /\ j \in 1 .. Len(queue) /\ queue'[i] = queue[i] /\ queue'[j] = queue[j]
      BY <2>1, <2>2, <2>4
    <3> QED
      BY <2>4, <3>1, Zenon DEF ChannelHolds
  <2> QED
    BY <2>1, <2>3, <2>4 DEF ChannelHolds
<1> QED
  BY <1>1, <1>2 DEF Fatal

(* The request at the head of the channel leaves it.                       *)
LEMMA HeadLeavesChannel ==
  ASSUME RightsTypeOK, ChannelHolds, queue # <<>>, Head(queue) \in Threads,
         queue' = Tail(queue),
         NEW p, place' = [place EXCEPT ![Head(queue)] = p]
  PROVE  /\ queue' \in Seq(Threads \cup {"fatal"})
         /\ ChannelHolds'
         /\ place[Head(queue)] = "channel"
<1>1. /\ Head(queue) = queue[1] /\ 1 \in 1 .. Len(queue)
      /\ queue' \in Seq(Threads \cup {"fatal"})
      /\ \A i \in 1 .. Len(queue') : i + 1 \in 1 .. Len(queue) /\ i + 1 # 1 /\ queue'[i] = queue[i + 1]
  BY QueueRemoves DEF RightsTypeOK
<1>2. place[Head(queue)] = "channel"
  BY <1>1 DEF ChannelHolds
<1>3. ASSUME NEW i \in 1 .. Len(queue'), queue'[i] \in Threads PROVE place'[queue'[i]] = "channel"
  BY <1>1, <1>3 DEF ChannelHolds, RightsTypeOK
<1>4. ASSUME NEW i \in 1 .. Len(queue'), NEW j \in 1 .. Len(queue'), queue'[i] \in Threads, queue'[i] = queue'[j]
      PROVE  i = j
  <2>1. i + 1 = j + 1
    BY <1>1, <1>4 DEF ChannelHolds
  <2> QED
    BY <2>1
<1> QED
  BY <1>1, <1>2, <1>3, <1>4 DEF ChannelHolds

-----------------------------------------------------------------------------

(* Dropping a request the monitor holds gives back exactly its rights.      *)
LEMMA DroppedIsBalanced ==
  ASSUME RightsTypeOK, RightsAreBalanced, NEW t \in Threads, NEW replied,
         place[t] \in {"listener", "channel", "loop"},
         Dropped(t, replied), UNCHANGED <<form, walkVars>>
  PROVE  /\ place' \in [Threads -> {"unsent", "port", "listener", "channel", "loop", "gone"}]
         /\ disposed' \in [Threads -> Nat] /\ refs' \in [Threads -> Nat]
         /\ RightsAreBalanced'
<1> DEFINE Held(u) == One(place[u] \in {"listener", "channel", "loop"} /\ form[u].descriptors = "ports")
           Listed(u) == One(walk \in {"listed", "inspected"} /\ u \in Range(listed))
<1>1. /\ place' = [place EXCEPT ![t] = "gone"]
      /\ disposed' = [disposed EXCEPT ![t] = @ + 1]
      /\ refs' = [refs EXCEPT ![t] = @ - Held(t)]
      /\ form' = form /\ walk' = walk /\ listed' = listed /\ lostPorts' = lostPorts
  BY DEF Dropped, Destroyed, One, walkVars
<1>2. \A u \in Threads : Held(u) \in {0, 1} /\ Listed(u) \in {0, 1} /\ lostPorts[u] \in Nat
  BY DEF One, RightsTypeOK
<1>3. \A u \in Threads : /\ disposed[u] = (IF place[u] = "gone" THEN 1 ELSE 0)
                         /\ refs[u] = lostPorts[u] + Held(u) + Listed(u)
  BY DEF RightsAreBalanced
<1>4. place' \in [Threads -> {"unsent", "port", "listener", "channel", "loop", "gone"}]
      /\ \A u \in Threads : place'[u] = IF u = t THEN "gone" ELSE place[u]
  BY <1>1 DEF RightsTypeOK
<1>5. \A u \in Threads : Held(u)' = (IF u = t THEN 0 ELSE Held(u)) /\ Listed(u)' = Listed(u)
  BY <1>1, <1>4 DEF One
<1>6. refs[t] - Held(t) \in Nat /\ refs[t] - Held(t) = lostPorts[t] + 0 + Listed(t)
  BY <1>2, <1>3
<1>8. refs' \in [Threads -> Nat] /\ \A u \in Threads : refs'[u] = IF u = t THEN refs[t] - Held(t) ELSE refs[u]
  BY <1>1, <1>6 DEF RightsTypeOK
<1>9. \A u \in Threads : refs'[u] = lostPorts'[u] + Held(u)' + Listed(u)'
  BY <1>1, <1>3, <1>5, <1>6, <1>8
<1>7. disposed' \in [Threads -> Nat] /\ \A u \in Threads : disposed'[u] = IF place'[u] = "gone" THEN 1 ELSE 0
  BY <1>1, <1>3, <1>4 DEF RightsTypeOK
<1> QED
  BY <1>4, <1>7, <1>8, <1>9 DEF RightsAreBalanced

(* Before the first exception there is no right to account for.         *)
LEMMA RightsInitially == RightsInit => RightsInv
<1> SUFFICES ASSUME RightsInit PROVE RightsInv
  OBVIOUS
<1>1. RightsTypeOK
  BY RightsAssumption DEF RightsInit, RightsTypeOK
<1>2. ChannelHolds /\ ForwardedHasPorts /\ RightsAreBalanced
  BY DEF RightsInit, ChannelHolds, ForwardedHasPorts, RightsAreBalanced, One
<1> QED
  BY <1>1, <1>2 DEF RightsInv

(* The listener.                                                           *)
LEMMA ListenerKeepsRights ==
  ASSUME RightsInv, Listener
  PROVE  RightsInv'
<1> USE DEF RightsInv
<1>1. ASSUME NEW t \in Threads, ReceiveMessage(t) PROVE RightsInv'
  <2> USE <1>1 DEF ReceiveMessage
  <2>1. RightsTypeOK'
    <3>1. One(form[t].descriptors = "ports") \in Nat
      BY DEF One
    <3>2. refs \in [Threads -> Nat] /\ refs' = [refs EXCEPT ![t] = @ + One(form[t].descriptors = "ports")]
      BY Zenon DEF RightsTypeOK
    <3>3. refs' \in [Threads -> Nat]
      <4> HIDE <1>1 DEF RightsInv, ReceiveMessage
      <4> QED
        BY <3>1, <3>2
    <3> QED
      BY <3>3, Zenon DEF RightsTypeOK, walkVars
  <2>2. ChannelHolds' /\ ForwardedHasPorts'
    BY Zenon DEF RightsTypeOK, ChannelHolds, ForwardedHasPorts
  <2>3. RightsAreBalanced'
    <3>1. /\ place[t] = "port" /\ place' = [place EXCEPT ![t] = "listener"]
          /\ place \in [Threads -> {"unsent", "port", "listener", "channel", "loop", "gone"}]
          /\ refs \in [Threads -> Nat] /\ lostPorts \in [Threads -> Nat]
          /\ refs' = [refs EXCEPT ![t] = @ + One(form[t].descriptors = "ports")]
          /\ UNCHANGED <<disposed, form, lostPorts, walk, listed>>
      BY Zenon DEF RightsTypeOK, walkVars
    <3>2. RightsAreBalanced
      BY Zenon
    <3> HIDE <1>1 DEF RightsInv, ReceiveMessage
    <3> QED
      BY <3>1, <3>2, SMTT(20) DEF RightsAreBalanced, One
  <2> QED
    BY <2>1, <2>2, <2>3
<1>2. ASSUME ReceiveMessageFails PROVE RightsInv'
  <2> USE <1>2 DEF ReceiveMessageFails
  <2>1. queue' \in Seq(Threads \cup {"fatal"}) /\ ChannelHolds'
    BY FatalKeepsChannel DEF messageVars
  <2>2. RightsTypeOK'
    BY <2>1 DEF RightsTypeOK, Fatal, messageVars, walkVars
  <2>3. ForwardedHasPorts' /\ RightsAreBalanced'
    BY DEF ForwardedHasPorts, RightsAreBalanced, messageVars, walkVars
  <2> QED
    BY <2>1, <2>2, <2>3
<1>3. ASSUME NEW t \in Threads, Forward(t) PROVE RightsInv'
  <2> USE <1>3 DEF Forward
  <2>1. CASE open
    <3>0. t \in Threads \cup {"fatal"} /\ queue \in Seq(Threads \cup {"fatal"}) /\ queue' = Append(queue, t)
      BY <2>1 DEF RightsTypeOK
    <3>1. /\ queue' \in Seq(Threads \cup {"fatal"})
          /\ \A i \in 1 .. Len(queue') :
               \/ i \in 1 .. Len(queue) /\ queue'[i] = queue[i]
               \/ i = Len(queue) + 1 /\ queue'[i] = t
      BY <3>0, QueueAppends
    <3>2. \A i \in 1 .. Len(queue) : queue[i] # t
      BY DEF ChannelHolds
    <3>3. RightsTypeOK'
      BY <2>1, <3>1, Zenon DEF RightsTypeOK, walkVars
    <3>4. ASSUME NEW i \in 1 .. Len(queue'), queue'[i] \in Threads PROVE place'[queue'[i]] = "channel"
      <4>1. place \in [Threads -> {"unsent", "port", "listener", "channel", "loop", "gone"}]
            /\ place' = [place EXCEPT ![t] = "channel"]
        BY Zenon, <2>1 DEF RightsTypeOK
      <4>2. place'[t] = "channel" /\ \A u \in Threads \ {t} : place'[u] = place[u]
        BY <1>3, <4>1
      <4>3. CASE i \in 1 .. Len(queue) /\ queue'[i] = queue[i]
        <5>1. queue[i] \in Threads /\ place[queue[i]] = "channel"
          BY <3>4, <4>3 DEF ChannelHolds
        <5> QED
          BY <4>2, <4>3, <5>1
      <4>4. CASE queue'[i] = t
        BY <4>2, <4>4
      <4> QED
        BY <3>1, <4>3, <4>4
    <3>5. ASSUME NEW i \in 1 .. Len(queue'), NEW j \in 1 .. Len(queue'), queue'[i] \in Threads, queue'[i] = queue'[j]
          PROVE  i = j
      BY <3>1, <3>2, <3>5, Zenon DEF ChannelHolds
    <3>6. ForwardedHasPorts'
      BY <2>1 DEF RightsTypeOK, ForwardedHasPorts, Parses
    <3>7. RightsAreBalanced'
      <4>1. /\ place[t] = "listener" /\ place' = [place EXCEPT ![t] = "channel"]
            /\ place \in [Threads -> {"unsent", "port", "listener", "channel", "loop", "gone"}]
            /\ UNCHANGED <<disposed, refs, form, lostPorts, walk, listed>>
        BY <2>1, Zenon DEF RightsTypeOK, walkVars
      <4>2. ASSUME NEW u \in Threads
            PROVE  /\ place'[u] = "gone" <=> place[u] = "gone"
                   /\ place'[u] \in {"listener", "channel", "loop"} <=> place[u] \in {"listener", "channel", "loop"}
        <5>1. CASE u = t
          BY <4>1, <5>1, Zenon
        <5>2. CASE u # t
          BY <4>1, <5>2, Zenon
        <5> QED
          BY <5>1, <5>2, Zenon
      <4> QED
        BY <4>1, <4>2, Zenon DEF RightsAreBalanced, One
    <3> QED
      BY <3>3, <3>4, <3>5, <3>6, <3>7, Zenon DEF ChannelHolds
  <2>2. CASE ~open
    <3>1. PICK replied \in BOOLEAN :
            Dropped(t, replied) /\ place[t] = "listener" /\ UNCHANGED <<form, walkVars>>
      BY <2>2, Zenon
    <3>2. /\ place' \in [Threads -> {"unsent", "port", "listener", "channel", "loop", "gone"}]
          /\ disposed' \in [Threads -> Nat] /\ refs' \in [Threads -> Nat]
          /\ RightsAreBalanced'
      BY <3>1, DroppedIsBalanced
    <3>3. RightsTypeOK'
      BY Zenon, <2>2, <3>2 DEF RightsTypeOK, walkVars
    <3>4. ChannelHolds' /\ ForwardedHasPorts'
      BY <2>2 DEF RightsTypeOK, ChannelHolds, ForwardedHasPorts, Dropped
    <3> QED
      BY <3>2, <3>3, <3>4
  <2> QED
    BY <2>1, <2>2
<1>4. ASSUME NEW t \in Threads, RejectMalformed(t) PROVE RightsInv'
  <2>1. PICK replied \in BOOLEAN :
          /\ place[t] = "listener" /\ Dropped(t, replied)
          /\ UNCHANGED <<form, open, loop, suspect, walkVars, polls>>
          /\ \/ receiver' = "receive" /\ UNCHANGED queue
             \/ Fatal
    BY <1>4, Zenon DEF RejectMalformed
  <2>2. queue' \in Seq(Threads \cup {"fatal"}) /\ ChannelHolds'
    <3>1. \A u \in Threads : place[u] = "channel" => place'[u] = "channel"
      BY <2>1 DEF RightsTypeOK, Dropped
    <3>2. CASE UNCHANGED queue
      BY <3>1, <3>2, Zenon DEF RightsTypeOK, ChannelHolds
    <3>3. CASE Fatal
      BY <3>1, <3>3, FatalKeepsChannel
    <3> QED
      BY <2>1, <3>2, <3>3
  <2>3. /\ place' \in [Threads -> {"unsent", "port", "listener", "channel", "loop", "gone"}]
        /\ disposed' \in [Threads -> Nat] /\ refs' \in [Threads -> Nat]
        /\ RightsAreBalanced'
    BY <2>1, DroppedIsBalanced
  <2>4. RightsTypeOK'
    BY <2>1, <2>2, <2>3, Zenon DEF RightsTypeOK, Fatal, walkVars
  <2>5. ForwardedHasPorts'
    BY <2>1 DEF RightsTypeOK, ForwardedHasPorts, Dropped
  <2> QED
    BY <2>2, <2>3, <2>4, <2>5
<1> QED
  BY <1>1, <1>2, <1>3, <1>4 DEF Listener

(* The event loop and run_monitor.                                         *)
LEMMA EventLoopKeepsRights ==
  ASSUME RightsInv, EventLoop \/ TakeSnapshot \/ TakeEnd
  PROVE  RightsInv'
<1> USE DEF RightsInv
<1>1. CASE TakeFatal
  <2>1. /\ queue' \in Seq(Threads \cup {"fatal"})
        /\ \A i \in 1 .. Len(queue') : i + 1 \in 1 .. Len(queue) /\ i + 1 # 1 /\ queue'[i] = queue[i + 1]
    BY <1>1, QueueRemoves DEF TakeFatal, RightsTypeOK
  <2>2. RightsTypeOK'
    BY <1>1, <2>1, Zenon DEF TakeFatal, RightsTypeOK, messageVars, walkVars
  <2>3. ASSUME NEW i \in 1 .. Len(queue'), queue'[i] \in Threads PROVE place'[queue'[i]] = "channel"
    BY <1>1, <2>1, <2>3 DEF TakeFatal, ChannelHolds, messageVars
  <2>4. ASSUME NEW i \in 1 .. Len(queue'), NEW j \in 1 .. Len(queue'), queue'[i] \in Threads, queue'[i] = queue'[j]
        PROVE  i = j
    <3>0. /\ i + 1 \in 1 .. Len(queue) /\ queue'[i] = queue[i + 1]
          /\ j + 1 \in 1 .. Len(queue) /\ queue'[j] = queue[j + 1]
      BY <2>1, Zenon
    <3>1. i + 1 = j + 1
      BY <2>4, <3>0, Zenon DEF ChannelHolds
    <3> HIDE DEF RightsInv
    <3> QED
      BY <3>1
  <2>5. ForwardedHasPorts' /\ RightsAreBalanced'
    BY <1>1 DEF TakeFatal, ForwardedHasPorts, RightsAreBalanced, messageVars, walkVars
  <2> QED
    BY <2>2, <2>3, <2>4, <2>5, Zenon DEF ChannelHolds
<1>2. CASE TakeIgnored
  <2> DEFINE t == Head(queue)
  <2>1. PICK replied \in BOOLEAN :
          /\ queue # <<>> /\ t \in Threads /\ queue' = Tail(queue)
          /\ Dropped(t, replied) /\ loop' = (IF replied THEN "idle" ELSE "returned")
          /\ UNCHANGED <<form, receiver, open, suspect, walkVars, polls>>
    BY <1>2 DEF TakeIgnored
  <2>2. place' = [place EXCEPT ![t] = "gone"]
    BY <2>1 DEF Dropped
  <2>3. queue' \in Seq(Threads \cup {"fatal"}) /\ ChannelHolds' /\ place[t] = "channel"
    BY <2>1, <2>2, HeadLeavesChannel, Zenon
  <2> HIDE DEF t
  <2>4. /\ place' \in [Threads -> {"unsent", "port", "listener", "channel", "loop", "gone"}]
        /\ disposed' \in [Threads -> Nat] /\ refs' \in [Threads -> Nat]
        /\ RightsAreBalanced'
    BY <2>1, <2>3, DroppedIsBalanced
  <2>5. RightsTypeOK'
    BY Zenon, <2>1, <2>3, <2>4 DEF RightsTypeOK, walkVars
  <2>6. ForwardedHasPorts'
    BY <2>1, <2>2 DEF RightsTypeOK, ForwardedHasPorts
  <2> QED
    BY <2>3, <2>4, <2>5, <2>6
<1>3. CASE TakeCrash
  <2> DEFINE t == Head(queue)
  <2>1. /\ queue # <<>> /\ t \in Threads /\ queue' = Tail(queue)
        /\ place' = [place EXCEPT ![t] = "loop"]
        /\ \/ walk = "off" /\ loop' = "capturing" /\ suspect' = t /\ walk' = "start"
           \/ loop' = "reply" /\ UNCHANGED <<suspect, walk>>
        /\ UNCHANGED <<form, disposed, refs, receiver, open, listed, lostPorts, polls>>
    BY <1>3 DEF TakeCrash, StartWalk
  <2>2. queue' \in Seq(Threads \cup {"fatal"}) /\ ChannelHolds' /\ place[t] = "channel"
    BY <2>1, HeadLeavesChannel, Zenon
  <2> HIDE DEF t
  <2>3. RightsTypeOK'
    BY <2>1, <2>2, Zenon DEF RightsTypeOK
  <2>4. ForwardedHasPorts'
    BY <2>1, <2>2 DEF RightsTypeOK, ForwardedHasPorts
  <2>5. RightsAreBalanced'
    BY Zenon, <2>1, <2>2 DEF RightsTypeOK, RightsAreBalanced, One
  <2> QED
    BY <2>2, <2>3, <2>4, <2>5
<1>4. CASE CaptureEnds
  <2>0. listed' \in Seq(Threads) /\ walk' \in {"off", "start", "listed", "inspected", "done"}
    <3>1. <<>> \in Seq(Threads)
      OBVIOUS
    <3> QED
      BY <1>4, <3>1, Zenon DEF CaptureEnds, RightsTypeOK
  <2>1. RightsTypeOK'
    BY <1>4, <2>0, Zenon DEF CaptureEnds, RightsTypeOK, messageVars, listenVars
  <2>2. ChannelHolds' /\ ForwardedHasPorts'
    BY <1>4, Zenon DEF CaptureEnds, ChannelHolds, ForwardedHasPorts, messageVars, listenVars
  <2>3. RightsAreBalanced'
    BY <1>4 DEF CaptureEnds, RightsAreBalanced, One, messageVars, Range
  <2> QED
    BY <2>1, <2>2, <2>3
<1>5. CASE DeferredReply
  <2>1. PICK t \in Threads, replied \in BOOLEAN : place[t] = "loop" /\ Dropped(t, replied)
    BY <1>5 DEF DeferredReply
  <2>2. loop' = "returned" /\ UNCHANGED <<form, listenVars, suspect, walkVars, polls>>
    BY <1>5 DEF DeferredReply
  <2>3. /\ place' \in [Threads -> {"unsent", "port", "listener", "channel", "loop", "gone"}]
        /\ disposed' \in [Threads -> Nat] /\ refs' \in [Threads -> Nat]
        /\ RightsAreBalanced'
    BY <2>1, <2>2, DroppedIsBalanced
  <2>4. RightsTypeOK'
    BY Zenon, <2>2, <2>3 DEF RightsTypeOK, listenVars, walkVars
  <2>5. ChannelHolds' /\ ForwardedHasPorts'
    BY <2>1, <2>2, Zenon DEF RightsTypeOK, ChannelHolds, ForwardedHasPorts, Dropped, listenVars
  <2> QED
    BY <2>3, <2>4, <2>5
<1>6. CASE TearDown
  <2>1. /\ open' = FALSE /\ queue' = <<>>
        /\ place' = [t \in Threads |-> IF place[t] \in {"port", "channel"} THEN "gone" ELSE place[t]]
        /\ disposed' = [t \in Threads |-> disposed[t] + One(place[t] \in {"port", "channel"})]
        /\ refs' = [t \in Threads |-> refs[t] - One(place[t] = "channel")]
        /\ UNCHANGED <<form, receiver, loop, suspect, walkVars, polls>>
    BY <1>6 DEF TearDown
  <2>2. \A t \in Threads : refs[t] - One(place[t] = "channel") \in Nat
    BY DEF RightsTypeOK, RightsAreBalanced, ForwardedHasPorts, One
  <2>3. RightsTypeOK'
    <3>1. refs' \in [Threads -> Nat]
      BY <2>1, <2>2
    <3>2. disposed' \in [Threads -> Nat]
      BY <2>1 DEF RightsTypeOK, One
    <3>3. place' \in [Threads -> {"unsent", "port", "listener", "channel", "loop", "gone"}]
      BY <2>1 DEF RightsTypeOK
    <3>4. queue' \in Seq(Threads \cup {"fatal"})
      BY <2>1
    <3> QED
      BY <2>1, <3>1, <3>2, <3>3, <3>4, Zenon DEF RightsTypeOK, walkVars
  <2>4. ChannelHolds' /\ ForwardedHasPorts'
    BY <2>1 DEF ChannelHolds, ForwardedHasPorts
  <2>5. RightsAreBalanced'
    <3> SUFFICES ASSUME NEW u \in Threads
                 PROVE  /\ disposed'[u] = (IF place'[u] = "gone" THEN 1 ELSE 0)
                        /\ refs'[u] = lostPorts'[u]
                              + One(place'[u] \in {"listener", "channel", "loop"}
                                      /\ form'[u].descriptors = "ports")
                              + One(walk' \in {"listed", "inspected"} /\ u \in Range(listed'))
      BY Zenon DEF RightsAreBalanced
    <3>1. /\ place'[u] = (IF place[u] \in {"port", "channel"} THEN "gone" ELSE place[u])
          /\ disposed'[u] = disposed[u] + One(place[u] \in {"port", "channel"})
          /\ refs'[u] = refs[u] - One(place[u] = "channel")
          /\ form' = form /\ lostPorts' = lostPorts /\ walk' = walk /\ listed' = listed
      BY <2>1, Zenon DEF walkVars
    <3>2. /\ disposed[u] = (IF place[u] = "gone" THEN 1 ELSE 0)
          /\ refs[u] = lostPorts[u]
                + One(place[u] \in {"listener", "channel", "loop"} /\ form[u].descriptors = "ports")
                + One(walk \in {"listed", "inspected"} /\ u \in Range(listed))
      BY Zenon DEF RightsAreBalanced
    <3>3. lostPorts[u] \in Nat /\ (place[u] = "channel" => form[u].descriptors = "ports")
      BY Zenon DEF RightsTypeOK, ForwardedHasPorts
    <3> HIDE DEF RightsInv
    <3> QED
      BY <3>1, <3>2, <3>3 DEF One
  <2> QED
    BY <2>3, <2>4, <2>5
<1>7. CASE TakeSnapshot
  <2>1. RightsTypeOK' /\ ChannelHolds' /\ ForwardedHasPorts'
    BY Zenon, <1>7 DEF TakeSnapshot, StartWalk, RightsTypeOK, ChannelHolds, ForwardedHasPorts, messageVars, listenVars
  <2>2. RightsAreBalanced'
    BY <1>7, Zenon DEF TakeSnapshot, StartWalk, RightsAreBalanced, One, messageVars
  <2> QED
    BY <2>1, <2>2
<1>8. CASE TakeEnd
  BY <1>8 DEF TakeEnd, RightsTypeOK, ChannelHolds, ForwardedHasPorts, RightsAreBalanced,
              messageVars, listenVars, walkVars
<1> QED
  BY <1>1, <1>2, <1>3, <1>4, <1>5, <1>6, <1>7, <1>8 DEF EventLoop

(* The thread collector.                                                   *)
LEMMA CollectorKeepsRights ==
  ASSUME RightsInv, Collector
  PROVE  RightsInv'
<1> USE DEF RightsInv
<1> DEFINE Held(u) == One(place[u] \in {"listener", "channel", "loop"} /\ form[u].descriptors = "ports")
<1>1. \A u \in Threads : Held(u) \in {0, 1} /\ lostPorts[u] \in Nat
  BY DEF One, RightsTypeOK
<1>2. \A u \in Threads :
         /\ disposed[u] = (IF place[u] = "gone" THEN 1 ELSE 0)
         /\ refs[u] = lostPorts[u] + Held(u) + One(walk \in {"listed", "inspected"} /\ u \in Range(listed))
  BY Zenon DEF RightsAreBalanced
<1>3. ChannelHolds' /\ ForwardedHasPorts'
  BY Zenon DEF Collector, GetTaskThreads, InspectAllThreads, CollectorPanics, ReleasePorts,
         ChannelHolds, ForwardedHasPorts, messageVars, listenVars
<1>4. CASE GetTaskThreads
  <2>1. PICK s \in Orders \cup {<<>>} :
          /\ walk = "start" /\ walk' = "listed" /\ listed' = s
          /\ refs' = [t \in Threads |-> refs[t] + One(s # <<>>)]
          /\ UNCHANGED <<messageVars, listenVars, loop, suspect, lostPorts, polls>>
    BY <1>4 DEF GetTaskThreads
  <2>2. s \in Seq(Threads) /\ \A t \in Threads : t \in Range(s) <=> s # <<>>
    BY ListingIsComplete
  <2>3. refs' \in [Threads -> Nat]
    BY <2>1 DEF RightsTypeOK, One
  <2>4. RightsTypeOK'
    BY <2>1, <2>2, <2>3, Zenon DEF RightsTypeOK, messageVars, listenVars
  <2>5. ASSUME NEW u \in Threads
        PROVE  refs'[u] = lostPorts[u] + Held(u) + One(u \in Range(listed'))
    <3>1. refs[u] = lostPorts[u] + Held(u) + 0
      BY <1>2, <2>1, Zenon DEF One
    <3>2. refs'[u] = refs[u] + One(u \in Range(listed'))
      BY <2>1, <2>2 DEF One
    <3> QED
      BY SMTT(20), <1>1, <3>1, <3>2 DEF One
  <2>6. RightsAreBalanced'
    BY <1>2, <2>1, <2>5 DEF RightsAreBalanced, messageVars
  <2> QED
    BY <1>3, <2>4, <2>6
<1>5. CASE InspectAllThreads
  <2> DEFINE kept == Retained(listed, suspect)
  <2>1. /\ walk = "listed" /\ walk' = "inspected" /\ listed' = kept
        /\ refs' = [t \in Threads |-> refs[t] - One(t \in Range(listed) \ Range(kept))]
        /\ UNCHANGED <<messageVars, listenVars, loop, suspect, lostPorts, polls>>
    BY <1>5 DEF InspectAllThreads
  <2>2. kept \in Seq(Threads) /\ Range(kept) \subseteq Range(listed)
    BY RetainedAreListed DEF RightsTypeOK
  <2> HIDE DEF kept
  <2>3. ASSUME NEW u \in Threads
        PROVE  /\ refs[u] - One(u \in Range(listed) \ Range(kept)) \in Nat
               /\ refs[u] - One(u \in Range(listed) \ Range(kept))
                    = lostPorts[u] + Held(u) + One(u \in Range(kept))
    <3>1. refs[u] = lostPorts[u] + Held(u) + One(u \in Range(listed))
      BY <1>2, <2>1, Zenon DEF One
    <3>2. Held(u) \in Nat /\ lostPorts[u] \in Nat
      BY <1>1
    <3> HIDE DEF Held
    <3> QED
      BY <2>2, <3>1, <3>2 DEF One
  <2>4. refs' \in [Threads -> Nat] /\ \A u \in Threads : refs'[u] = lostPorts[u] + Held(u) + One(u \in Range(listed'))
    BY <2>1, <2>3, Zenon
  <2>5. RightsTypeOK'
    BY <2>1, <2>2, <2>4, Zenon DEF RightsTypeOK, messageVars, listenVars
  <2>6. ASSUME NEW u \in Threads
        PROVE  /\ disposed'[u] = (IF place'[u] = "gone" THEN 1 ELSE 0)
               /\ refs'[u] = lostPorts'[u]
                       + One(place'[u] \in {"listener", "channel", "loop"} /\ form'[u].descriptors = "ports")
                       + One(walk' \in {"listed", "inspected"} /\ u \in Range(listed'))
    <3>1. UNCHANGED <<place, form, disposed, lostPorts>> /\ walk' = "inspected"
      BY <2>1 DEF messageVars
    <3>2. One(walk' \in {"listed", "inspected"} /\ u \in Range(listed')) = One(u \in Range(listed'))
      BY <3>1 DEF One
    <3>3. One(place'[u] \in {"listener", "channel", "loop"} /\ form'[u].descriptors = "ports") = Held(u)
      BY <3>1
    <3>4. disposed'[u] = (IF place'[u] = "gone" THEN 1 ELSE 0)
      BY <1>2, <3>1, Zenon
    <3>5. refs'[u] = lostPorts'[u] + Held(u) + One(u \in Range(listed'))
      BY <2>4, <3>1, Zenon
    <3> QED
      BY <3>2, <3>3, <3>4, <3>5, Zenon
  <2>7. RightsAreBalanced'
    BY <2>6, Zenon DEF RightsAreBalanced
  <2> QED
    BY <1>3, <2>5, <2>7
<1>6. CASE CollectorPanics
  <2>1. /\ walk = "listed" /\ walk' = "done" /\ listed' = <<>>
        /\ lostPorts' = [t \in Threads |-> lostPorts[t] + One(t \in Range(listed))]
        /\ UNCHANGED <<messageVars, refs, listenVars, loop, suspect, polls>>
    BY <1>6 DEF CollectorPanics
  <2>2. lostPorts' \in [Threads -> Nat]
    BY <2>1 DEF RightsTypeOK, One
  <2>3. RightsTypeOK'
    BY <2>1, <2>2 DEF RightsTypeOK, messageVars, listenVars
  <2>4. ASSUME NEW u \in Threads PROVE refs[u] = lostPorts'[u] + Held(u) + 0
    <3>1. refs[u] = lostPorts[u] + Held(u) + One(u \in Range(listed))
      BY <1>2, <2>1, Zenon DEF One
    <3>2. lostPorts'[u] = lostPorts[u] + One(u \in Range(listed))
      BY <2>1, Zenon
    <3>3. One(u \in Range(listed)) \in {0, 1}
      BY Zenon DEF One
    <3>4. Held(u) \in {0, 1} /\ lostPorts[u] \in Nat
      BY <1>1
    <3> HIDE DEF Held
    <3> QED
      BY <3>1, <3>2, <3>3, <3>4
  <2>5. RightsAreBalanced'
    BY <1>2, <2>1, <2>4, Zenon DEF RightsAreBalanced, messageVars, One
  <2> QED
    BY <1>3, <2>3, <2>5
<1>7. CASE ReleasePorts
  <2>1. /\ walk = "inspected" /\ walk' = "done"
        /\ refs' = [t \in Threads |-> refs[t] - One(t \in Range(listed))]
        /\ UNCHANGED <<messageVars, listenVars, loop, suspect, listed, lostPorts, polls>>
    BY <1>7 DEF ReleasePorts
  <2>2. ASSUME NEW u \in Threads
        PROVE  /\ refs[u] - One(u \in Range(listed)) \in Nat
               /\ refs[u] - One(u \in Range(listed)) = lostPorts[u] + Held(u) + 0
    <3>1. refs[u] = lostPorts[u] + Held(u) + One(u \in Range(listed))
      BY <1>2, <2>1, Zenon DEF One
    <3> QED
      BY <1>1, <3>1 DEF One
  <2>3. refs' \in [Threads -> Nat] /\ \A u \in Threads : refs'[u] = lostPorts[u] + Held(u) + 0
    BY <2>1, <2>2, Zenon
  <2>4. RightsTypeOK'
    BY <2>1, <2>3, Zenon DEF RightsTypeOK, messageVars, listenVars
  <2>5. RightsAreBalanced'
    BY <1>2, <2>1, <2>3, Zenon DEF RightsAreBalanced, messageVars, One
  <2> QED
    BY <1>3, <2>4, <2>5
<1> QED
  BY <1>4, <1>5, <1>6, <1>7 DEF Collector

-----------------------------------------------------------------------------

(* Every right is given back exactly once, for every number of threads and *)
(* every capture limit: RightsAreBalanced holds in every reachable state.  *)
THEOREM RightsBalanced == RightsSpec => []RightsAreBalanced
<1>1. ASSUME RightsInv, [RightsNext]_rightsVars PROVE RightsInv'
  <2>1. ASSUME NEW t \in Faulting, Raise(t) PROVE RightsInv'
    <3>1. t \in Threads
      BY RightsAssumption
    <3>a. RightsTypeOK'
      BY <1>1, <2>1, <3>1, Zenon DEF Raise, RightsInv, RightsTypeOK, listenVars, walkVars
    <3>b. /\ queue' = queue /\ place[t] # "channel" /\ place'[t] # "channel"
          /\ \A u \in Threads : u # t => place'[u] = place[u] /\ form'[u] = form[u]
      BY <1>1, <2>1, <3>1 DEF Raise, RightsInv, RightsTypeOK, listenVars
    <3>c. ChannelHolds'
      BY <1>1, <3>b, Zenon DEF RightsInv, ChannelHolds
    <3>d. ForwardedHasPorts'
      BY <1>1, <3>b, Zenon DEF RightsInv, ForwardedHasPorts
    <3>3. RightsAreBalanced'
      BY Zenon, <1>1, <2>1, <3>1 DEF Raise, RightsInv, RightsTypeOK, RightsAreBalanced, One, listenVars, walkVars
    <3> QED
      BY <3>a, <3>c, <3>d, <3>3, Zenon DEF RightsInv
  <2>2. CASE Listener
    BY <1>1, <2>2, ListenerKeepsRights
  <2>3. CASE EventLoop \/ TakeSnapshot \/ TakeEnd
    BY <1>1, <2>3, EventLoopKeepsRights
  <2>4. CASE Collector
    BY <1>1, <2>4, CollectorKeepsRights
  <2>5. CASE UNCHANGED rightsVars
    <3> USE <1>1, <2>5 DEF RightsInv, rightsVars, messageVars, listenVars, walkVars
    <3>1. RightsTypeOK'  BY Zenon DEF RightsTypeOK
    <3>2. ChannelHolds'  BY Zenon DEF ChannelHolds
    <3>3. ForwardedHasPorts'  BY Zenon DEF ForwardedHasPorts
    <3>4. RightsAreBalanced'  BY Zenon DEF RightsAreBalanced
    <3> QED  BY <3>1, <3>2, <3>3, <3>4
  <2> QED
    BY <1>1, <2>1, <2>2, <2>3, <2>4, <2>5 DEF RightsNext
<1>2. RightsInv => RightsAreBalanced
  BY DEF RightsInv
<1> QED
  BY <1>1, <1>2, RightsInitially, PTL DEF RightsSpec

-----------------------------------------------------------------------------
(***************************************************************************)
(* A reaped child's status is saved or delivered, a status is delivered    *)
(* only at the end, and a poll that began with a waitable child is before  *)
(* its waitpid, with the child still waitable, or was the last one.        *)
(***************************************************************************)
ChildEndInv ==
    /\ child = "reaped" => savedStatus = "status" \/ last = "terminated"
    /\ last = "terminated" => main = "done"
    /\ deadAtPoll = "yes" => main \in {"listener", "waitpid", "done"}
    /\ deadAtPoll = "yes" /\ main \in {"listener", "waitpid"}
         => child = "zombie" \/ savedStatus = "status"

\* What TerminationWins says of one step.
DeadChildWins ==
    main = "waitpid" /\ main' # main /\ deadAtPoll = "yes"
      => main' = "done" /\ last' \in {"terminated", "monitor failure"}

LEMMA ChildEndInit == Init => ChildEndInv
  BY Zenon DEF Init, ChildEndInv

\* The steps of the threads around the main one, and of the child.
LEMMA EnvironmentKeepsEnd == ChildEndInv /\ Environment => ChildEndInv' /\ main' = main
<1> SUFFICES ASSUME ChildEndInv, Environment
             PROVE  ChildEndInv' /\ main' = main
  OBVIOUS
<1>1. CASE ChildExits
  BY <1>1, Zenon DEF ChildExits, ChildEndInv, mainVars
<1>2. CASE ListenerEnds
  BY <1>2, Zenon DEF ListenerEnds, ChildEndInv, mainVars, osVars
<1>3. CASE Bridge
  BY <1>3, Zenon DEF Bridge, ChildEndInv, mainVars, osVars
<1>4. ASSUME NEW kind \in {"crash", "ignored"}, ReceiveException(kind)
      PROVE  ChildEndInv' /\ main' = main
  BY <1>4, Zenon DEF ReceiveException, ChildEndInv, mainVars, osVars
<1>5. ASSUME NEW s \in Signals, MonitorSignalHandler(s)
      PROVE  ChildEndInv' /\ main' = main
  BY <1>5, Zenon DEF MonitorSignalHandler, ChildEndInv, mainVars, osVars
<1> QED
  BY <1>1, <1>2, <1>3, <1>4, <1>5, Zenon DEF Environment

LEMMA StepKeepsEnd == ChildEndInv /\ [Next]_vars => ChildEndInv' /\ DeadChildWins
<1> SUFFICES ASSUME ChildEndInv, [Next]_vars
             PROVE  ChildEndInv' /\ DeadChildWins
  OBVIOUS
<1>1. CASE NewSource
  BY <1>1, Zenon DEF NewSource, ChildEndInv, DeadChildWins
<1>2. CASE PollStart
  BY <1>2, Zenon DEF PollStart, ChildEndInv, DeadChildWins, osVars
<1>3. CASE PollListener
  BY <1>3, Zenon DEF PollListener, ChildEndInv, DeadChildWins, osVars
<1>4. CASE PollChild
  BY <1>4, Zenon DEF PollChild, Deliver, Continuing, ChildEndInv, DeadChildWins, osVars
<1>5. CASE DrainSignalPipe
  BY <1>5, Zenon DEF DrainSignalPipe, ChildEndInv, DeadChildWins, osVars
<1>6. CASE PopSignal
  BY <1>6, Zenon DEF PopSignal, Deliver, Continuing, ChildEndInv, DeadChildWins, osVars
<1>7. CASE Wakeup
  BY <1>7, Zenon DEF Wakeup, ChildEndInv, DeadChildWins, osVars
<1>8. CASE Timeout
  BY <1>8, Zenon DEF Timeout, ChildEndInv, DeadChildWins, osVars
<1>9. CASE SourceFails
  BY <1>9, Zenon DEF SourceFails, Deliver, Continuing, ChildEndInv, DeadChildWins, osVars
<1>10. CASE Environment
  BY <1>10, EnvironmentKeepsEnd, Zenon DEF DeadChildWins
<1>11. CASE UNCHANGED vars
  BY <1>11, Zenon DEF vars, osVars, mainVars, ChildEndInv, DeadChildWins
<1> QED
  BY <1>1, <1>2, <1>3, <1>4, <1>5, <1>6, <1>7, <1>8, <1>9, <1>10, <1>11, Zenon DEF Next, Main

-----------------------------------------------------------------------------

(* The child's end is neither lost nor overtaken: a reaped child's status  *)
(* is saved or delivered, and a poll that begins when the child is already *)
(* waitable delivers nothing but its termination or a failure of the       *)
(* source (poll, for every set of signals, every watchdog setting and any  *)
(* number of exceptions and signals).                                      *)
THEOREM ChildEndDelivered == Spec => TerminationWins
<1>1. ChildEndInv => (child = "reaped" => savedStatus = "status" \/ last = "terminated")
  BY Zenon DEF ChildEndInv
<1>2. DeadChildWins
        => [main = "waitpid" /\ main' # main /\ deadAtPoll = "yes"
              => main' = "done" /\ last' \in {"terminated", "monitor failure"}]_vars
  BY Zenon DEF DeadChildWins
<1> QED
  BY ChildEndInit, StepKeepsEnd, <1>1, <1>2, PTL DEF Spec, TerminationWins
=============================================================================
