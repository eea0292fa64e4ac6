------------------------- MODULE PrustiServerProofs -------------------------
(***************************************************************************)
(* Theorems about PrustiServer, for any set of workers and of requests,    *)
(* any assignment of configurations and any size of the cache.             *)
(***************************************************************************)
EXTENDS PrustiServer, TLAPS, NaturalsInduction, WellFoundedInduction,
        SequenceTheorems, FiniteSetTheorems

-----------------------------------------------------------------------------
(* Sequences *)

\* What VecDeque::remove leaves.
LEMMA RemoveAtProperties ==
  ASSUME NEW S, NEW s \in Seq(S), NEW i \in 1 .. Len(s)
  PROVE  /\ RemoveAt(s, i) \in Seq(S)
         /\ Len(RemoveAt(s, i)) = Len(s) - 1
         /\ \A j \in 1 .. Len(s) - 1 :
              RemoveAt(s, i)[j] = IF j < i THEN s[j] ELSE s[j + 1]
<1> DEFINE a == SubSeq(s, 1, i - 1)
           b == SubSeq(s, i + 1, Len(s))
<1>0. Len(s) \in Nat /\ i \in Int
  BY LenProperties
<1>1. a \in Seq(S) /\ Len(a) = i - 1 /\ \A j \in 1 .. i - 1 : a[j] = s[j]
  BY <1>0, SubSeqProperties, ElementOfSeq
<1>2. b \in Seq(S) /\ Len(b) = Len(s) - i /\ \A j \in 1 .. Len(s) - i : b[j] = s[i + j]
  BY <1>0, SubSeqProperties, ElementOfSeq
<1>3. /\ a \o b \in Seq(S)
      /\ Len(a \o b) = Len(a) + Len(b)
      /\ \A j \in 1 .. Len(a) + Len(b) :
           (a \o b)[j] = IF j <= Len(a) THEN a[j] ELSE b[j - Len(a)]
  BY <1>1, <1>2, ConcatProperties
<1> HIDE DEF a, b
<1>4. \A j \in 1 .. Len(s) - 1 : (a \o b)[j] = IF j < i THEN s[j] ELSE s[j + 1]
  <2> SUFFICES ASSUME NEW j \in 1 .. Len(s) - 1
               PROVE  (a \o b)[j] = IF j < i THEN s[j] ELSE s[j + 1]
    OBVIOUS
  <2>1. CASE j < i
    BY <2>1, <1>0, <1>1, <1>2, <1>3
  <2>2. CASE ~(j < i)
    <3>1. (a \o b)[j] = b[j - (i - 1)]
      BY <2>2, <1>0, <1>1, <1>2, <1>3
    <3>2. b[j - (i - 1)] = s[j + 1]
      BY <2>2, <1>0, <1>2
    <3> QED
      BY <2>2, <3>1, <3>2
  <2> QED
    BY <2>1, <2>2
<1>5. RemoveAt(s, i) = a \o b
  BY DEF RemoveAt, a, b
<1>6. Len(a \o b) = Len(s) - 1
  BY <1>0, <1>1, <1>2, <1>3
<1> QED
  BY <1>3, <1>4, <1>5, <1>6

\* What VecDeque::pop_back leaves.
LEMMA FrontProperties ==
  ASSUME NEW S, NEW s \in Seq(S), s # <<>>
  PROVE  /\ Front(s) \in Seq(S)
         /\ Len(Front(s)) = Len(s) - 1
         /\ \A j \in 1 .. Len(s) - 1 : Front(s)[j] = s[j]
<1>1. Len(s) \in Nat \ {0}
  BY EmptySeq
<1>2. \A j \in 1 .. Len(s) - 1 : s[j] \in S
  BY <1>1, ElementOfSeq
<1> DEFINE n == Len(s) - 1
           f == SubSeq(s, 1, n)
<1>3. n \in Nat
  BY <1>1
<1>4. /\ f \in Seq(S)
      /\ Len(f) = IF 1 <= n THEN n - 1 + 1 ELSE 0
      /\ \A j \in 1 .. n - 1 + 1 : f[j] = s[1 + j - 1]
  <2> HIDE DEF n
  <2> QED
    BY <1>2, <1>3, SubSeqProperties DEF n
<1>5. Front(s) = f
  BY DEF Front
<1> HIDE DEF f
<1>6. f \in Seq(S) /\ Len(f) = Len(s) - 1 /\ \A j \in 1 .. Len(s) - 1 : f[j] = s[j]
  <2> HIDE DEF n
  <2>1. Len(f) = n /\ \A j \in 1 .. n : f[j] = s[j]
    BY <1>3, <1>4
  <2> QED
    BY <1>4, <2>1 DEF n
<1> QED
  BY <1>5, <1>6

\* What VecDeque::push_front leaves.
LEMMA PushProperties ==
  ASSUME NEW S, NEW s \in Seq(S), NEW x \in S
  PROVE  /\ <<x>> \o s \in Seq(S)
         /\ Len(<<x>> \o s) = Len(s) + 1
         /\ (<<x>> \o s)[1] = x
         /\ \A j \in 2 .. Len(s) + 1 : (<<x>> \o s)[j] = s[j - 1]
<1>1. <<x>> \in Seq(S) /\ Len(<<x>>) = 1 /\ <<x>>[1] = x
  OBVIOUS
<1>2. Len(s) \in Nat
  BY LenProperties
<1>3. /\ <<x>> \o s \in Seq(S)
      /\ Len(<<x>> \o s) = Len(<<x>>) + Len(s)
      /\ \A j \in 1 .. Len(<<x>>) + Len(s) :
           (<<x>> \o s)[j] = IF j <= Len(<<x>>) THEN <<x>>[j] ELSE s[j - Len(<<x>>)]
  BY <1>1, ConcatProperties
<1> DEFINE p == <<x>> \o s
           q == <<x>>
<1>4. p \in Seq(S) /\ Len(p) = 1 + Len(s)
      /\ \A j \in 1 .. 1 + Len(s) : p[j] = IF j <= 1 THEN q[j] ELSE s[j - 1]
  BY <1>1, <1>3
<1>5. q[1] = x
  OBVIOUS
<1> HIDE DEF p, q
<1>6. /\ Len(p) = Len(s) + 1
      /\ p[1] = x
      /\ \A j \in 2 .. Len(s) + 1 : p[j] = s[j - 1]
  BY <1>2, <1>4, <1>5
<1> QED
  BY <1>4, <1>6 DEF p

\* The elements of a sequence are those at its positions.
LEMMA SeqElements ==
  ASSUME NEW S, NEW s \in Seq(S)
  PROVE  \A x : x \in Range(s) <=> \E i \in 1 .. Len(s) : s[i] = x
<1>1. DOMAIN s = 1 .. Len(s)
  BY LenProperties
<1> QED
  BY <1>1 DEF Range

\* Iterator::position finds a thread with the configuration of the request.
LEMMA PositionProperties ==
  ASSUME threads \in Seq(Threads), NEW r \in Requests, Position(r) # 0
  PROVE  /\ Position(r) \in 1 .. Len(threads)
         /\ ConfigOf[threads[Position(r)]] = ConfigOf[r]
<1> DEFINE I == {i \in 1 .. Len(threads) : ConfigOf[threads[i]] = ConfigOf[r]}
<1>1. Position(r) = IF I # {} THEN Min(I) ELSE 0
  BY DEF Position, SelectInSeq
<1>2. I # {} /\ Position(r) = Min(I)
  BY <1>1
<1>3. I \subseteq Nat
  BY LenProperties
<1>4. PICK x \in I : \A y \in I : ~(<<y, x>> \in OpToRel(<, Nat))
  <2> HIDE DEF I
  <2> QED
    BY <1>2, <1>3, NatLessThanWellFounded, WFMin
<1>5. \A y \in I : x <= y
  <2> SUFFICES ASSUME NEW y \in I PROVE x <= y
    OBVIOUS
  <2>1. x \in Nat /\ y \in Nat
    BY <1>3
  <2>2. ~(<<y, x>> \in OpToRel(<, Nat))
    BY <1>4
  <2>3. y < x => <<y, x>> \in OpToRel(<, Nat)
    BY <2>1 DEF OpToRel
  <2>4. ~(y < x)
    BY <2>2, <2>3, Zenon
  <2> QED
    BY <2>1, <2>4
<1>6. Min(I) \in I
  <2> HIDE DEF I
  <2> QED
    BY <1>4, <1>5 DEF Min
<1> QED
  BY <1>2, <1>6

-----------------------------------------------------------------------------
(* The inductive invariant *)

\* A cached thread waits for its next request.
CacheOK ==
  \A i \in 1 .. Len(threads) :
    /\ vstate[threads[i]] = "listening"
    /\ queue[threads[i]] = <<>>
    /\ current[threads[i]] = None

\* The thread t that a handler is about to send request r to.
SendOK(t, r) ==
  /\ oneshot[r] = Empty
  /\ queue[t] = <<>>
  /\ current[t] = None
  /\ vstate[t] \in {"starting", "listening", "panicked"}
  /\ t # r => vstate[t] = "listening"

\* Where request r is once it was sent to thread t: in the channel, being
\* verified, answered, or canceled.
WaitOK(t, r) ==
  \/ /\ vstate[t] \in {"starting", "listening"}
     /\ queue[t] = <<r>> /\ current[t] = None /\ oneshot[r] = Empty
  \/ /\ vstate[t] = "verifying"
     /\ queue[t] = <<>> /\ current[t] = r /\ oneshot[r] = Empty
  \/ /\ vstate[t] = "listening"
     /\ queue[t] = <<>> /\ current[t] = None
     /\ \E k \in Kinds : oneshot[r] = Service!Result(r, ConfigOf[t], k)
  \/ /\ vstate[t] = "panicked"
     /\ queue[t] = <<>> /\ current[t] = None /\ oneshot[r] = Canceled

WorkerOK(w) ==
  \/ pc[w] = "idle" /\ req[w] = None /\ held[w] = None
  \/ /\ pc[w] \in {"take", "create"}
     /\ req[w] \in Requests /\ held[w] = None
     /\ vstate[req[w]] = "unborn"
     /\ oneshot[req[w]] = Empty
  \/ /\ pc[w] \in {"send", "wait"}
     /\ req[w] \in Requests /\ held[w] \in Threads
     /\ ConfigOf[held[w]] = ConfigOf[req[w]]
     /\ pc[w] = "send" => SendOK(held[w], req[w])
     /\ pc[w] = "wait" => WaitOK(held[w], req[w])

\* A request has one handler, and no answer while that handler runs.
HandledOnce ==
  /\ \A v, w \in Workers : req[v] = req[w] /\ req[v] # None => v = w
  /\ \A w \in Workers :
       req[w] # None => req[w] \in sent /\ response[req[w]] = Service!Waiting

\* A request that nobody has handled yet has no thread named after it.
Fresh ==
  \A r \in Requests :
    response[r] = Service!Waiting /\ (\A w \in Workers : req[w] # r) =>
      vstate[r] = "unborn" /\ oneshot[r] = Empty

\* A thread that has something to do is in the hands of a handler.
BusyHeld ==
  \A t \in Threads :
    queue[t] # <<>> \/ current[t] # None \/ vstate[t] \in {"starting", "verifying"} =>
      \E w \in Workers : held[w] = t

IInv ==
  /\ TypeOK
  /\ OwnedOnce
  /\ CacheOK
  /\ \A w \in Workers : WorkerOK(w)
  /\ HandledOnce
  /\ Fresh
  /\ BusyHeld
  /\ CacheBounded

-----------------------------------------------------------------------------
(* Preservation *)

\* The states of a oneshot channel and of a client are told apart by their tags.
LEMMA TagsDiffer ==
  /\ Empty # Canceled
  /\ \A x \in Service!Results : x # Empty /\ x # Canceled /\ x # Service!Waiting
  /\ Service!VerifierPanicked # Service!Waiting
  /\ Service!RequestFailed # Service!Waiting
<1>1. \A x \in Service!Results : x.tag = "result"
  BY DEF Service!Results, Service!Result
<1>2. /\ Empty.tag = "empty" /\ Canceled.tag = "canceled" /\ Service!Waiting.tag = "waiting"
      /\ Service!VerifierPanicked.tag = "VerifierPanicked"
      /\ Service!RequestFailed.tag = "RequestFailed"
  BY DEF Empty, Canceled, Service!Waiting, Service!VerifierPanicked, Service!RequestFailed
<1> QED
  BY <1>1, <1>2

\* A result that SendResult puts into a oneshot channel is a result value.
LEMMA ResultType ==
  \A r \in Requests, t \in Requests, k \in Kinds :
    Service!Result(r, ConfigOf[t], k) \in Service!Results
BY DEF Service!Results

\* The server as PrustiServer::new leaves it satisfies the invariant.
LEMMA InitOK == Init => IInv
<1> SUFFICES ASSUME Init PROVE IInv
  OBVIOUS
<1>1. Len(threads) = 0 /\ threads \in Seq(Threads)
  BY DEF Init
<1>2. TypeOK
  BY <1>1 DEF Init, TypeOK, Threads
<1> QED
  BY <1>1, <1>2, ServerAssumption
  DEF Init, IInv, OwnedOnce, CacheOK, WorkerOK, HandledOnce, Fresh, BusyHeld, CacheBounded, Threads


\* The elements of an empty channel, and of one that holds one request.
LEMMA RangeOfShortSeq ==
  /\ Range(<<>>) = {}
  /\ \A x : Range(<<x>>) = {x}
<1>1. Range(<<>>) = {}
  BY DEF Range
<1>2. ASSUME NEW x PROVE Range(<<x>>) = {x}
  <2>1. DOMAIN <<x>> = 1 .. 1 /\ <<x>>[1] = x
    OBVIOUS
  <2>2. \A i \in 1 .. 1 : i = 1
    OBVIOUS
  <2> QED
    BY <2>1, <2>2 DEF Range
<1> QED
  BY <1>1, <1>2

\* The handler that holds a thread with work to do, and what it does.
LEMMA Holder ==
  ASSUME IInv, NEW t \in Threads,
         queue[t] # <<>> \/ current[t] # None \/ vstate[t] \in {"starting", "verifying"}
  PROVE  \E w \in Workers :
           /\ held[w] = t
           /\ req[w] \in Requests
           /\ \A v \in Workers : v # w => held[v] # t /\ req[v] # req[w]
           /\ \A i \in 1 .. Len(threads) : threads[i] # t
           /\ ConfigOf[t] = ConfigOf[req[w]]
           /\ \/ pc[w] = "send" /\ SendOK(t, req[w])
              \/ pc[w] = "wait" /\ WaitOK(t, req[w])
<1>1. PICK w \in Workers : held[w] = t
  BY DEF IInv, BusyHeld
<1>2. t # None
  BY ServerAssumption DEF Threads
<1>3. /\ req[w] \in Requests
      /\ ConfigOf[t] = ConfigOf[req[w]]
      /\ \/ pc[w] = "send" /\ SendOK(t, req[w])
         \/ pc[w] = "wait" /\ WaitOK(t, req[w])
  BY <1>1, <1>2 DEF IInv, WorkerOK
<1>4. req[w] # None
  BY <1>3, ServerAssumption
<1>5. \A v \in Workers : v # w => held[v] # t /\ req[v] # req[w]
  BY <1>1, <1>2, <1>4 DEF IInv, OwnedOnce, HandledOnce
<1>6. \A i \in 1 .. Len(threads) : threads[i] # t
  BY <1>1, <1>2 DEF IInv, OwnedOnce
<1> QED
  BY <1>1, <1>3, <1>5, <1>6

\* A client that posts a request preserves the invariant.
LEMMA SendRequestOK ==
  ASSUME IInv, NEW r \in Requests, SendRequest(r)
  PROVE  IInv'
BY DEF IInv, SendRequest, workerVars, threadVars, TypeOK, OwnedOnce, CacheOK, WorkerOK,
   SendOK, WaitOK, HandledOnce, Fresh, BusyHeld, CacheBounded

\* A step of a verifier thread leaves the clients, the handlers and the cache alone.
LEMMA ThreadStepFrame ==
  ASSUME IInv, UNCHANGED <<clientVars, workerVars, threads>>
  PROVE  OwnedOnce' /\ HandledOnce' /\ CacheBounded'
BY DEF IInv, OwnedOnce, HandledOnce, CacheBounded, clientVars, workerVars

\* A verifier thread that has started its verifier preserves the invariant.
LEMMA StartUpOK ==
  ASSUME IInv, NEW t \in Threads, StartUp(t)
  PROVE  IInv'
<1> USE DEF StartUp, clientVars, workerVars, threadVars
<1>1. TypeOK'
  BY DEF IInv, TypeOK
<1>2. OwnedOnce' /\ HandledOnce' /\ CacheBounded'
  BY ThreadStepFrame
<1>3. CacheOK'
  BY DEF IInv, TypeOK, CacheOK
<1>4. \A w \in Workers : WorkerOK(w)'
  BY DEF IInv, TypeOK, WorkerOK, SendOK, WaitOK, Threads
<1>5. Fresh'
  BY DEF IInv, TypeOK, Fresh, Threads
<1>6. BusyHeld'
  BY DEF IInv, TypeOK, BusyHeld
<1> QED
  BY <1>1, <1>2, <1>3, <1>4, <1>5, <1>6 DEF IInv

\* A verifier thread that unwinds, at start-up or while it verifies, preserves the
\* invariant: the oneshot sender it drops is the one its holder waits on.
LEMMA DieOK ==
  ASSUME IInv, NEW t \in Threads, vstate[t] \in {"starting", "verifying"},
         Die(t), UNCHANGED <<clientVars, workerVars, threads>>
  PROVE  IInv'
<1> USE DEF clientVars, workerVars
<1>1. PICK w \in Workers :
           /\ held[w] = t
           /\ req[w] \in Requests
           /\ \A v \in Workers : v # w => held[v] # t /\ req[v] # req[w]
           /\ \A i \in 1 .. Len(threads) : threads[i] # t
           /\ ConfigOf[t] = ConfigOf[req[w]]
           /\ \/ pc[w] = "send" /\ SendOK(t, req[w])
              \/ pc[w] = "wait" /\ WaitOK(t, req[w])
  BY Holder
<1> DEFINE lost == Range(queue[t]) \cup ({current[t]} \ {None})
<1>2. lost = IF pc[w] = "wait" THEN {req[w]} ELSE {}
  <2>1. CASE pc[w] = "send"
    BY <1>1, <2>1, RangeOfShortSeq DEF SendOK
  <2>2. CASE pc[w] = "wait"
    BY <1>1, <2>2, RangeOfShortSeq, ServerAssumption DEF WaitOK
  <2> QED
    BY <1>1, <2>1, <2>2
<1>3. /\ vstate' = [vstate EXCEPT ![t] = "panicked"]
      /\ queue' = [queue EXCEPT ![t] = <<>>]
      /\ current' = [current EXCEPT ![t] = None]
      /\ oneshot' = [r \in Requests |-> IF r \in lost THEN Canceled ELSE oneshot[r]]
  BY DEF Die
<1> HIDE DEF lost
<1>4. TypeOK'
  BY <1>3 DEF IInv, TypeOK
<1>5. OwnedOnce' /\ HandledOnce' /\ CacheBounded'
  BY ThreadStepFrame
<1>6. CacheOK'
  BY <1>1, <1>3 DEF IInv, TypeOK, CacheOK
<1>7. ASSUME NEW v \in Workers PROVE WorkerOK(v)'
  <2>1. CASE v = w
    <3>1. CASE pc[w] = "send"
      BY <1>1, <1>2, <1>3, <2>1, <3>1 DEF IInv, TypeOK, WorkerOK, SendOK
    <3>2. CASE pc[w] = "wait"
      BY <1>1, <1>2, <1>3, <2>1, <3>2 DEF IInv, TypeOK, WorkerOK, WaitOK
    <3> QED
      BY <1>1, <3>1, <3>2
  <2>2. CASE v # w
    <3>1. held[v] # t /\ req[v] \notin lost
      BY <1>1, <1>2, <2>2
    <3>2. req[v] \in Requests => oneshot'[req[v]] = oneshot[req[v]]
      BY <1>3, <3>1
    <3> QED
      BY <1>3, <3>1, <3>2 DEF IInv, TypeOK, WorkerOK, SendOK, WaitOK, Threads
  <2> QED
    BY <2>1, <2>2
<1>8. Fresh'
  BY <1>1, <1>2, <1>3 DEF IInv, TypeOK, Fresh, Threads
<1>9. BusyHeld'
  BY <1>3 DEF IInv, TypeOK, BusyHeld
<1> QED
  BY <1>4, <1>5, <1>6, <1>7, <1>8, <1>9 DEF IInv

\* recv() in listen_for_requests preserves the invariant.
LEMMA ReceiveOK ==
  ASSUME IInv, NEW t \in Threads, Receive(t)
  PROVE  IInv'
<1> USE DEF Receive, clientVars, workerVars
<1>1. PICK w \in Workers :
           /\ held[w] = t
           /\ req[w] \in Requests
           /\ \A v \in Workers : v # w => held[v] # t /\ req[v] # req[w]
           /\ \A i \in 1 .. Len(threads) : threads[i] # t
           /\ ConfigOf[t] = ConfigOf[req[w]]
           /\ \/ pc[w] = "send" /\ SendOK(t, req[w])
              \/ pc[w] = "wait" /\ WaitOK(t, req[w])
  BY Holder
<1>2. pc[w] = "wait" /\ queue[t] = <<req[w]>> /\ oneshot[req[w]] = Empty
  BY <1>1 DEF SendOK, WaitOK
<1>3. Head(queue[t]) = req[w] /\ Tail(queue[t]) = <<>>
  BY <1>2
<1>4. /\ vstate' = [vstate EXCEPT ![t] = "verifying"]
      /\ current' = [current EXCEPT ![t] = req[w]]
      /\ queue' = [queue EXCEPT ![t] = <<>>]
  BY <1>3
<1>5. TypeOK'
  BY <1>1, <1>4 DEF IInv, TypeOK
<1>6. OwnedOnce' /\ HandledOnce' /\ CacheBounded'
  BY ThreadStepFrame
<1>7. CacheOK'
  BY <1>1, <1>4 DEF IInv, TypeOK, CacheOK
<1>8. ASSUME NEW v \in Workers PROVE WorkerOK(v)'
  <2>1. CASE v = w
    BY <1>1, <1>2, <1>4, <2>1 DEF IInv, TypeOK, WorkerOK, WaitOK
  <2>2. CASE v # w
    BY <1>1, <1>4, <2>2 DEF IInv, TypeOK, WorkerOK, SendOK, WaitOK, Threads
  <2> QED
    BY <2>1, <2>2
<1>9. Fresh'
  BY <1>4 DEF IInv, TypeOK, Fresh, Threads
<1>10. BusyHeld'
  BY <1>1, <1>4 DEF IInv, TypeOK, BusyHeld
<1> QED
  BY <1>5, <1>6, <1>7, <1>8, <1>9, <1>10 DEF IInv

\* The result sent by listen_for_requests preserves the invariant.
LEMMA SendResultOK ==
  ASSUME IInv, NEW t \in Threads, NEW k \in Kinds, SendResult(t, k)
  PROVE  IInv'
<1> USE DEF SendResult, clientVars, workerVars
<1>1. PICK w \in Workers :
           /\ held[w] = t
           /\ req[w] \in Requests
           /\ \A v \in Workers : v # w => held[v] # t /\ req[v] # req[w]
           /\ \A i \in 1 .. Len(threads) : threads[i] # t
           /\ ConfigOf[t] = ConfigOf[req[w]]
           /\ \/ pc[w] = "send" /\ SendOK(t, req[w])
              \/ pc[w] = "wait" /\ WaitOK(t, req[w])
  BY Holder
<1>2. pc[w] = "wait" /\ queue[t] = <<>> /\ current[t] = req[w]
  BY <1>1 DEF SendOK, WaitOK
<1> DEFINE a == Service!Result(req[w], ConfigOf[t], k)
<1>3. /\ vstate' = [vstate EXCEPT ![t] = "listening"]
      /\ current' = [current EXCEPT ![t] = None]
      /\ oneshot' = [oneshot EXCEPT ![req[w]] = a]
  BY <1>2
<1>4. a \in Service!Results
  BY <1>1, ResultType DEF Threads
<1> HIDE DEF a
<1>5. TypeOK'
  <2>0. UNCHANGED <<sent, response, pc, req, held, threads, queue>>
    OBVIOUS
  <2> HIDE DEF SendResult
  <2>1. oneshot' \in [Requests -> Service!Results \cup {Empty, Canceled}]
    BY <1>1, <1>3, <1>4 DEF IInv, TypeOK
  <2>2. /\ vstate' \in [Threads -> {"unborn", "starting", "listening", "verifying",
                                    "exited", "panicked"}]
        /\ current' \in [Threads -> Requests \cup {None}]
    BY <1>3 DEF IInv, TypeOK
  <2> QED
    BY <2>0, <2>1, <2>2 DEF IInv, TypeOK
<1>6. OwnedOnce' /\ HandledOnce' /\ CacheBounded'
  BY ThreadStepFrame
<1>7. CacheOK'
  <2>1. threads' = threads /\ queue' = queue
    OBVIOUS
  <2>2. \A i \in 1 .. Len(threads) : threads[i] \in Threads
    BY ElementOfSeq DEF IInv, TypeOK
  <2>3. \A u \in Threads : u # t => vstate'[u] = vstate[u] /\ current'[u] = current[u]
    BY <1>3 DEF IInv, TypeOK
  <2> HIDE DEF SendResult
  <2> QED
    BY <1>1, <2>1, <2>2, <2>3 DEF IInv, CacheOK
<1>8. ASSUME NEW v \in Workers PROVE WorkerOK(v)'
  <2>1. CASE v = w
    <3>1. WaitOK(t, req[w])'
      BY <1>1, <1>2, <1>3 DEF IInv, TypeOK, WaitOK, a
    <3> QED
      BY <1>1, <1>2, <1>3, <2>1, <3>1 DEF WorkerOK
  <2>2. CASE v # w
    BY <1>1, <1>3, <2>2 DEF IInv, TypeOK, WorkerOK, SendOK, WaitOK, Threads
  <2> QED
    BY <2>1, <2>2
<1>9. Fresh'
  BY <1>1, <1>3 DEF IInv, TypeOK, Fresh, Threads
<1>10. BusyHeld'
  BY <1>1, <1>3 DEF IInv, TypeOK, BusyHeld
<1> QED
  BY <1>5, <1>6, <1>7, <1>8, <1>9, <1>10 DEF IInv

\* The end of listen_for_requests preserves the invariant: nobody owns the thread.
LEMMA ExitOK ==
  ASSUME IInv, NEW t \in Threads, Exit(t)
  PROVE  IInv'
<1> USE DEF Exit, clientVars, workerVars
<1>1. (\A w \in Workers : held[w] # t) /\ \A i \in 1 .. Len(threads) : threads[i] # t
  BY SeqElements DEF HasOwner, IInv, TypeOK
<1>2. vstate' = [vstate EXCEPT ![t] = "exited"]
  OBVIOUS
<1>3. TypeOK'
  BY <1>2 DEF IInv, TypeOK
<1>4. OwnedOnce' /\ HandledOnce' /\ CacheBounded'
  BY ThreadStepFrame
<1>5. CacheOK'
  BY <1>1, <1>2 DEF IInv, TypeOK, CacheOK
<1>6. \A w \in Workers : WorkerOK(w)'
  BY <1>1, <1>2 DEF IInv, TypeOK, WorkerOK, SendOK, WaitOK, Threads
<1>7. Fresh'
  BY <1>2 DEF IInv, TypeOK, Fresh, Threads
<1>8. BusyHeld'
  BY <1>2 DEF IInv, TypeOK, BusyHeld
<1> QED
  BY <1>3, <1>4, <1>5, <1>6, <1>7, <1>8 DEF IInv


\* A handler that moves on changes neither the threads nor the channels; the
\* other handlers are as they were.
LEMMA OtherWorkers ==
  ASSUME IInv, NEW w \in Workers, NEW v \in Workers, v # w,
         pc'[v] = pc[v], req'[v] = req[v], held'[v] = held[v],
         UNCHANGED <<threadVars, oneshot>>
  PROVE  WorkerOK(v)'
BY DEF IInv, WorkerOK, SendOK, WaitOK, threadVars

\* A worker that starts to handle a request preserves the invariant.
LEMMA AcceptOK ==
  ASSUME IInv, NEW w \in Workers, NEW r \in Requests, Accept(w, r)
  PROVE  IInv'
<1> USE DEF Accept, clientVars, threadVars
<1>1. /\ r \in sent /\ response[r] = Service!Waiting
      /\ \A v \in Workers : req[v] # r
  BY DEF Pending
<1>2. vstate[r] = "unborn" /\ oneshot[r] = Empty
  BY <1>1 DEF IInv, Fresh
<1>3. req[w] = None /\ held[w] = None
  BY DEF IInv, WorkerOK
<1>4. TypeOK' /\ OwnedOnce' /\ CacheOK' /\ CacheBounded'
  BY DEF IInv, TypeOK, OwnedOnce, CacheOK, CacheBounded
<1>5. ASSUME NEW v \in Workers PROVE WorkerOK(v)'
  <2>1. CASE v = w
    BY <1>2, <1>3, <2>1 DEF IInv, TypeOK, WorkerOK
  <2>2. CASE v # w
    BY <2>2, OtherWorkers DEF IInv, TypeOK
  <2> QED
    BY <2>1, <2>2
<1>6. HandledOnce'
  BY <1>1 DEF IInv, TypeOK, HandledOnce
<1>7. Fresh'
  <2> SUFFICES ASSUME NEW s \in Requests, response[s] = Service!Waiting,
                      \A v \in Workers : req'[v] # s
               PROVE  vstate[s] = "unborn" /\ oneshot[s] = Empty
    BY DEF Fresh
  <2>1. \A v \in Workers : req[v] # s
    BY <1>3, ServerAssumption DEF IInv, TypeOK
  <2> QED
    BY <2>1 DEF IInv, Fresh
<1>8. BusyHeld'
  BY DEF IInv, BusyHeld
<1> QED
  BY <1>4, <1>5, <1>6, <1>7, <1>8 DEF IInv

\* The filter that rejects a body it cannot decode preserves the invariant.
LEMMA RejectOK ==
  ASSUME IInv, NEW w \in Workers, NEW r \in Requests, Reject(w, r)
  PROVE  IInv'
<1> USE DEF Reject, Pending, workerVars, threadVars
<1>1. TypeOK' /\ OwnedOnce' /\ CacheOK' /\ CacheBounded' /\ BusyHeld'
  BY DEF IInv, TypeOK, OwnedOnce, CacheOK, CacheBounded, BusyHeld
<1>2. \A v \in Workers : WorkerOK(v)'
  BY DEF IInv, WorkerOK, SendOK, WaitOK
<1>3. HandledOnce'
  BY DEF IInv, TypeOK, HandledOnce
<1>4. Fresh'
  BY TagsDiffer DEF IInv, TypeOK, Fresh
<1> QED
  BY <1>1, <1>2, <1>3, <1>4 DEF IInv

\* The handler of w ends with answer a; it owned no thread, or a thread that is
\* not busy and that goes to the cache or to nobody.
LEMMA FinishOK ==
  ASSUME IInv, NEW w \in Workers, NEW a, req[w] \in Requests,
         a \in Service!Results \cup {Service!VerifierPanicked, Service!RequestFailed},
         Finish(w, a), UNCHANGED <<threadVars, oneshot>>,
         held[w] # None => /\ queue[held[w]] = <<>>
                           /\ current[held[w]] = None
                           /\ vstate[held[w]] \notin {"starting", "verifying"}
  PROVE  /\ sent' \subseteq Requests
         /\ response' \in [Requests -> Service!Results
              \cup {Service!Waiting, Service!VerifierPanicked, Service!RequestFailed}]
         /\ pc' \in [Workers -> {"idle", "take", "create", "send", "wait"}]
         /\ req' \in [Workers -> Requests \cup {None}]
         /\ held' \in [Workers -> Threads \cup {None}]
         /\ \A v \in Workers : WorkerOK(v)'
         /\ HandledOnce' /\ Fresh' /\ BusyHeld'
<1> USE DEF Finish, threadVars
<1>1. a # Service!Waiting
  BY TagsDiffer
<1>2. ASSUME NEW v \in Workers PROVE WorkerOK(v)'
  <2>1. CASE v = w
    BY <2>1 DEF IInv, TypeOK, WorkerOK
  <2>2. CASE v # w
    BY <2>2, OtherWorkers DEF IInv, TypeOK
  <2> QED
    BY <2>1, <2>2
<1>3. HandledOnce'
  BY ServerAssumption DEF IInv, TypeOK, HandledOnce
<1>4. Fresh'
  <2> SUFFICES ASSUME NEW s \in Requests, response'[s] = Service!Waiting,
                      \A v \in Workers : req'[v] # s
               PROVE  vstate[s] = "unborn" /\ oneshot[s] = Empty
    BY DEF Fresh
  <2>1. s # req[w] /\ response[s] = Service!Waiting
    BY <1>1 DEF IInv, TypeOK
  <2>2. \A v \in Workers : req[v] # s
    BY <2>1 DEF IInv, TypeOK
  <2> QED
    BY <2>1, <2>2 DEF IInv, Fresh
<1>5. BusyHeld'
  <2> SUFFICES ASSUME NEW t \in Threads,
                 queue[t] # <<>> \/ current[t] # None \/ vstate[t] \in {"starting", "verifying"}
               PROVE  \E v \in Workers : held'[v] = t
    BY DEF BusyHeld
  <2>1. PICK v \in Workers : held[v] = t
    BY DEF IInv, BusyHeld
  <2>2. v # w
    BY <2>1, ServerAssumption DEF Threads
  <2> QED
    BY <2>1, <2>2 DEF IInv, TypeOK
<1>6. /\ sent' \subseteq Requests
      /\ pc' \in [Workers -> {"idle", "take", "create", "send", "wait"}]
      /\ req' \in [Workers -> Requests \cup {None}]
      /\ held' \in [Workers -> Threads \cup {None}]
  BY DEF IInv, TypeOK
<1>7. response' \in [Requests -> Service!Results
        \cup {Service!Waiting, Service!VerifierPanicked, Service!RequestFailed}]
  BY DEF IInv, TypeOK
<1> QED
  BY <1>2, <1>3, <1>4, <1>5, <1>6, <1>7

\* A handler that fails drops its thread and leaves the cache alone.
LEMMA FailOK ==
  ASSUME IInv, NEW w \in Workers,
         NEW a \in {Service!VerifierPanicked, Service!RequestFailed},
         req[w] \in Requests, Finish(w, a), UNCHANGED <<threads, threadVars, oneshot>>,
         held[w] # None => /\ queue[held[w]] = <<>>
                           /\ current[held[w]] = None
                           /\ vstate[held[w]] \notin {"starting", "verifying"}
  PROVE  IInv'
<1>1. /\ sent' \subseteq Requests
      /\ response' \in [Requests -> Service!Results
              \cup {Service!Waiting, Service!VerifierPanicked, Service!RequestFailed}]
      /\ pc' \in [Workers -> {"idle", "take", "create", "send", "wait"}]
      /\ req' \in [Workers -> Requests \cup {None}]
      /\ held' \in [Workers -> Threads \cup {None}]
      /\ \A v \in Workers : WorkerOK(v)'
      /\ HandledOnce' /\ Fresh' /\ BusyHeld'
  BY FinishOK
<1>2. TypeOK'
  BY <1>1 DEF IInv, TypeOK, threadVars
<1>3. CacheOK' /\ CacheBounded'
  BY DEF IInv, CacheOK, CacheBounded, threadVars
<1>4. \A v \in Workers : held'[v] # None => held'[v] = held[v]
  BY DEF Finish, IInv, TypeOK
<1>5. OwnedOnce'
  BY <1>4 DEF IInv, OwnedOnce
<1> QED
  BY <1>1, <1>2, <1>3, <1>5 DEF IInv

\* VerifierThread::new that panics because no thread is to be had preserves the invariant.
LEMMA SpawnFailsOK ==
  ASSUME IInv, NEW w \in Workers, SpawnFails(w)
  PROVE  IInv'
<1>1. req[w] \in Requests /\ held[w] = None
  BY DEF SpawnFails, IInv, WorkerOK
<1> QED
  BY <1>1, FailOK DEF SpawnFails

\* VerifierThread::verify that panics because its thread died preserves the invariant.
LEMMA SendFailsOK ==
  ASSUME IInv, NEW w \in Workers, SendFails(w)
  PROVE  IInv'
<1>1. req[w] \in Requests /\ SendOK(held[w], req[w])
  BY DEF SendFails, IInv, WorkerOK
<1> QED
  BY <1>1, FailOK DEF SendFails, SendOK, ReceiverAlive

\* The Err arm of run_verifier preserves the invariant: the thread it drops is dead.
LEMMA HandleCanceledOK ==
  ASSUME IInv, NEW w \in Workers, HandleCanceled(w)
  PROVE  IInv'
<1>1. req[w] \in Requests /\ held[w] \in Threads /\ WaitOK(held[w], req[w])
  BY DEF HandleCanceled, IInv, WorkerOK
<1>2. oneshot[req[w]] = Canceled
  BY DEF HandleCanceled
<1>3. vstate[held[w]] = "panicked" /\ queue[held[w]] = <<>> /\ current[held[w]] = None
  BY <1>1, <1>2, TagsDiffer, ResultType DEF WaitOK, Threads
<1> QED
  BY <1>1, <1>3, FailOK DEF HandleCanceled

\* The Ok arm of run_verifier, eviction included, preserves the invariant.
LEMMA PutBackOK ==
  ASSUME IInv, NEW w \in Workers, PutBack(w)
  PROVE  IInv'
<1> DEFINE t == held[w]
           kept == IF Len(threads) >= CacheSize /\ threads # <<>>
                     THEN Front(threads) ELSE threads
<1>1. /\ req[w] \in Requests /\ t \in Threads /\ t # None
      /\ WaitOK(t, req[w])
  BY ServerAssumption DEF PutBack, IInv, WorkerOK, Threads
<1>2. /\ vstate[t] = "listening" /\ queue[t] = <<>> /\ current[t] = None
      /\ oneshot[req[w]] \in Service!Results
  BY <1>1, ResultType DEF WaitOK, PutBack, Threads
<1>3. threads' = <<t>> \o kept /\ Finish(w, oneshot[req[w]]) /\ UNCHANGED <<threadVars, oneshot>>
  BY DEF PutBack
<1>4. threads \in Seq(Threads) /\ Len(threads) \in Nat /\ (threads = <<>> <=> Len(threads) = 0)
  BY EmptySeq, LenProperties DEF IInv, TypeOK
<1>5. /\ kept \in Seq(Threads) /\ Len(kept) \in Nat
      /\ Len(kept) + 1 <= (IF CacheSize = 0 THEN 1 ELSE CacheSize)
      /\ \A j \in 1 .. Len(kept) : j \in 1 .. Len(threads) /\ kept[j] = threads[j]
  <2>1. CASE Len(threads) >= CacheSize /\ threads # <<>>
    <3>1. /\ kept \in Seq(Threads) /\ Len(kept) = Len(threads) - 1
          /\ \A j \in 1 .. Len(threads) - 1 : kept[j] = threads[j]
      BY <1>4, <2>1, FrontProperties
    <3> HIDE DEF kept
    <3> QED
      BY <1>4, <2>1, <3>1, ServerAssumption DEF IInv, CacheBounded
  <2>2. CASE ~(Len(threads) >= CacheSize /\ threads # <<>>)
    <3>1. kept = threads
      BY <2>2
    <3> HIDE DEF kept
    <3> QED
      BY <1>4, <2>2, <3>1, ServerAssumption DEF IInv, CacheBounded
  <2> QED
    BY <2>1, <2>2
<1> HIDE DEF kept
<1>6. /\ threads' \in Seq(Threads)
      /\ Len(threads') = Len(kept) + 1
      /\ \A i \in 1 .. Len(threads') : \/ i = 1 /\ threads'[i] = t
                                       \/ /\ i - 1 \in 1 .. Len(kept)
                                          /\ threads'[i] = kept[i - 1]
  BY <1>1, <1>3, <1>5, PushProperties
<1>7. \A i \in 1 .. Len(threads') : \/ i = 1 /\ threads'[i] = t
                                    \/ /\ i - 1 \in 1 .. Len(threads)
                                       /\ threads'[i] = threads[i - 1]
  BY <1>5, <1>6
<1>8. /\ sent' \subseteq Requests
      /\ response' \in [Requests -> Service!Results
              \cup {Service!Waiting, Service!VerifierPanicked, Service!RequestFailed}]
      /\ pc' \in [Workers -> {"idle", "take", "create", "send", "wait"}]
      /\ req' \in [Workers -> Requests \cup {None}]
      /\ held' \in [Workers -> Threads \cup {None}]
      /\ \A v \in Workers : WorkerOK(v)'
      /\ HandledOnce' /\ Fresh' /\ BusyHeld'
  BY <1>1, <1>2, <1>3, FinishOK
<1>9. TypeOK'
  BY <1>3, <1>6, <1>8 DEF IInv, TypeOK, threadVars
<1>10. CacheBounded'
  BY <1>5, <1>6 DEF CacheBounded
<1>11. CacheOK'
  BY <1>2, <1>3, <1>7 DEF IInv, CacheOK, threadVars
<1>12. OwnedOnce'
  <2>1. \A i \in 1 .. Len(threads) : threads[i] # t
    BY <1>1 DEF IInv, OwnedOnce
  <2>2. \A v \in Workers : held'[v] # None => held'[v] = held[v] /\ held[v] # t
    BY <1>1, <1>3 DEF Finish, IInv, TypeOK, OwnedOnce
  <2>3. \A i, j \in 1 .. Len(threads') : threads'[i] = threads'[j] => i = j
    <3> SUFFICES ASSUME NEW i \in 1 .. Len(threads'), NEW j \in 1 .. Len(threads'),
                        threads'[i] = threads'[j]
                 PROVE  i = j
      OBVIOUS
    <3>1. i \in Int /\ j \in Int
      BY <1>5, <1>6
    <3>2. CASE i = 1 \/ j = 1
      BY <1>7, <2>1, <3>1, <3>2
    <3>3. CASE i # 1 /\ j # 1
      <4>1. i - 1 = j - 1
        BY <1>7, <3>3 DEF IInv, OwnedOnce
      <4> QED
        BY <3>1, <4>1
    <3> QED
      BY <3>2, <3>3
  <2>4. \A v \in Workers : held'[v] # None =>
          \A i \in 1 .. Len(threads') : threads'[i] # held'[v]
    BY <1>7, <2>2 DEF IInv, OwnedOnce
  <2>5. \A u, v \in Workers : held'[u] = held'[v] /\ held'[u] # None => u = v
    BY <2>2 DEF IInv, OwnedOnce
  <2> QED
    BY <2>3, <2>4, <2>5 DEF OwnedOnce
<1> QED
  BY <1>8, <1>9, <1>10, <1>11, <1>12 DEF IInv

\* The lookup in the cache at the start of run_verifier preserves the invariant.
LEMMA TakeThreadOK ==
  ASSUME IInv, NEW w \in Workers, TakeThread(w)
  PROVE  IInv'
<1> DEFINE i == Position(req[w])
<1>1. /\ req[w] \in Requests /\ held[w] = None
      /\ vstate[req[w]] = "unborn" /\ oneshot[req[w]] = Empty
  BY DEF TakeThread, IInv, WorkerOK
<1>2. threads \in Seq(Threads)
  BY DEF IInv, TypeOK
<1>3. UNCHANGED <<clientVars, req, threadVars, oneshot>>
  BY DEF TakeThread
<1>4. HandledOnce' /\ Fresh'
  BY <1>3 DEF IInv, HandledOnce, Fresh, clientVars, threadVars
<1>5. CASE i = 0
  <2>1. pc' = [pc EXCEPT ![w] = "create"] /\ UNCHANGED <<held, threads>>
    BY <1>5 DEF TakeThread
  <2>2. TypeOK' /\ OwnedOnce' /\ CacheOK' /\ CacheBounded' /\ BusyHeld'
    BY <1>3, <2>1 DEF IInv, TypeOK, OwnedOnce, CacheOK, CacheBounded, BusyHeld,
                      clientVars, threadVars
  <2>3. ASSUME NEW v \in Workers PROVE WorkerOK(v)'
    BY <1>1, <1>3, <2>1 DEF IInv, TypeOK, WorkerOK, SendOK, WaitOK, threadVars
  <2> QED
    BY <1>4, <2>2, <2>3 DEF IInv
<1>6. CASE i # 0
  <2> DEFINE t == threads[i]
  <2>1. /\ held' = [held EXCEPT ![w] = t]
        /\ threads' = RemoveAt(threads, i)
        /\ pc' = [pc EXCEPT ![w] = "send"]
    BY <1>6 DEF TakeThread
  <2>2. i \in 1 .. Len(threads) /\ ConfigOf[t] = ConfigOf[req[w]]
    BY <1>1, <1>2, <1>6, PositionProperties
  <2>3. t \in Threads /\ t # None /\ Len(threads) \in Nat
    BY <1>2, <2>2, ElementOfSeq, LenProperties, ServerAssumption DEF Threads
  <2> HIDE DEF i
  <2>4. /\ threads' \in Seq(Threads)
        /\ Len(threads') = Len(threads) - 1
        /\ \A j \in 1 .. Len(threads) - 1 :
             threads'[j] = IF j < i THEN threads[j] ELSE threads[j + 1]
    BY <1>2, <2>1, <2>2, RemoveAtProperties
  <2> DEFINE old(j) == IF j < i THEN j ELSE j + 1
  <2>5. \A j \in 1 .. Len(threads') :
          old(j) \in 1 .. Len(threads) /\ old(j) # i /\ threads'[j] = threads[old(j)]
    BY <2>2, <2>3, <2>4
  <2>6. /\ vstate[t] = "listening" /\ queue[t] = <<>> /\ current[t] = None
        /\ \A v \in Workers : held[v] # t
        /\ \A j \in 1 .. Len(threads) : j # i => threads[j] # t
    BY <2>2, <2>3 DEF IInv, OwnedOnce, CacheOK
  <2>7. TypeOK'
    BY <1>3, <2>1, <2>3, <2>4 DEF IInv, TypeOK, clientVars, threadVars
  <2>8. OwnedOnce'
    <3>1. \A j, k \in 1 .. Len(threads') : old(j) = old(k) => j = k
      BY <2>2, <2>3, <2>4
    <3>2. \A j, k \in 1 .. Len(threads') : threads'[j] = threads'[k] => j = k
      <4>1. \A j, k \in 1 .. Len(threads) : threads[j] = threads[k] => j = k
        BY DEF IInv, OwnedOnce
      <4> HIDE DEF old
      <4> QED
        BY <2>5, <3>1, <4>1
    <3>3. \A v \in Workers : held'[v] = IF v = w THEN t ELSE held[v]
      BY <2>1 DEF IInv, TypeOK
    <3>4. \A v \in Workers : held'[v] # None =>
            \A j \in 1 .. Len(threads') : threads'[j] # held'[v]
      <4> HIDE DEF old
      <4> QED
        BY <2>5, <2>6, <3>3 DEF IInv, OwnedOnce
    <3>5. \A u, v \in Workers : held'[u] = held'[v] /\ held'[u] # None => u = v
      BY <2>6, <3>3 DEF IInv, OwnedOnce
    <3> QED
      BY <3>2, <3>4, <3>5 DEF OwnedOnce
  <2>9. CacheOK'
    <3> HIDE DEF old
    <3> QED
      BY <1>3, <2>5 DEF IInv, CacheOK, threadVars
  <2>10. CacheBounded'
    BY <2>3, <2>4, ServerAssumption DEF IInv, CacheBounded
  <2>11. ASSUME NEW v \in Workers PROVE WorkerOK(v)'
    <3>1. CASE v = w
      <4>1. SendOK(t, req[w])
        BY <1>1, <2>6 DEF SendOK
      <4>2. /\ pc'[v] = "send" /\ held'[v] = t /\ req'[v] = req[w]
            /\ vstate' = vstate /\ queue' = queue /\ current' = current /\ oneshot' = oneshot
        BY <1>3, <2>1, <3>1 DEF IInv, TypeOK, threadVars
      <4> HIDE DEF t
      <4> QED
        BY <1>1, <2>2, <2>3, <4>1, <4>2 DEF WorkerOK, SendOK
    <3>2. CASE v # w
      BY <1>3, <2>1, <3>2, OtherWorkers DEF IInv, TypeOK
    <3> QED
      BY <3>1, <3>2
  <2>12. BusyHeld'
    <3>1. \A v \in Workers : v # w => held'[v] = held[v]
      BY <2>1 DEF IInv, TypeOK
    <3> QED
      BY <1>1, <1>3, <3>1, ServerAssumption DEF IInv, BusyHeld, threadVars, Threads
  <2> QED
    BY <1>4, <2>7, <2>8, <2>9, <2>10, <2>11, <2>12 DEF IInv
<1> QED
  BY <1>5, <1>6

\* VerifierThread::new preserves the invariant.
LEMMA CreateThreadOK ==
  ASSUME IInv, NEW w \in Workers, CreateThread(w)
  PROVE  IInv'
<1>0. PICK t \in Threads : t = req[w]
  BY DEF CreateThread, IInv, WorkerOK, Threads
<1>1. /\ t # None /\ held[w] = None
      /\ vstate[t] = "unborn" /\ oneshot[t] = Empty
  BY <1>0, ServerAssumption DEF CreateThread, IInv, WorkerOK, Threads
<1>2. /\ held' = [held EXCEPT ![w] = t]
      /\ vstate' = [vstate EXCEPT ![t] = "starting"]
      /\ pc' = [pc EXCEPT ![w] = "send"]
      /\ UNCHANGED <<clientVars, req, threads, queue, current, oneshot>>
  BY <1>0 DEF CreateThread
<1> USE DEF clientVars, Threads
<1>3. /\ \A i \in 1 .. Len(threads) : threads[i] # t
      /\ \A v \in Workers : held[v] # t
  BY <1>1 DEF IInv, CacheOK, WorkerOK, SendOK, WaitOK
<1>4. queue[t] = <<>> /\ current[t] = None
  BY <1>1, <1>3 DEF IInv, BusyHeld
<1>5. \A v \in Workers : v # w => req[v] # t
  BY <1>0, <1>1 DEF IInv, HandledOnce
<1>6. TypeOK'
  BY <1>1, <1>2 DEF IInv, TypeOK
<1>7. OwnedOnce'
  <2>1. \A v \in Workers : held'[v] = IF v = w THEN t ELSE held[v]
    BY <1>2 DEF IInv, TypeOK
  <2> QED
    BY <1>2, <1>3, <2>1 DEF IInv, OwnedOnce
<1>8. CacheOK' /\ CacheBounded' /\ HandledOnce'
  BY <1>2, <1>3 DEF IInv, TypeOK, CacheOK, CacheBounded, HandledOnce
<1>9. ASSUME NEW v \in Workers PROVE WorkerOK(v)'
  <2>1. CASE v = w
    <3>1. SendOK(t, t)'
      BY <1>1, <1>2, <1>4 DEF IInv, TypeOK, SendOK
    <3>2. pc'[v] = "send" /\ held'[v] = t /\ req'[v] = t
      BY <1>0, <1>2, <2>1 DEF IInv, TypeOK
    <3> QED
      BY <3>1, <3>2 DEF WorkerOK
  <2>2. CASE v # w
    BY <1>2, <1>3, <1>5, <2>2 DEF IInv, TypeOK, WorkerOK, SendOK, WaitOK
  <2> QED
    BY <2>1, <2>2
<1>10. Fresh'
  BY <1>0, <1>1, <1>2 DEF IInv, TypeOK, Fresh
<1>11. BusyHeld'
  BY <1>1, <1>2, ServerAssumption DEF IInv, TypeOK, BusyHeld
<1> QED
  BY <1>6, <1>7, <1>8, <1>9, <1>10, <1>11 DEF IInv

\* VerifierThread::verify preserves the invariant.
LEMMA SendToThreadOK ==
  ASSUME IInv, NEW w \in Workers, SendToThread(w)
  PROVE  IInv'
<1> DEFINE t == held[w]
           r == req[w]
<1>1. /\ t \in Threads /\ r \in Requests /\ t # None /\ SendOK(t, r)
      /\ ConfigOf[t] = ConfigOf[r]
  BY ServerAssumption DEF SendToThread, IInv, WorkerOK, Threads
<1>2. Append(queue[t], r) = <<r>>
  BY <1>1 DEF SendOK
<1>3. /\ queue' = [queue EXCEPT ![t] = <<r>>]
      /\ pc' = [pc EXCEPT ![w] = "wait"]
      /\ vstate[t] \in {"starting", "listening"}
      /\ UNCHANGED <<clientVars, req, held, threads, vstate, current, oneshot>>
  BY <1>1, <1>2 DEF SendToThread, ReceiverAlive, SendOK
<1> USE DEF clientVars
<1>4. /\ \A i \in 1 .. Len(threads) : threads[i] # t
      /\ \A v \in Workers : v # w => held[v] # t
  BY <1>1 DEF IInv, OwnedOnce
<1>5. TypeOK'
  BY <1>1, <1>3 DEF IInv, TypeOK
<1>6. OwnedOnce' /\ CacheBounded' /\ HandledOnce' /\ Fresh'
  BY <1>3 DEF IInv, OwnedOnce, CacheBounded, HandledOnce, Fresh
<1>7. CacheOK'
  BY <1>3, <1>4 DEF IInv, TypeOK, CacheOK
<1>8. ASSUME NEW v \in Workers PROVE WorkerOK(v)'
  <2>1. CASE v = w
    <3>1. WaitOK(t, r)'
      BY <1>1, <1>3 DEF IInv, TypeOK, SendOK, WaitOK
    <3> QED
      BY <1>1, <1>3, <2>1, <3>1 DEF IInv, TypeOK, WorkerOK
  <2>2. CASE v # w
    BY <1>3, <1>4, <2>2 DEF IInv, TypeOK, WorkerOK, SendOK, WaitOK, Threads
  <2> QED
    BY <2>1, <2>2
<1>9. BusyHeld'
  BY <1>1, <1>3 DEF IInv, TypeOK, BusyHeld
<1> QED
  BY <1>5, <1>6, <1>7, <1>8, <1>9 DEF IInv

\* The invariant is inductive.
LEMMA NextOK == IInv /\ [Next]_vars => IInv'
<1> SUFFICES ASSUME IInv, [Next]_vars PROVE IInv'
  OBVIOUS
<1>1. CASE \E r \in Requests : SendRequest(r)
  BY <1>1, SendRequestOK
<1>2. CASE \E w \in Workers : HandlerStep(w)
  BY <1>2, AcceptOK, RejectOK, TakeThreadOK, CreateThreadOK, SpawnFailsOK, SendToThreadOK,
     SendFailsOK, PutBackOK, HandleCanceledOK DEF HandlerStep
<1>3. CASE \E t \in Threads : ThreadStep(t)
  BY <1>3, StartUpOK, DieOK, ReceiveOK, ExitOK, SendResultOK
  DEF ThreadStep, StartUpPanics, VerifyPanics
<1>4. CASE UNCHANGED vars
  BY <1>4 DEF vars, clientVars, workerVars, threadVars, IInv, TypeOK, OwnedOnce, CacheOK,
              WorkerOK, SendOK, WaitOK, HandledOnce, Fresh, BusyHeld, CacheBounded
<1> QED
  BY <1>1, <1>2, <1>3, <1>4 DEF Next

\* The inductive invariant holds in every reachable state of the server.
THEOREM Invariance == Spec => []IInv
BY InitOK, NextOK, PTL DEF Spec

-----------------------------------------------------------------------------
(* Theorems *)

\* The variables of run_verifier and of the verifier threads keep their types.
THEOREM TypeCorrect == Spec => []TypeOK
<1>1. IInv => TypeOK
  BY DEF IInv
<1> QED
  BY <1>1, Invariance, PTL

\* The two critical sections of run_verifier never duplicate or share a verifier
\* thread: it is in the cache once or in the hands of one handler.
THEOREM ThreadsOwnedOnce == Spec => []OwnedOnce
<1>1. IInv => OwnedOnce
  BY DEF IInv
<1> QED
  BY <1>1, Invariance, PTL

\* Only live and idle threads are in the cache of run_verifier.
THEOREM CacheIsIdle == Spec => []CachedThreadsIdle
<1>1. IInv => CachedThreadsIdle
  BY DEF IInv, CacheOK, CachedThreadsIdle
<1> QED
  BY <1>1, Invariance, PTL

\* The cache of run_verifier stays within its size.
THEOREM CacheStaysBounded == Spec => []CacheBounded
<1>1. IInv => CacheBounded
  BY DEF IInv
<1> QED
  BY <1>1, Invariance, PTL

\* listen_for_requests always finds the receiver of the result it sends.
THEOREM ResultsAreAwaited == Spec => []ResultIsAwaited
<1>1. IInv => ResultIsAwaited
  <2> SUFFICES ASSUME IInv, NEW t \in Threads, NEW r \in Requests,
                      current[t] = r \/ r \in Range(queue[t])
               PROVE  \E w \in Workers : pc[w] = "wait" /\ req[w] = r /\ held[w] = t
    BY DEF ResultIsAwaited
  <2>1. current[t] # None \/ queue[t] # <<>>
    BY ServerAssumption, RangeOfShortSeq
  <2>2. PICK w \in Workers :
           /\ held[w] = t
           /\ req[w] \in Requests
           /\ \/ pc[w] = "send" /\ SendOK(t, req[w])
              \/ pc[w] = "wait" /\ WaitOK(t, req[w])
    BY <2>1, Holder
  <2>3. pc[w] = "wait" /\ WaitOK(t, req[w])
    BY <2>1, <2>2 DEF SendOK
  <2>4. Range(queue[t]) = {} \/ Range(queue[t]) = {req[w]}
    BY <2>3, RangeOfShortSeq DEF WaitOK
  <2>5. current[t] \in {None, req[w]}
    BY <2>3 DEF WaitOK
  <2>6. req[w] = r
    BY <2>4, <2>5, ServerAssumption
  <2> QED
    BY <2>2, <2>3, <2>6
<1> QED
  BY <1>1, Invariance, PTL

\* Viper is started or used by at most as many threads at a time as the runtime
\* has workers.
THEOREM ParallelismStaysBounded ==
  ASSUME IsFiniteSet(Workers)
  PROVE  Spec => []ParallelismBounded
<1> DEFINE Busy == {t \in Threads : vstate[t] \in {"starting", "verifying"}}
<1>1. IInv => ParallelismBounded
  <2> SUFFICES ASSUME IInv PROVE Cardinality(Busy) <= Cardinality(Workers)
    BY DEF ParallelismBounded
  <2> DEFINE holder == [t \in Busy |-> CHOOSE w \in Workers : held[w] = t]
  <2>1. \A t \in Busy : holder[t] \in Workers /\ held[holder[t]] = t
    BY DEF IInv, BusyHeld
  <2> HIDE DEF Busy
  <2>2. holder \in Injection(Busy, Workers)
    <3>1. holder \in [Busy -> Workers]
      BY <2>1
    <3>2. \A s, t \in Busy : holder[s] = holder[t] => s = t
      <4> HIDE DEF holder
      <4> QED
        BY <2>1
    <3> HIDE DEF holder
    <3> QED
      BY <3>1, <3>2 DEF Injection, IsInjective
  <2> QED
    BY <2>2, FS_Injection
<1> QED
  BY <1>1, Invariance, PTL

\* prusti-server implements the interface VerificationService: run_verifier
\* answers a request at most once, and with the result of that request's program
\* under that request's configuration or with an error.
THEOREM ServerImplementsService == Spec => ImplementsService
<1>1. Init => Service!Init
  BY DEF Init, Service!Init
<1>2. ASSUME IInv, [Next]_vars PROVE [Service!Next]_(Service!vars)
  <2> USE DEF Service!vars, Service!Next
  <2>1. ASSUME NEW w \in Workers, NEW a, Finish(w, a), req[w] \in Requests,
               a \in Service!RightAnswers(req[w])
        PROVE  Service!Respond(req[w])
    <3>1. req[w] \in sent /\ response[req[w]] = Service!Waiting
      BY <1>2, <2>1, ServerAssumption DEF IInv, HandledOnce
    <3> QED
      BY <2>1, <3>1 DEF Finish, Service!Respond
  <2>2. ASSUME NEW r \in Requests, SendRequest(r) PROVE Service!Next
    BY <2>2 DEF SendRequest, Service!Send
  <2>3. ASSUME NEW w \in Workers, HandlerStep(w) PROVE Service!Next \/ UNCHANGED Service!vars
    <3>1. ASSUME NEW r \in Requests, Accept(w, r) PROVE UNCHANGED Service!vars
      BY <3>1 DEF Accept, clientVars
    <3>2. ASSUME NEW r \in Requests, Reject(w, r) PROVE Service!Respond(r)
      BY <3>2 DEF Reject, Pending, Service!Respond, Service!RightAnswers
    <3>3. CASE TakeThread(w) \/ CreateThread(w) \/ SendToThread(w)
      BY <3>3 DEF TakeThread, CreateThread, SendToThread, clientVars
    <3>4. CASE SpawnFails(w) \/ SendFails(w)
      <4>1. req[w] \in Requests
        BY <1>2, <3>4 DEF SpawnFails, SendFails, IInv, WorkerOK
      <4>2. Service!Respond(req[w])
        BY <3>4, <4>1, <2>1 DEF SpawnFails, SendFails, Service!RightAnswers
      <4> QED
        BY <4>1, <4>2
    <3>5. CASE HandleCanceled(w)
      <4>1. req[w] \in Requests
        BY <1>2, <3>5 DEF HandleCanceled, IInv, WorkerOK
      <4>2. Service!Respond(req[w])
        BY <3>5, <4>1, <2>1 DEF HandleCanceled, Service!RightAnswers
      <4> QED
        BY <4>1, <4>2
    <3>6. CASE PutBack(w)
      <4>1. /\ req[w] \in Requests
            /\ ConfigOf[held[w]] = ConfigOf[req[w]]
            /\ WaitOK(held[w], req[w])
        BY <1>2, <3>6 DEF PutBack, IInv, WorkerOK
      <4>2. oneshot[req[w]] \in Service!RightAnswers(req[w])
        BY <3>6, <4>1 DEF PutBack, WaitOK, Service!RightAnswers
      <4>3. Service!Respond(req[w])
        BY <3>6, <4>1, <4>2, <2>1 DEF PutBack
      <4> QED
        BY <4>1, <4>3
    <3> QED
      BY <2>3, <3>1, <3>2, <3>3, <3>4, <3>5, <3>6 DEF HandlerStep
  <2>4. ASSUME NEW t \in Threads, ThreadStep(t) PROVE UNCHANGED Service!vars
    BY <2>4 DEF ThreadStep, StartUp, StartUpPanics, Receive, Exit, SendResult, VerifyPanics,
                clientVars
  <2>5. CASE UNCHANGED vars
    BY <2>5 DEF vars, clientVars
  <2> QED
    BY <1>2, <2>2, <2>3, <2>4, <2>5 DEF Next
<1> QED
  BY <1>1, <1>2, Invariance, PTL DEF Spec, ImplementsService, Service!Spec

=============================================================================
