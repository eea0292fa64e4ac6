---------------------------- MODULE PrustiServer ----------------------------
(***************************************************************************)
(* prusti-server: HTTP handlers (ServerSideService, run on the workers of  *)
(* a tokio runtime) serve verification requests with verifier threads,     *)
(* each attached to the JVM and started for one backend configuration.     *)
(* PrustiServer::run_verifier takes an idle thread out of a cache or       *)
(* creates one, sends it the request over an mpsc channel, blocks on a     *)
(* oneshot channel for the result, and puts the thread back, evicting the  *)
(* least recently used one when the cache is full.  A thread that panics   *)
(* drops its end of both channels.                                         *)
(*                                                                         *)
(* A verifier thread is created by exactly one request, so it is named     *)
(* after that request, and its backend configuration is that request's.    *)
(***************************************************************************)
EXTENDS Naturals, Sequences, FiniteSets, SequencesExt

CONSTANTS
  Workers,      \* the tokio worker threads: ServerSideService.max_concurrency of them
  Requests,     \* the requests that clients may post
  ConfigOf,     \* ViperBackendConfig of each request
  Undecodable,  \* the requests whose body does not deserialize on the server
  CacheSize,    \* PrustiServer.cache_size
  Kinds,        \* variants of viper::VerificationResult
  None          \* Option::None

ASSUME ServerAssumption ==
  /\ CacheSize \in Nat
  /\ Undecodable \subseteq Requests
  /\ None \notin Requests

VARIABLES
  sent,      \* requests posted by a client
  response,  \* what the client got for each request
  pc,        \* where each worker is in run_verifier
  req,       \* the request each worker handles
  held,      \* the VerifierThread each worker owns (taken out of the cache or new)
  threads,   \* PrustiServer.threads, a VecDeque; index 1 is its front
  vstate,    \* what each verifier thread is doing
  queue,     \* the mpsc channel of each verifier thread
  current,   \* the request each verifier thread works on
  oneshot    \* the oneshot channel of each request

Service == INSTANCE VerificationService

clientVars == <<sent, response>>
workerVars == <<pc, req, held>>
threadVars == <<vstate, queue, current>>
vars == <<clientVars, workerVars, threads, threadVars, oneshot>>

Threads == Requests

Empty    == [tag |-> "empty"]   \* oneshot: no value yet
Canceled == [tag |-> "canceled"]   \* oneshot: the sender was dropped

\* Mutant: the thread keeps a clone of its own sender.
HasOwner_SelfSender(t) == vstate[t] # "unborn"

\* A VerifierThread value, and with it the sending half of its channel, lives
\* in the cache or in the frame of one handler.
HasOwner(t) == t \in Range(threads) \/ \E w \in Workers : held[w] = t

\* The receiving half lives in the verifier thread, from its creation to its end.
ReceiverAlive(t) == vstate[t] \in {"starting", "listening", "verifying"}

Init ==
  /\ sent = {}
  /\ response = [r \in Requests |-> Service!Waiting]
  /\ pc = [w \in Workers |-> "idle"]
  /\ req = [w \in Workers |-> None]
  /\ held = [w \in Workers |-> None]
  /\ threads = <<>>
  /\ vstate = [t \in Threads |-> "unborn"]
  /\ queue = [t \in Threads |-> <<>>]
  /\ current = [t \in Threads |-> None]
  /\ oneshot = [r \in Requests |-> Empty]

-----------------------------------------------------------------------------
(* Clients: PrustiServerConnection::verify_checked *)

SendRequest(r) ==
  /\ r \notin sent
  /\ sent' = sent \cup {r}
  /\ UNCHANGED <<response, workerVars, threads, threadVars, oneshot>>

-----------------------------------------------------------------------------
(* Handlers: the warp filter chain and PrustiServer::run_verifier *)

\* A request that waits for a worker.
Pending(r) ==
  /\ r \in sent
  /\ response[r] = Service!Waiting
  /\ \A w \in Workers : req[w] # r

\* The handler of worker w ends, with the client of its request getting `a';
\* a VerifierThread the handler still owns is dropped.
Finish(w, a) ==
  /\ response' = [response EXCEPT ![req[w]] = a]
  /\ pc' = [pc EXCEPT ![w] = "idle"]
  /\ req' = [req EXCEPT ![w] = None]
  /\ held' = [held EXCEPT ![w] = None]
  /\ UNCHANGED sent

Accept(w, r) ==
  /\ pc[w] = "idle"
  /\ Pending(r) /\ r \notin Undecodable
  /\ pc' = [pc EXCEPT ![w] = "take"]
  /\ req' = [req EXCEPT ![w] = r]
  /\ UNCHANGED <<clientVars, held, threads, threadVars, oneshot>>

\* The body does not decode: the filter rejects it and the client sees an
\* HTTP error status.
Reject(w, r) ==
  /\ pc[w] = "idle"
  /\ Pending(r) /\ r \in Undecodable
  /\ response' = [response EXCEPT ![r] = Service!RequestFailed]
  /\ UNCHANGED <<sent, workerVars, threads, threadVars, oneshot>>

\* Mutant: any cached thread will do.
Position_AnyConfig(r) == IF threads = <<>> THEN 0 ELSE 1

\* The first thread in the cache with the configuration of request r; 0 if none.
Position(r) == SelectInSeq(threads, LAMBDA t : ConfigOf[t] = ConfigOf[r])

\* Mutant: the thread found is used but not removed from the cache.
TakeThread_NotRemoved(w) ==
  /\ pc[w] = "take"
  /\ LET i == Position(req[w]) IN
       /\ held' = IF i # 0 THEN [held EXCEPT ![w] = threads[i]] ELSE held
       /\ pc' = [pc EXCEPT ![w] = IF i # 0 THEN "send" ELSE "create"]
  /\ UNCHANGED <<clientVars, req, threads, threadVars, oneshot>>

TakeThread(w) ==
  /\ pc[w] = "take"
  /\ LET i == Position(req[w]) IN
       \/ /\ i # 0
          /\ held' = [held EXCEPT ![w] = threads[i]]
          /\ threads' = RemoveAt(threads, i)
          /\ pc' = [pc EXCEPT ![w] = "send"]
       \/ /\ i = 0
          /\ pc' = [pc EXCEPT ![w] = "create"]
          /\ UNCHANGED <<held, threads>>
  /\ UNCHANGED <<clientVars, req, threadVars, oneshot>>

CreateThread(w) ==
  /\ pc[w] = "create"
  /\ held' = [held EXCEPT ![w] = req[w]]
  /\ vstate' = [vstate EXCEPT ![req[w]] = "starting"]
  /\ pc' = [pc EXCEPT ![w] = "send"]
  /\ UNCHANGED <<clientVars, req, threads, queue, current, oneshot>>

\* The operating system refuses the thread: spawn(..).unwrap() panics in the
\* handler, and the connection of the client is dropped.
SpawnFails(w) ==
  /\ pc[w] = "create"
  /\ Finish(w, Service!RequestFailed)
  /\ UNCHANGED <<threads, threadVars, oneshot>>

\* VerifierThread::verify.
SendToThread(w) ==
  /\ pc[w] = "send"
  /\ ReceiverAlive(held[w])
  /\ queue' = [queue EXCEPT ![held[w]] = Append(@, req[w])]
  /\ pc' = [pc EXCEPT ![w] = "wait"]
  /\ UNCHANGED <<clientVars, req, held, threads, vstate, current, oneshot>>

\* VerifierThread::verify when the thread has already died: send(..).unwrap()
\* panics in the handler.
SendFails(w) ==
  /\ pc[w] = "send"
  /\ ~ReceiverAlive(held[w])
  /\ Finish(w, Service!RequestFailed)
  /\ UNCHANGED <<threads, threadVars, oneshot>>

\* Mutant: off by one in the test for a full cache.
PutBack_OffByOne(w) ==
  /\ pc[w] = "wait"
  /\ oneshot[req[w]] \notin {Empty, Canceled}
  /\ threads' = <<held[w]>> \o (IF Len(threads) > CacheSize THEN Front(threads) ELSE threads)
  /\ Finish(w, oneshot[req[w]])
  /\ UNCHANGED <<threadVars, oneshot>>

\* The Ok arm: put the thread back at the front of the cache.
PutBack(w) ==
  /\ pc[w] = "wait"
  /\ oneshot[req[w]] \notin {Empty, Canceled}
  /\ LET kept == IF Len(threads) >= CacheSize /\ threads # <<>>
                   THEN Front(threads)
                   ELSE threads
     IN  threads' = <<held[w]>> \o kept
  /\ Finish(w, oneshot[req[w]])
  /\ UNCHANGED <<threadVars, oneshot>>

\* Mutant: the thread is put back before the result is looked at.
HandleCanceled_PutsBack(w) ==
  /\ pc[w] = "wait"
  /\ oneshot[req[w]] = Canceled
  /\ threads' = <<held[w]>> \o threads
  /\ Finish(w, Service!VerifierPanicked)
  /\ UNCHANGED <<threadVars, oneshot>>

\* Mutant: the wait for the result gives up early.
HandleCanceled_TimesOut(w) ==
  /\ pc[w] = "wait"
  /\ oneshot[req[w]] \in {Empty, Canceled}
  /\ Finish(w, Service!VerifierPanicked)
  /\ UNCHANGED <<threads, threadVars, oneshot>>

\* The Err arm: the verifier thread panicked and the request is canceled.
HandleCanceled(w) ==
  /\ pc[w] = "wait"
  /\ oneshot[req[w]] = Canceled
  /\ Finish(w, Service!VerifierPanicked)
  /\ UNCHANGED <<threads, threadVars, oneshot>>

-----------------------------------------------------------------------------
(* Verifier threads: VerifierThread::new, listen_for_requests, VerifierRunner *)

\* Mutant: the panicking thread leaks the oneshot sender.
Die_LeaksSender(t) ==
  /\ vstate' = [vstate EXCEPT ![t] = "panicked"]
  /\ queue' = [queue EXCEPT ![t] = <<>>]
  /\ current' = [current EXCEPT ![t] = None]
  /\ UNCHANGED oneshot

\* The thread unwinds: it drops the request it works on and those still in its
\* channel, each with its oneshot sender.
Die(t) ==
  LET lost == Range(queue[t]) \cup ({current[t]} \ {None}) IN
    /\ vstate' = [vstate EXCEPT ![t] = "panicked"]
    /\ queue' = [queue EXCEPT ![t] = <<>>]
    /\ current' = [current EXCEPT ![t] = None]
    /\ oneshot' = [r \in Requests |-> IF r \in lost THEN Canceled ELSE oneshot[r]]

\* The thread is attached to the JVM and its verifier started.
StartUp(t) ==
  /\ vstate[t] = "starting"
  /\ vstate' = [vstate EXCEPT ![t] = "listening"]
  /\ UNCHANGED <<clientVars, workerVars, threads, queue, current, oneshot>>

StartUpPanics(t) ==
  /\ vstate[t] = "starting"
  /\ Die(t)
  /\ UNCHANGED <<clientVars, workerVars, threads>>

Receive(t) ==
  /\ vstate[t] = "listening"
  /\ queue[t] # <<>>
  /\ vstate' = [vstate EXCEPT ![t] = "verifying"]
  /\ current' = [current EXCEPT ![t] = Head(queue[t])]
  /\ queue' = [queue EXCEPT ![t] = Tail(@)]
  /\ UNCHANGED <<clientVars, workerVars, threads, oneshot>>

\* recv() fails once the channel is empty and its sender is gone; the thread
\* drops its verifier and detaches from the JVM.
Exit(t) ==
  /\ vstate[t] = "listening"
  /\ queue[t] = <<>>
  /\ ~HasOwner(t)
  /\ vstate' = [vstate EXCEPT ![t] = "exited"]
  /\ UNCHANGED <<clientVars, workerVars, threads, queue, current, oneshot>>

\* VerifierRunner::verify returns a result of kind k, which is sent to the
\* handler that waits for it.
SendResult(t, k) ==
  /\ vstate[t] = "verifying"
  /\ oneshot' = [oneshot EXCEPT ![current[t]] = Service!Result(current[t], ConfigOf[t], k)]
  /\ vstate' = [vstate EXCEPT ![t] = "listening"]
  /\ current' = [current EXCEPT ![t] = None]
  /\ UNCHANGED <<clientVars, workerVars, threads, queue>>

\* A Java exception in call_verify, an unknown error class, ...: unwrap_result
\* or unreachable! panics.
VerifyPanics(t) ==
  /\ vstate[t] = "verifying"
  /\ Die(t)
  /\ UNCHANGED <<clientVars, workerVars, threads>>

-----------------------------------------------------------------------------
HandlerStep(w) ==
  \/ \E r \in Requests : Accept(w, r) \/ Reject(w, r)
  \/ TakeThread(w)
  \/ CreateThread(w) \/ SpawnFails(w)
  \/ SendToThread(w) \/ SendFails(w)
  \/ PutBack(w) \/ HandleCanceled(w)

ThreadStep(t) ==
  \/ StartUp(t) \/ StartUpPanics(t)
  \/ Receive(t) \/ Exit(t)
  \/ \E k \in Kinds : SendResult(t, k)
  \/ VerifyPanics(t)

Next ==
  \/ \E r \in Requests : SendRequest(r)
  \/ \E w \in Workers : HandlerStep(w)
  \/ \E t \in Threads : ThreadStep(t)

Spec == Init /\ [][Next]_vars

\* The runtime keeps polling its tasks, the operating system schedules every
\* thread, and Viper returns from each call: no handler and no verifier thread
\* that can take a step is passed over forever.
Fairness ==
  /\ \A w \in Workers : WF_vars(HandlerStep(w))
  /\ \A t \in Threads : WF_vars(ThreadStep(t))

FairSpec == Spec /\ Fairness
-----------------------------------------------------------------------------
(* Properties *)

\* Types of the variables; the channel of a thread never holds two requests.
TypeOK ==
  /\ sent \subseteq Requests
  /\ response \in [Requests -> Service!Results
                     \cup {Service!Waiting, Service!VerifierPanicked, Service!RequestFailed}]
  /\ pc \in [Workers -> {"idle", "take", "create", "send", "wait"}]
  /\ req \in [Workers -> Requests \cup {None}]
  /\ held \in [Workers -> Threads \cup {None}]
  /\ threads \in Seq(Threads)
  /\ vstate \in [Threads -> {"unborn", "starting", "listening", "verifying",
                             "exited", "panicked"}]
  /\ queue \in [Threads -> Seq(Requests)]
  /\ current \in [Threads -> Requests \cup {None}]
  /\ oneshot \in [Requests -> Service!Results \cup {Empty, Canceled}]

\* A verifier thread has one owner: it is in the cache once or in the hands of
\* one handler, never both, whatever the interleaving of the two critical
\* sections of run_verifier.
OwnedOnce ==
  /\ \A i, j \in 1 .. Len(threads) : threads[i] = threads[j] => i = j
  /\ \A w \in Workers : held[w] # None => \A i \in 1 .. Len(threads) : threads[i] # held[w]
  /\ \A v, w \in Workers : held[v] = held[w] /\ held[v] # None => v = w

\* A thread in the cache is alive and idle: run_verifier puts back only a
\* thread that answered, and nothing can panic between the answer and recv().
CachedThreadsIdle ==
  \A i \in 1 .. Len(threads) :
    /\ vstate[threads[i]] = "listening"
    /\ queue[threads[i]] = <<>>

\* A request that a verifier thread works on, or has in its channel, has a
\* handler blocked on its oneshot channel: the error "verifier thread
\* attempting to send result to dropped receiver" is never logged.
ResultIsAwaited ==
  \A t \in Threads, r \in Requests :
    current[t] = r \/ r \in Range(queue[t]) =>
      \E w \in Workers : pc[w] = "wait" /\ req[w] = r /\ held[w] = t

\* Viper is not used by more threads at a time than there are workers: with
\* the one worker that ServerSideService::new configures, never in parallel.
ParallelismBounded ==
  Cardinality({t \in Threads : vstate[t] \in {"starting", "verifying"}})
    <= Cardinality(Workers)

\* The cache of verifier threads stays within its size; a size of zero still
\* keeps the thread used last.
CacheBounded == Len(threads) <= (IF CacheSize = 0 THEN 1 ELSE CacheSize)

\* The server implements the service it offers: each request is answered at
\* most once, and never with the result of another program or configuration.
ImplementsService == Service!Spec

\* Every posted request is answered, also when verifier threads panic.
ImplementsFairService == Service!FairSpec

\* A thread that was evicted from the cache ends: no verifier thread leaks.
OrphansExit ==
  \A t \in Threads :
    (/\ vstate[t] = "listening"
     /\ t \notin Range(threads)
     /\ \A w \in Workers : held[w] # t) ~> vstate[t] = "exited"
=============================================================================
