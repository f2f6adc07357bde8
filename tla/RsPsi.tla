------------------------------- MODULE RsPsi -------------------------------
(***************************************************************************)
(* volePSI's RsPsiReceiver::run, from the moment the OPRF has evaluated    *)
(* the receiver's inputs: one or several threads put the evaluations in    *)
(* hash maps, the sender's evaluations arrive, the threads look them up,   *)
(* and each writes the indices it finds over a stretch of the memory that  *)
(* held the receiver's evaluations.                                        *)
(*                                                                         *)
(* The evaluation of the receiver's input at index i is i itself: OPRF     *)
(* evaluations are equal exactly when the inputs are.  Which thread a hash *)
(* belongs to (its first four bytes modulo the number of threads) is any   *)
(* function of the hash.                                                   *)
(***************************************************************************)
EXTENDS Integers, Sequences, FiniteSets, SequencesExt

CONSTANTS RecverSize,        \* mRecverSize
          ThreadCounts,      \* the values of mNumThreads
          SenderInputs,      \* what the sender may send: sequences of hashes
          MaskSize,          \* mMaskSize, bytes of a sender's hash that are sent
          AssumeFit          \* only runs in which every thread's results fit

(* A hash that no input of the receiver has, and what a damaged hash is.   *)
Foreign == -1

ASSUME RecverSizeAssumption == RecverSize \in Nat \ {0}
ASSUME ThreadCountsAssumption == ThreadCounts \subseteq Nat \ {0}
ASSUME SenderInputsAssumption ==
  \A s \in SenderInputs :
    /\ s \in Seq((0 .. RecverSize - 1) \cup {Foreign})
    /\ \A j, k \in DOMAIN s : s[j] = s[k] /\ s[j] # Foreign => j = k
ASSUME MaskSizeAssumption == MaskSize \in 4 .. 16
ASSUME AssumeFitAssumption == AssumeFit \in BOOLEAN

VARIABLES
  numThreads,                \* mNumThreads
  bin,                       \* the thread each of the receiver's hashes belongs to
  sent,                      \* history: the hashes as the sender sent them
  words,                     \* the memory that "data" points to, as u64 words
  theirHashes,               \* the sender's hashes, behind myHashes in that memory
  main,                      \* where the coroutine is
  hashingDone,               \* hashingDoneProm is set
  numDone,                   \* MultiThread::numDone
  pc,                        \* where each thread is
  cursor,                    \* the loop variable i of each thread
  map,                       \* the hash map of each thread
  found,                     \* intersectionSize of each thread
  mIntersection

inputs == <<numThreads, bin, sent>>
memory == <<words, theirHashes>>
vars == <<inputs, memory, main, hashingDone, numDone, pc, cursor, map, found,
          mIntersection>>

Indices == 0 .. RecverSize - 1

(* mNumThreads < 2 keeps the work in the coroutine.                        *)
Threads == IF numThreads < 2 THEN {} ELSE 0 .. numThreads - 1

-----------------------------------------------------------------------------
(* Memory: myHashes is RecverSize blocks of two words, theirHashes follows.*)

Untouched == -1                                 \* a word of a hash as received

MyWords == 2 * RecverSize

(* Where thread t puts its results: the first word of its stretch.         *)
Begin(t) == 2 * ((t * RecverSize) \div numThreads)
Word(t, k) == Begin(t) + k

(* The entries of theirHashes that share bytes with a word behind myHashes.*)
Under(word) ==
  {k \in DOMAIN theirHashes :
     /\ (k - 1) * MaskSize < 8 * (word - MyWords + 1)
     /\ 8 * (word - MyWords) < k * MaskSize}

Store(word, index) ==
  /\ words' = [words EXCEPT ![word] = index]
  /\ theirHashes' =
       [k \in DOMAIN theirHashes |->
          IF word >= MyWords /\ k \in Under(word) THEN Foreign ELSE theirHashes[k]]

Intact(i) == words[2 * i] = Untouched /\ words[2 * i + 1] = Untouched

-----------------------------------------------------------------------------
Common == {sent[k] : k \in DOMAIN sent} \ {Foreign}

(* Every thread has at most as many results as its stretch has words.      *)
Fit == \A t \in Threads :
         Cardinality({i \in Common : bin[i] = t}) <= Begin(t + 1) - Begin(t)

Init ==
  /\ numThreads \in ThreadCounts
  /\ bin \in [Indices -> 0 .. numThreads - 1]
  /\ sent \in SenderInputs
  /\ AssumeFit => Fit
  /\ words = [w \in 0 .. MyWords + Len(sent) - 1 |-> Untouched]
  /\ theirHashes = <<>>
  /\ main = "receiving"
  /\ hashingDone = FALSE
  /\ numDone = 0
  /\ pc = [t \in Threads |-> "hashing"]
  /\ cursor = [t \in Threads |-> 0]
  /\ map = [t \in Threads |-> {}]
  /\ found = [t \in Threads |-> 0]
  /\ mIntersection = <<>>

(* The threads run while the process does.                                 *)
At(t, label) == pc[t] = label /\ main # "terminated"
Goto(t, label) == pc' = [pc EXCEPT ![t] = label]

-----------------------------------------------------------------------------
(* The routine of thread t.                                                *)

(* It reads the next of the receiver's hashes and keeps it if it is its.   *)
Hash(t) ==
  /\ At(t, "hashing")
  /\ cursor[t] < RecverSize
  /\ map' = IF Intact(cursor[t]) /\ bin[cursor[t]] = t
            THEN [map EXCEPT ![t] = @ \cup {cursor[t]}] ELSE map
  /\ cursor' = [cursor EXCEPT ![t] = @ + 1]
  /\ UNCHANGED <<inputs, memory, main, hashingDone, numDone, pc, found, mIntersection>>

ArriveWithoutWaiting(t) ==
  /\ At(t, "hashing")
  /\ cursor[t] = RecverSize
  /\ numDone' = numDone + 1
  /\ Goto(t, "waiting")
  /\ UNCHANGED <<inputs, memory, main, hashingDone, cursor, map, found, mIntersection>>

ArriveMissingLast(t) ==
  /\ At(t, "hashing")
  /\ cursor[t] = RecverSize
  /\ numDone' = numDone + 1
  /\ IF numDone > numThreads
     THEN hashingDone' = TRUE /\ Goto(t, "waiting")
     ELSE UNCHANGED hashingDone /\ Goto(t, "barrier")
  /\ UNCHANGED <<inputs, memory, main, cursor, map, found, mIntersection>>

(* The last thread to have read all hashes sets hashingDoneProm.           *)
Arrive(t) ==
  /\ At(t, "hashing")
  /\ cursor[t] = RecverSize
  /\ numDone' = numDone + 1
  /\ IF numDone + 1 = numThreads
     THEN hashingDone' = TRUE /\ Goto(t, "waiting")
     ELSE UNCHANGED hashingDone /\ Goto(t, "barrier")
  /\ UNCHANGED <<inputs, memory, main, cursor, map, found, mIntersection>>

PassBarrierCounting(t) ==
  /\ At(t, "barrier")
  /\ hashingDone
  /\ Goto(t, "waiting")
  /\ numDone' = numDone + 1
  /\ UNCHANGED <<inputs, memory, main, hashingDone, cursor, map, found, mIntersection>>

(* hashingDoneFu.get() returns.                                            *)
PassBarrier(t) ==
  /\ At(t, "barrier")
  /\ hashingDone
  /\ Goto(t, "waiting")
  /\ UNCHANGED <<inputs, memory, main, hashingDone, numDone, cursor, map, found,
                 mIntersection>>

(* fu.get() returns: the sender's hashes are there.                        *)
StartFinding(t) ==
  /\ At(t, "waiting")
  /\ main = "joining"
  /\ Goto(t, "finding")
  /\ cursor' = [cursor EXCEPT ![t] = 0]
  /\ UNCHANGED <<inputs, memory, main, hashingDone, numDone, map, found, mIntersection>>

Matches(t, h) == h # Foreign /\ bin[h] = t /\ h \in map[t]

FindWithoutCounting(t) ==
  /\ At(t, "finding")
  /\ cursor[t] < Len(theirHashes)
  /\ LET h == theirHashes[cursor[t] + 1] IN
       IF Matches(t, h)
       THEN Store(Begin(t), h) /\ found' = [found EXCEPT ![t] = @ + 1]
       ELSE UNCHANGED <<memory, found>>
  /\ cursor' = [cursor EXCEPT ![t] = @ + 1]
  /\ UNCHANGED <<inputs, main, hashingDone, numDone, pc, map, mIntersection>>

Find(t) ==
  /\ At(t, "finding")
  /\ cursor[t] < Len(theirHashes)
  /\ LET h == theirHashes[cursor[t] + 1] IN
       IF Matches(t, h)
       THEN Store(Word(t, found[t]), h) /\ found' = [found EXCEPT ![t] = @ + 1]
       ELSE UNCHANGED <<memory, found>>
  /\ cursor' = [cursor EXCEPT ![t] = @ + 1]
  /\ UNCHANGED <<inputs, main, hashingDone, numDone, pc, map, mIntersection>>

(* Under mMergeMtx, the thread's stretch is appended to the result.        *)
Merge(t) ==
  /\ At(t, "finding")
  /\ cursor[t] = Len(theirHashes)
  /\ mIntersection' = mIntersection \o [k \in 1 .. found[t] |-> words[Word(t, k - 1)]]
  /\ Goto(t, "done")
  /\ UNCHANGED <<inputs, memory, main, hashingDone, numDone, cursor, map, found>>

-----------------------------------------------------------------------------
(* The coroutine.                                                          *)

(* co_await chl.recv(theirHashes), then prom.set_value().                  *)
Receive ==
  /\ main = "receiving"
  /\ theirHashes' = sent
  /\ main' = "joining"
  /\ UNCHANGED <<inputs, words, hashingDone, numDone, pc, cursor, map, found,
                 mIntersection>>

(* The receive throws.  With threads running, unwinding destroys joinable  *)
(* std::threads, which ends the process; otherwise the caller sees it.     *)
ReceiveFails ==
  /\ main = "receiving"
  /\ main' = IF Threads = {} THEN "failed" ELSE "terminated"
  /\ UNCHANGED <<inputs, memory, hashingDone, numDone, pc, cursor, map, found,
                 mIntersection>>

(* The loop over the sender's hashes when one map has all of the receiver's.*)
FoundAmong(hashes) ==
  LET f[k \in 0 .. Len(hashes)] ==
        IF k = 0 THEN <<>>
        ELSE IF hashes[k] = Foreign THEN f[k - 1] ELSE Append(f[k - 1], hashes[k])
  IN  f[Len(hashes)]

(* mNumThreads < 2: one map of all hashes, looked up hash by hash.         *)
FindAlone ==
  /\ main = "joining"
  /\ Threads = {}
  /\ mIntersection' = FoundAmong(theirHashes)
  /\ main' = "returned"
  /\ UNCHANGED <<inputs, memory, hashingDone, numDone, pc, cursor, map, found>>

JoinFirst ==
  /\ main = "joining"
  /\ Threads # {}
  /\ \E t \in Threads : pc[t] = "done"
  /\ main' = "returned"
  /\ UNCHANGED <<inputs, memory, hashingDone, numDone, pc, cursor, map, found,
                 mIntersection>>

Join ==
  /\ main = "joining"
  /\ Threads # {}
  /\ \A t \in Threads : pc[t] = "done"
  /\ main' = "returned"
  /\ UNCHANGED <<inputs, memory, hashingDone, numDone, pc, cursor, map, found,
                 mIntersection>>

(* Nothing happens after the run has ended.                                *)
Over == main \in {"returned", "failed", "terminated"} /\ UNCHANGED vars

Thread(t) == Hash(t) \/ Arrive(t) \/ PassBarrier(t) \/ StartFinding(t) \/ Find(t) \/ Merge(t)

Next == \/ \E t \in Threads : Thread(t)
        \/ Receive \/ ReceiveFails \/ FindAlone \/ Join \/ Over

(* The system schedules every thread, and a receive ends one way or the    *)
(* other.                                                                  *)
Fairness == /\ \A t \in UNION {0 .. n - 1 : n \in ThreadCounts} :
                 WF_vars(t \in Threads /\ Thread(t))
            /\ WF_vars(Receive \/ ReceiveFails \/ FindAlone \/ Join)

Spec == Init /\ [][Next]_vars /\ Fairness
-----------------------------------------------------------------------------
Labels == {"hashing", "barrier", "waiting", "finding", "done"}

TypeOK ==
  /\ words \in [0 .. MyWords + Len(sent) - 1 -> Indices \cup {Untouched}]
  /\ theirHashes \in Seq(Indices \cup {Foreign})
  /\ Len(theirHashes) = IF main \in {"joining", "returned"} THEN Len(sent) ELSE 0
  /\ main \in {"receiving", "joining", "returned", "failed", "terminated"}
  /\ pc \in [Threads -> Labels]
  /\ cursor \in [Threads -> 0 .. RecverSize + Len(sent)]
  /\ map \in [Threads -> SUBSET Indices]
  /\ found \in [Threads -> 0 .. Len(sent)]
  /\ hashingDone \in BOOLEAN
  /\ numDone = Cardinality({t \in Threads : pc[t] # "hashing"})

(* The results go over the receiver's hashes, which every thread reads from*)
(* end to end: no hash may be overwritten while a thread has yet to read   *)
(* it.  The two futures and the counter are there to ensure it.            *)
HashesOutliveTheMaps ==
  \A t \in Threads : pc[t] = "hashing" =>
    \A i \in cursor[t] .. RecverSize - 1 : Intact(i)

(* What thread t has to have found when it has seen k of the sent hashes.  *)
Seen(t, k) == {i \in Indices : bin[i] = t /\ \E j \in 1 .. k : sent[j] = i}

(* Until a thread merges its stretch, the stretch holds exactly the        *)
(* indices it found, whatever the other threads wrote meanwhile.           *)
ResultsStayPut ==
  \A t \in Threads : pc[t] = "finding" =>
    /\ {words[Word(t, k)] : k \in 0 .. found[t] - 1} = Seen(t, cursor[t])
    /\ found[t] = Cardinality(Seen(t, cursor[t]))

Status == IF main \in {"returned", "failed"} THEN main
          ELSE IF main = "terminated" THEN "failed" ELSE "running"

Promise == INSTANCE Intersection WITH
             common <- Common, reported <- mIntersection, status <- Status

(* However the threads interleave, the result grows by common indices, each*)
(* once, and run() returns with all of them.                               *)
ImplementsIntersection == Promise!Spec

(* No run blocks on a future nobody sets or a thread nobody ends.          *)
EveryRunEnds == <>(main \in {"returned", "failed", "terminated"})

(* What Psi_Rs_multiThrd_test asserts of a run that returns: the set of    *)
(* reported indices is the expected one.                                   *)
ActIsExp == main = "returned" => ToSet(mIntersection) = Common
=============================================================================
