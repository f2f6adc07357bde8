------------------------------- MODULE BinSet -------------------------------
(***************************************************************************)
(* How a party of mPSI hashes its set (binSet::hashing2Bins): threads      *)
(* insert their shares into a table of simple bins, which keep every       *)
(* element at each of its places, and into a cuckoo table, which keeps one *)
(* element a bin; what finds no bin goes to a list, and the first thread   *)
(* puts that list into the stash bins once all threads have passed a       *)
(* barrier (CuckooHasher1.cpp, SimpleHasher1.cpp).                         *)
(*                                                                         *)
(* Elements are their positions in the input.  The hash functions are      *)
(* chosen at the start.  A cuckoo bin holds an element and the number of   *)
(* the hash function that led there, or Empty.                             *)
(***************************************************************************)
EXTENDS Integers, Sequences, FiniteSets, SequencesExt

CONSTANTS
  N,            \* mN: the size of the set
  Bins,         \* <<mBinCount[0], mBinCount[1]>>: first table and stash bins
  Hashes,       \* <<mNumHashes[0], mNumHashes[1]>>
  HashChoices,  \* the hash functions tried: [element -> <<h0, h1, ...>>] (bound)
  MaxTries,     \* rounds of evictions a batch gets (100 in the code)
  Step,         \* elements hashed in one batch (128 in the code)
  ThreadCounts  \* with how many threads hashing2Bins is called

Element == 0..(N - 1)
Main == 1
Stash == 2
Bin == 0..(Bins[Main] + Bins[Stash] - 1)

ASSUME ConstantsOK ==
  /\ N \in Nat \ {0} /\ MaxTries \in Nat \ {0} /\ Step \in Nat \ {0}
  /\ Bins \in (Nat \ {0}) \X (Nat \ {0}) /\ Hashes \in (Nat \ {0}) \X (Nat \ {0})
  /\ HashChoices # {} /\ HashChoices \subseteq [Element -> Seq(Nat)]
  /\ \A h \in HashChoices, x \in Element : Len(h[x]) >= Hashes[Main] /\ Len(h[x]) >= Hashes[Stash]
  /\ ThreadCounts \subseteq Nat \ {0} /\ ThreadCounts # {}

Empty == <<>>

VARIABLES
  hash,         \* mNcoInputBuff: the hash values of each element
  threads,      \* how many threads hash
  simple,       \* mSimpleBins.mBins: of each bin, pairs <<mIdx, hIdx>>
  cuckoo,       \* mCuckooBins.mBins
  stashIdxs,    \* mCuckooBins.mStashIdxs
  pc,           \* where each thread is
  next,         \* the first element of each thread's next batch
  work,         \* inputIdxs and curHashIdxs: what is still to be placed
  oldVals,      \* what this round's exchanges found so far
  tryCount,     \* rounds begun
  remaining,    \* insertRemaining, insertStashRemaining
  raced         \* history: whether a store replaced a value it had not loaded

vars == <<hash, threads, simple, cuckoo, stashIdxs, pc, next, work, oldVals, tryCount, remaining, raced>>

Thread == 0..(threads - 1)

-----------------------------------------------------------------------------
(* Where the hash functions lead.  Both tables reduce the same values.      *)

Addr(r, x, k) ==
  IF r = Main THEN hash[x][k + 1] % Bins[Main]
  ELSE Bins[Main] + (hash[x][k + 1] % Bins[Stash])

startIdx(t) == (t * N) \div threads
endIdx(t) == ((t + 1) * N) \div threads

(* SimpleHasher1::insertBatch: an element is put into a bin once, with the  *)
(* first hash function that led there; stash functions are numbered on.     *)
Leads(r, x, b) == {k \in 0..(Hashes[r] - 1) : Addr(r, x, k) = b}

SimpleEntriesLast(b, xs) ==
  LET r == IF b < Bins[Main] THEN Main ELSE Stash
      Number(k) == IF r = Main THEN k ELSE Hashes[Main] + k
  IN  {<<e[1], Number(e[2])>> : e \in
        {e \in xs \X (0..(Hashes[r] - 1)) :
           e[2] \in Leads(r, e[1], b) /\ \A j \in Leads(r, e[1], b) : e[2] >= j}}

SimpleEntries(b, xs) ==
  LET r == IF b < Bins[Main] THEN Main ELSE Stash
      Number(k) == IF r = Main THEN k ELSE Hashes[Main] + k
  IN  {<<e[1], Number(e[2])>> : e \in
        {e \in xs \X (0..(Hashes[r] - 1)) :
           e[2] \in Leads(r, e[1], b) /\ \A j \in Leads(r, e[1], b) : e[2] <= j}}

-----------------------------------------------------------------------------
Init ==
  /\ hash \in HashChoices
  /\ threads \in ThreadCounts
  /\ simple = [b \in Bin |-> {}]
  /\ cuckoo = [b \in Bin |-> Empty]
  /\ stashIdxs = <<>>
  /\ pc = [t \in Thread |-> "insert"]
  /\ next = [t \in Thread |-> startIdx(t)]
  /\ work = [t \in Thread |-> <<>>]
  /\ oldVals = [t \in Thread |-> <<>>]
  /\ tryCount = [t \in Thread |-> 0]
  /\ remaining = <<threads, threads>>
  /\ raced = FALSE

Goto(t, place) == pc' = [pc EXCEPT ![t] = place]
Set(f, t, value) == [f EXCEPT ![t] = value]

Fresh(xs) == [i \in DOMAIN xs |-> <<xs[i], 0>>]

(* The next batch of a thread's share: simple bins first.  Inserting into   *)
(* them holds the bin's mutex and commutes, so it is one step.              *)
InsertBatch(t) ==
  /\ pc[t] = "insert" /\ next[t] < endIdx(t)
  /\ LET upTo == Min({next[t] + Step, endIdx(t)})
         batch == [i \in 1..(upTo - next[t]) |-> next[t] + i - 1]
     IN  /\ simple' = [b \in Bin |-> simple[b] \cup SimpleEntries(b, {batch[i] : i \in DOMAIN batch})]
         /\ work' = Set(work, t, Fresh(batch))
         /\ next' = Set(next, t, upTo)
  /\ tryCount' = Set(tryCount, t, 0)
  /\ Goto(t, "round")
  /\ UNCHANGED <<hash, threads, cuckoo, stashIdxs, oldVals, remaining, raced>>

(* Which table a thread fills: the stash bins after the first barrier.      *)
Region(t) == IF remaining[1] = 0 THEN Stash ELSE Main

BeginRound(t) ==
  /\ pc[t] = "round" /\ work[t] # <<>> /\ tryCount[t] < MaxTries
  /\ tryCount' = Set(tryCount, t, tryCount[t] + 1)
  /\ oldVals' = Set(oldVals, t, <<>>)
  /\ Goto(t, "exchange")
  /\ UNCHANGED <<hash, threads, simple, cuckoo, stashIdxs, next, work, remaining, raced>>

(* The item whose turn it is, and the bin it goes to.                       *)
Item(t) == work[t][Len(oldVals[t]) + 1]
ItemBin(t) == Addr(Region(t), Item(t)[1], Item(t)[2])

(* Take what the bin holds, then put the item there: plain accesses of one *)
(* aligned word, between which other threads run.                           *)
Load(t) ==
  /\ pc[t] = "exchange" /\ Len(oldVals[t]) < Len(work[t])
  /\ oldVals' = Set(oldVals, t, Append(oldVals[t], cuckoo[ItemBin(t)]))
  /\ Goto(t, "store")
  /\ UNCHANGED <<hash, threads, simple, cuckoo, stashIdxs, next, work, tryCount, remaining, raced>>

Store(t) ==
  /\ pc[t] = "store"
  /\ LET item == work[t][Len(oldVals[t])]
         bin == Addr(Region(t), item[1], item[2])
     IN  /\ cuckoo' = Set(cuckoo, bin, item)
         /\ raced' = (raced \/ cuckoo[bin] # oldVals[t][Len(oldVals[t])])
  /\ Goto(t, "exchange")
  /\ UNCHANGED <<hash, threads, simple, stashIdxs, next, work, oldVals, tryCount, remaining>>

KeptToFirstEmpty(found) ==
  SubSeq(found, 1, Min({i \in 0..Len(found) : i = Len(found) \/ found[i + 1] = Empty}))

(* What the exchanges of a round found, without the empty bins, in order.   *)
Kept(found) ==
  LET upTo[i \in 0..Len(found)] ==
        IF i = 0 THEN <<>>
        ELSE IF found[i] = Empty THEN upTo[i - 1] ELSE Append(upTo[i - 1], found[i])
  IN  upTo[Len(found)]

EvictedUnreduced(t) ==
  LET kept == Kept(oldVals[t])
  IN  [i \in DOMAIN kept |-> <<kept[i][1], kept[i][2] + 1>>]

(* Each goes on with its next function.                                     *)
Evicted(t) ==
  LET kept == Kept(oldVals[t])
  IN  [i \in DOMAIN kept |-> <<kept[i][1], (kept[i][2] + 1) % Hashes[Region(t)]>>]

EndRound(t) ==
  /\ pc[t] = "exchange" /\ Len(oldVals[t]) = Len(work[t])
  /\ work' = Set(work, t, Evicted(t))
  /\ oldVals' = Set(oldVals, t, <<>>)
  /\ Goto(t, "round")
  /\ UNCHANGED <<hash, threads, simple, cuckoo, stashIdxs, next, tryCount, remaining, raced>>

(* No item left or no round left: under the mutex mInsertBin, the items     *)
(* left go to the list.                                                     *)
LeaveToStash(t) ==
  /\ pc[t] = "round" /\ Region(t) = Main
  /\ work[t] = <<>> \/ tryCount[t] = MaxTries
  /\ stashIdxs' = stashIdxs \o [i \in DOMAIN work[t] |-> work[t][i][1]]
  /\ work' = Set(work, t, <<>>)
  /\ Goto(t, "insert")
  /\ UNCHANGED <<hash, threads, simple, cuckoo, next, oldVals, tryCount, remaining, raced>>

-----------------------------------------------------------------------------
(* The barriers: the thread that counts down to zero fulfils the promise    *)
(* the others wait for.                                                     *)

ArriveMissingFirst(t, barrier) ==
  /\ remaining' = IF t = 0 THEN remaining ELSE [remaining EXCEPT ![barrier] = @ - 1]
  /\ UNCHANGED <<hash, threads, simple, cuckoo, stashIdxs, next, oldVals, raced>>

Arrive(t, barrier) ==
  /\ remaining' = [remaining EXCEPT ![barrier] = @ - 1]
  /\ UNCHANGED <<hash, threads, simple, cuckoo, stashIdxs, next, oldVals, raced>>

EndInsert(t) ==
  /\ pc[t] = "insert" /\ next[t] = endIdx(t)
  /\ Arrive(t, 1)
  /\ Goto(t, "inserted")
  /\ UNCHANGED <<work, tryCount>>

(* Past the first barrier only the first thread has something to insert.    *)
(* Its rounds reuse mStashIdxs in place as their list of what is left;      *)
(* stashIdxs keeps the elements as they were left to the stash.             *)
InsertStash(t) ==
  /\ pc[t] = "inserted" /\ remaining[1] = 0
  /\ IF t = 0
     THEN work' = Set(work, t, Fresh(stashIdxs)) /\ Goto(t, "round")
     ELSE UNCHANGED work /\ Goto(t, "stashed")
  /\ tryCount' = Set(tryCount, t, 0)
  /\ UNCHANGED <<hash, threads, simple, cuckoo, stashIdxs, next, oldVals, remaining, raced>>

(* insertStashBatch ends, or throws out of the thread with items left, and  *)
(* the process ends.                                                        *)
EndStash(t) ==
  /\ pc[t] = "round" /\ Region(t) = Stash
  /\ work[t] = <<>> \/ tryCount[t] = MaxTries
  /\ IF work[t] = <<>> THEN Goto(t, "stashed") ELSE pc' = [u \in Thread |-> "terminated"]
  /\ UNCHANGED <<hash, threads, simple, cuckoo, stashIdxs, next, work, oldVals, tryCount, remaining, raced>>

EndThread(t) ==
  /\ pc[t] = "stashed"
  /\ Arrive(t, 2)
  /\ Goto(t, "waiting")
  /\ UNCHANGED <<work, tryCount>>

Leave(t) ==
  /\ pc[t] = "waiting" /\ remaining[2] = 0
  /\ Goto(t, "done")
  /\ UNCHANGED <<hash, threads, simple, cuckoo, stashIdxs, next, work, oldVals, tryCount, remaining, raced>>

ThreadStep(t) ==
  \/ InsertBatch(t) \/ BeginRound(t) \/ Load(t) \/ Store(t) \/ EndRound(t)
  \/ LeaveToStash(t) \/ EndInsert(t) \/ InsertStash(t) \/ EndStash(t) \/ EndThread(t) \/ Leave(t)

Ended == \A t \in Thread : pc[t] \in {"done", "terminated"}

Next == (\E t \in Thread : ThreadStep(t)) \/ (Ended /\ UNCHANGED vars)

MostThreads == CHOOSE n \in ThreadCounts : \A m \in ThreadCounts : m <= n

Fairness == \A t \in 0..(MostThreads - 1) : WF_vars(t \in Thread /\ ThreadStep(t))

Spec == Init /\ [][Next]_vars /\ Fairness

-----------------------------------------------------------------------------
(* Properties.                                                              *)

Places == {"insert", "round", "exchange", "store", "inserted", "stashed", "waiting", "done", "terminated"}

(* The hash functions count from zero again for the stash bins of the       *)
(* cuckoo table, and are numbered on in the simple one.                     *)
ItemOf == Element \X ((0..(Hashes[Main] - 1)) \cup (0..(Hashes[Stash] - 1)))
Numbered == Element \X (0..(Hashes[Main] + Hashes[Stash] - 1))

TypeOK ==
  /\ hash \in HashChoices /\ threads \in ThreadCounts
  /\ simple \in [Bin -> SUBSET Numbered] /\ cuckoo \in [Bin -> ItemOf \cup {Empty}]
  /\ stashIdxs \in Seq(Element)
  /\ pc \in [Thread -> Places]
  /\ next \in [Thread -> 0..N]
  /\ tryCount \in [Thread -> 0..MaxTries]
  /\ work \in [Thread -> Seq(ItemOf)] /\ oldVals \in [Thread -> Seq(ItemOf \cup {Empty})]
  /\ \A t \in Thread : Len(oldVals[t]) <= Len(work[t])
  /\ remaining \in (0..threads) \X (0..threads)
  /\ raced \in BOOLEAN

(* What a thread has in its hands: items not yet put, and items it found    *)
(* and has to put elsewhere.  Between a load and its store the item is not  *)
(* yet put and the one found is still in its bin.                           *)
PutCount(t) == Len(oldVals[t]) - (IF pc[t] = "store" THEN 1 ELSE 0)

(* Where an element is.  The list is waiting for the first thread until     *)
(* that takes it.                                                           *)
InTable(x) == {<<"bin", b>> : b \in {b \in Bin : cuckoo[b] # Empty /\ cuckoo[b][1] = x}}

NotYetPut(x) ==
  UNION {{<<"item", t, i>> : i \in {i \in (PutCount(t) + 1)..Len(work[t]) : work[t][i][1] = x}}
         : t \in Thread}

FoundInBins(x) ==
  UNION {{<<"found", t, i>> :
           i \in {i \in 1..PutCount(t) : oldVals[t][i] # Empty /\ oldVals[t][i][1] = x}}
         : t \in Thread}

ListWaits == remaining[1] # 0 \/ pc[0] = "inserted"

OnList(x) ==
  {<<"list", i>> : i \in {i \in DOMAIN stashIdxs : stashIdxs[i] = x /\ ListWaits}}

Where(x) == InTable(x) \cup NotYetPut(x) \cup FoundInBins(x) \cup OnList(x)

Begun(x) == \E t \in Thread : startIdx(t) <= x /\ x < next[t]

(* Only a store that replaces what it did not load can lose an element or   *)
(* double it (CuckooHasher1.cpp:252-256): until one does, every element     *)
(* that was taken up is in one place, one cuckoo bin, the hands of one      *)
(* thread, or the list for the stash bins, although threads evict each      *)
(* other's elements and carry them on (CuckooHasher1::insertBatch); and     *)
(* once hashing is done, in a bin.                                          *)
LostOnlyInRaces ==
  ~raced =>
    \A x \in Element :
      /\ Begun(x) <=> Where(x) # {}
      /\ \A p, q \in Where(x) : p = q
      /\ (\A t \in Thread : pc[t] = "done") => \E b \in Bin : cuckoo[b] # Empty /\ cuckoo[b][1] = x

(* "block until all items have been inserted" (binSet.cpp:142): once the    *)
(* threads are done, every element is in a cuckoo bin.                      *)
AllInserted ==
  (\A t \in Thread : pc[t] = "done") => \A x \in Element : InTable(x) # {}
=============================================================================
