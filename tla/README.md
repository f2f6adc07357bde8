# A TLA+ development of APSI-codebases

The repository collects implementations of private set intersection (PSI) and of
its authorised variant (APSI), with the libraries they stand on.  This directory
holds specifications of the parts whose control is hard to test, configurations
that check them with TLC, and proofs of their main invariants for TLAPS.

All paths are relative to the repository; `src/` is its root.

## 1. Inventory

| Component | State | Operations | Interacts with | Hard behaviour |
|---|---|---|---|---|
| `merklecpp/merklecpp.h`, `TreeT` | node heap, `leaf_nodes`, `uninserted_leaf_nodes`, `num_flushed`, `insertion_stack`, `_root`, cached hashes and dirty flags | `insert`, `root`, `path`, `past_root`, `past_path`, `flush_to`, `retract_to`, `size`, copy, `serialise`, `deserialise` | called by its owner, one call at a time | lazy insertion and lazy hashing: every call starts from whatever the previous ones left undone |
| `merklecpp`, `HashT`, `PathT` | none | hashing, `PathT::root`, `verify` | `TreeT` | none beyond what `TreeT` puts in a path |
| `KA-APSI(ours)/cpp_code` | both parties' commitments, hashing tables, polynomials, keys | `commit_Receiver`, `commit_Sender`, `intersect` | the parties share memory | three orders of counting (by input, by bin, by polynomial) that must agree; exceptions half way |
| `volepsi/volePSI/RsPsi` | receiver: hash buffer shared by threads, two promises, an atomic counter, per-thread maps, `mIntersection` | `RsPsiReceiver::run`, `RsPsiSender::run` | a coroutine, up to `mNumThreads` threads, a socket | threads write results over the buffer others read; a barrier built from a counter and a future |
| `volepsi/volePSI` OPRF, OPPRF, CPSI | correlation shares, OKVS encodings | two-party coroutines | RsPsi, a socket | message order between the parties |
| `volepsi/volePSI` Paxos and Baxos | sparse rows, columns, weight sets | `setInput`, `triangulate`, `encode`, `decode` | OPRF | a peeling solver with a dense gap |
| `volepsi/volePSI/GMW`, `fileBased` | circuit wires; input files | evaluate, parse | OPPRF; RsPsi | none listed |
| `MiniPSI/libOTe/cryptoTools/.../Network`, `SpscQueue` | a list of rings with read and write counts | `push_back`, `front`, `pop_front`, `isEmpty` | the user's thread pushes, a strand pops | migration to a larger ring while the smaller one drains |
| the same, `Channel` | socket handle, two queues, two statuses, two promises to wait for, operations under way | `asyncSend`, `send`, `asyncRecv`, `recv`, `close`, `cancel`, connect with retries, `startSocket` | user threads, two strands, socket completions, `Acceptor` | operations racing with failure, close, cancel and connection set-up |
| the same, `Session`, `Acceptor`, `IOService` | groups of waiting channels and of waiting sockets, the listening port, pending sockets, two promises | start and stop a session, add and cancel channels, accept, handshake, `stop` | sessions' threads, one strand, accept completions, `Channel` | pairing in any order; listening stopped and restarted; stop racing with everything |
| `MiniPSI` protocols | curve points, polynomials | sender and receiver phases | cryptoTools channels | mostly algebra |
| `PICS-E54E/vole` (Rust) | VOLE shares, FRI commitments, a framed socket | lock-step send and receive | okvs, socket | message order and framing |
| `PICS-E54E/okvs` (Rust) | banded matrix | encode, decode | vole | elimination with pivots inside a band |
| `mPSI`, hashing into bins | simple bins, cuckoo bins, a list of leftovers, two counters | `hashing2Bins`, both tables' `insertBatch`, stash bins | several threads over one table | threads evict each other's elements; two barriers |
| `mPSI`, last message of two-party PSI | three messages, OPRF values of bins | `sendLastPSIMessage`, `compute2PSI` | both tables, a channel | which hash function a bin remembers |
| `mPSI`, many parties | a party per process | OPPRF rounds | channels | many-party order |
| `OBDBasedPSI` | cuckoo graph | peel, unpeel | a benchmark party | graph with a 2-core |
| `Partial-APSI`, `KZG`, `sample_sets` | none kept | benchmarks, a toy commitment, test data | vendored mcl | none |

What makes the modelled components correct:

* `TreeT`: whatever calls were made before, the root is the Merkle root of all
  leaves still in the log, every path verifies against it, what is documented to
  look like a retraction does, and each node is owned exactly once.
* `RsPsiReceiver::run`: however the threads interleave, the result is the set of
  common indices, each once; no hash is overwritten before everybody has read it;
  the run ends.
* KA-APSI: how a run ends follows from how full the bins are; honest parties fail
  no check; both sides connect the same message with the same input.
* `Channel`: operations cross the socket once and in order, a side is given up only
  when nothing pushed in time is left, and `close` and `cancel` return.
* `Acceptor`: no channel and socket that match stay apart, a session is served by one
  remote session, the port is open while somebody is subscribed, and `stop` returns.
* mPSI hashing: no element is lost while threads evict each other's elements (which the code
  keeps with one thread only, section 8), and the
  result is what the two tables' bins let the receiver see.

The components are listed one by one, the ones not modelled too, in
`PROJECT.json`, with the hazards of the code at their lines.

## 2. Plan

| Order | Modules | State |
|---|---|---|
| 1 | `MerkleLog` (abstract), `MerkleWindow`, `MerkleHash`, `MerkleTree` | done, section 3 |
| 2 | `MerkleWindow_proofs`, `MerkleInsert_proofs`, `MerkleTree_proofs` | done, section 9 |
| 3 | `Intersection` (abstract), `RsPsi`, `RsPsi_proofs` (barrier) | done, sections 4 and 9 |
| 4 | `KaApsi`, `KaApsi_proofs` | done, sections 5 and 9 |
| 5 | `Fifo` (abstract), `SpscQueue`, `Channel` | done, sections 6 and 9 |
| 6 | `Acceptor` (cryptoTools sessions and their acceptor) | done, section 7 |
| 7 | `BinSet`, `TwoPsi` (mPSI hashing and the two-party result), `TwoPsi_proofs` | done, sections 8 and 9 |
| 8 | `RsPsi_proofs` (stretches are disjoint, `ResultsStayPut`, refinement) | done, section 9 |
| 9 | `Channel_proofs`, `Acceptor_proofs` (all their safety invariants, the refinement of `Fifo`) | done, section 9 |
| 10 | the two-party order of volePSI's OPRF messages composed with `RsPsi`, so that the sequence that arrives is sent by a modelled `RsPsiSender::run` | to do |
| 11 | `BandMatrix` (PICS okvs): banded elimination against its equation over GF(2) and GF(3) | to do |
| 12 | many-party rounds of mPSI | to do |
| 13 | a second tree variable in `MerkleTree` for assignment onto a tree in use; copied paths | to do |
| 14 | paths, past roots and past paths in `MerkleTree_proofs` | done, section 9 |
| 15 | copies, the reload of a segment and the refinement of `MerkleWindow` in `MerkleTree_proofs` | to do |

The abstract specifications are `MerkleLog`, `Intersection` and `Fifo`.  There is one
run per question asked of a component, and one for each of four promises that the code
breaks: a copy is its original (`merkle_copy`), each thread's results stay its own
(`rspsi_overfull`), `stop` returns once the sessions have stopped (`acceptor_stop`), all
items have been inserted (`two_psi_lost`).  Promises of `Channel.h` and of `apsi.cpp` that
are broken too have no run; the properties say what is kept instead (sections 5 and 6).

## 3. merklecpp

`MerkleLog` is the promise: a sequence of leaves, a smallest readable index, and
four operations (append, flush, retract, and the reload of a serialised segment).

`MerkleWindow` is the class as far as leaves are concerned.  Its variables are
the members `leaf_nodes`, `uninserted_leaf_nodes` and `num_flushed`, with the
history variable `flushed`; its actions are the public calls.  A leaf is its hash.
`leaf()` is the operator `Leaf`, with `size_t` subtraction modulo `WordSize`.

`MerkleTree` is the class node by node.  The variable `tree` is a record of the
members: a heap of nodes with `hash`, `left`, `right`, `size`, `height` and
`dirty`, the vectors as sequences of node names, and the insertion stack.  `Delete`
removes names from the heap, so a dangling pointer is a name outside it and a leak
is a name nothing reaches.  One action is one call, because the class is
single-threaded and has no callbacks; its operators follow the private functions
(`ContinueInsertionStack`, `ProcessInsertionStack`, `InsertLeaf`, `HashIfDirty` for
`hash()`, `StepDown` and `WalkTo` for `walk_to`, `Conflate` for `flush_to`, `RetractDown`
and `Eliminate` for `retract_to`, `NextLevel` for `deserialise`).  A loop of the code
is a recursive function over its rounds: `WalkTo` over the heights from the root's down,
`ProcessInsertionStack` over the elements of the stack, `Levels` over the levels.
What they read first is left when they are done, so that `hashing_stack` and
`walk_stack`, which every call leaves as empty as it finds them, are no variables.
`Reached` is what a descent from a node visits: everything (`Subtree`, the destructor)
or what is dirty (`HashIfDirty`).  `MerkleHash` has hashes as terms, and the reference:
`MTH`, which splits at the largest power of two, and `AuditPath`.  The variable `log` is
auxiliary: the leaves that the caller has kept, the flushed ones included.  An insertion
appends to it and a retraction or a reload cuts it, whatever the tree does.

Runs:

| Run | Bounds | Shows |
|---|---|---|
| `merkle_window` | 6 leaves, 2 values, words modulo 8 | the three-part bookkeeping implements `MerkleLog`; `leaf()` answers exactly the readable indices |
| `merkle_tree` | 6 leaves, 2 values, all calls | roots, paths, caches, ownership and shape of every reachable tree; `past_root`, `past_path` and serialised segments agree with retraction and flush; the tree implements `MerkleWindow` |
| `merkle_tree_deep` | 15 leaves, 1 value, no copy or reload | roots and past paths where an insertion was left unfinished on the stack and where several subtrees are joined below a fork |
| `merkle_copy` | 14 leaves, `insert`, `root` and `size` | the finding below |

Why these bounds: a leaf's value only matters to tell leaves of one index apart
before and after a retraction, so two values are enough, and one is where the
index already tells.  Six leaves give trees of height four with an incomplete
right side, and flushes and retractions that meet in one subtree.  With eight the
hash of what existed below a fork joins two subtrees, whose order then matters.
Fourteen is the smallest number of leaves at which TLC finds an insertion stopped
with part of the tree on the insertion stack; the fifteenth is inserted after it.
`MCMerkleTree!View` has the log, and names nodes by their subtrees, their places in
`leaf_nodes` and whether they are waiting, which identifies trees that differ by a
renaming of nodes only.  `MaxLeavesAssumption` (the bound is a number) is all that is
assumed of the constants.

Finding: `size()` (line 1450) hangs the waiting leaves with `complete = false`, and a
copy taken then (line 916) follows `_root` but not `insertion_stack`: leaves are
missing, and the assertion at line 926 fails.  `size()` itself answers from the `_root`
that is left, 11 where 27 nodes exist for 14 leaves, by the same cause.

## 4. volePSI RsPsi

`Intersection` is the promise: what is reported only grows, by common indices, each
once; a run returns when none is missing, or fails.

`RsPsi` is `RsPsiReceiver::run` after the OPRF.  An input's evaluation is its index:
evaluations are equal exactly when the inputs are.  `bin` is the first word of a hash
modulo the number of threads, any function.  `words` and `theirHashes` are one
allocation (`data`): a result is one 8-byte word, a hash of the receiver two, and a
write behind the receiver's hashes damages the sender's hashes that share
bytes with it (`Under`).  Each thread is at one of five places: `hashing` (a
loop, one hash a step), `barrier` (the future of the hashing promise), `waiting` (the
future of the received hashes), `finding` (a loop, one of the sender's hashes a
step), `done`.  The counter's increment and its comparison are one step, as the
atomic's `++` returns the value compared; setting the promise follows in the same
thread before anybody can observe the difference.  The merge is one step, under
`mMergeMtx`.  The coroutine receives (or the receive throws: with threads
running, destroying joinable threads ends the process, and the threads stop), then
joins.  With fewer than two threads it works alone (`FindAlone`); 0 and 1 are the
same to the code, and `ThreadCounts` holds 1.

| Run | Bounds | Shows |
|---|---|---|
| `rspsi` | 4 inputs; 1, 2 and 3 threads; all assignments of hashes to threads whose results fit; three sequences from the sender, with foreign hashes and out of order | types, `HashesOutliveTheMaps`, `ResultsStayPut`, the refinement of `Intersection`, `EveryRunEnds` |
| `rspsi_overfull` | 4 inputs, 3 threads, all assignments | the finding: an index is lost |

With three threads and four inputs the stretches have unequal lengths, the
interesting case of the integer division, and two threads can wait at the barrier for the third.  `AssumeFit`
restricts `rspsi` to runs where each thread's matches are no more than its stretch
has words; types and `HashesOutliveTheMaps` are proved without it (section 9).

Fairness: each thread is weakly fair, as the operating system schedules it, and so
is the coroutine, whose receive either delivers or throws.  No fairness is assumed
of the order in which threads reach the lock.

Finding: a thread writes its matches from `myHashes[thrdIdx * n / numThreads]` on,
and nothing bounds them.  Hashes spread over threads by value, so a thread may have
more matches than twice its share, and overwrites the first results of the
next thread.  It needs small inputs or many threads to be likely.

## 5. KA-APSI

`KaApsi` runs the two commitments and `intersect()` in the order of `main`.  Values
are terms, a polynomial is the function through its points with as many
coefficients as points (random values do not lie on a smaller polynomial), and
off its points it has a value nothing else has.  `BinSize` is floor(n / log2 n) as
the largest b with n^b at most 2^n, which is at least 1.  A hashing table (`Table`) has
in each bin `Only` the inputs that hash there, in their order; `commit_Receiver` keeps
its bins that are not empty (`ReceiverBins`), and `Counter` is how many elements its
counters have passed at a bin.  Step 4 is one action per input of the sender,
because it can stop half way: reading behind the end of `polys` is undefined, and
the model ends there.  The other steps throw or complete.  After an exception the
program is over, so the partly filled vectors it leaves are not kept.

| Run | Bounds | Shows |
|---|---|---|
| `kaapsi` | receivers of 2, 3, 4 and 10 inputs (2, 1, 2 and 3 bins), senders of 2, 4 and 6, 729 hash functions, inputs given twice | how runs end (`TablesDecideTheOutcome`), `SenderRecoversMessages` |

Three bins are needed for an empty bin to shift another bin's polynomial without
leaving the vector.

Found while modelling: a run returns only if every bin of both parties has two or more
inputs, and then the result is empty whatever they share (`Intersect` looks for hashes
among evaluations, two kinds of terms), though line 201 says the
receiver computes the intersection.  Three causes are visible: keys are pushed
behind `input_len` zero keys and read from the front (lines 165, 177, 189); the
receiver's randomness is taken by input but was assigned by bin (lines 213, 90); and
`merkle_leaves` are polynomial evaluations, never the hashes looked up among them
(lines 120, 229).  Besides, the modulus called prime in `helpers.cpp` (lines 97, 301)
is 2^256 + 1, which 1238926361552897 divides; the model abstracts from the field.

There is no fairness: the program is sequential, and no liveness is claimed.

## 6. cryptoTools channels

`SpscQueue` is the queue between a user's thread and a strand: a list of rings, the
last one pushed to, the first one popped, a full one followed by one four times its
size.  Every call holds the queue's mutex, so the calls are operators on a value.
`Fifo` is its promise.

`Channel` is one channel.  Sends and receives run the same code on two strands, so
variables are functions of the side.  `strand` holds the handlers posted to a strand;
`io` is the operation the socket works on, and `available` whether the strand may
start one.  Actions are handlers (`Kick`, `Complete`, `Fatal`, `DrainOne` and
`DrainEnd`, `CloseSide`, `CancelSide`, `OpenSide`, `ConnStringSent`), completions of
the socket (`HeaderFits`, `HeaderMisfits`, `TransferSucceeds`, `TransferFails`,
`Reschedule`), the opening (`ConnectSucceeds`, `ConnectFails`, `RetryTimer`;
`StartSocket` and `CancelPending` by the acceptor), and the steps of the user's thread
(`CheckStatus`, then `Push`, then `Wake`) and of the closing one (`Close`, `Cancel`,
then the waits).  The status is checked in one step and the operation pushed in
another, as nothing holds them together.  `Cancel` writes both statuses and closes the
handle in one step.  `late` and `moved` are history.

Run `channel`: a socket given, a client that connects and retries, and a server that
waits for the acceptor; up to three sends, up to three receives, or one of each; a
first ring of one slot (64 in the code), so that two operations that wait already
open a second ring.  A send or receive does not read the other side's variables
except through failure, close and cancel, which one of each meets.  Deadlock is not
checked: the system may stop once the user is done or the process has ended.

Fairness: workers run what is posted; a socket that is closed reports to whoever uses
it; an attempt to connect ends; the timer fires; threads go on when they can.  That
the peer connects, takes and sends is assumed (`PeerActive`) for `CloseReturns` only.

The properties hold as stated, and name what the code does not keep:

* An operation whose status check passed before the channel failed, closed or was
  cancelled is pushed into a queue that was given up; its promise is never answered,
  and its kick may find no socket (`late`).
* A failed blocking operation sets its promise, and so does the cancelling that
  follows: `std::future_error` leaves `io_service.run` and ends the process.
* `mActiveRecvSizeError` (`Channel.h:382`) is never set, so close and cancel wait for
  good behind a receive that met a buffer of the wrong size.
* Cancelling during the retry timer, or between the acceptor's hand-over and
  `startSocket`, leaves a socket open that nobody closes: cancel waits for the peer,
  although `Channel.h:269` says it "Aborts all current operations".
* After failures on both sides close returns at once, while operations still wait to
  be cancelled (`CloseLeavesOnlyTheDoomed`), although `Channel.h:266` says it "blocks
  until all pending operations have completed".
* A client's connection string is sent outside the queue (`Channel.cpp:125`-`134`), and
  close and cancel look at the queue only (`Channel.cpp:469`-`497`): with nothing queued
  they give the send side up and close the socket while the string is under way, so that
  the server never learns the channel's name (`GivenUpIsFinished` exempts it, and only
  before any send).  This too is against `Channel.h:266`.

## 7. cryptoTools sessions and their acceptor

`Acceptor` is the acceptor of one port with the sessions of the process that listen
on it.  `strand` is its strand, first in first out; every handler is one action,
nested calls (`stopListening`, `merge`, the removal of groups) included.
`groups` is `mGroups`; `key` in a group stands for its entry in `mClaimedGroups`, and
`unclaimed` for `mUnclaimedGroups`; `socketGroups` are the unclaimed sockets of remote
sessions.  A connection goes through `phase`: taken by an accept whose callback has
still to run, accepted, asked for its header, named (or failed), gone.  The accept's
callback is outside the strand and is cut where stop can come between: assignment
of the socket, `set_option`, the posting of the next accept.  Names and session IDs
stay pairs, where the code joins them to one string; IDs are not zero, as clients
draw 64 random bits.

`MCAcceptor` has three families of instances: who is paired with whom (two remote
sessions of the name of one or two local ones, and one of another name); channels
cancelled and sessions stopped in between; and the acceptor stopped at any
moment, with a client that never says its name.  Two sessions and two or three
connections are the fewest for which pairing is a choice, for a group to be claimed
while another waits, and for an accept to be aborted while another is
pending.  Deadlock is not checked, as everybody may be done.

Fairness is weak for the workers as a whole and the thread in `stop()`: every chain of
handlers is finite, so this is no more than that the workers do not idle while
something is posted.  Clients and users promise nothing.

| Run | Shows |
|---|---|
| `acceptor` | `NoMatchMissed`, `ServedByOneSession`, `KeepsListening`, `EndsAreKnown`, `StopReturns` |
| `acceptor_stop` | the finding: stop does not return when sessions end after it was called |

Finding: if sessions are subscribed when `stop()` runs, the handler that sees the last
one go is to set `mStoppedPromise`, but `stopListening` does so only while the acceptor
listens, which `stop()` has just ended.  `StopReturns` states what is left: stop
returns if nobody was subscribed.

The process ends (`EndsAreKnown`) when a port cannot be bound (the promise gets an
exception and then a value, out of a worker); when `stop()` closes a socket
between its accept and `set_option`; when a session that a stopped acceptor refused is
destroyed (it unsubscribes with a group it never got); and when a channel is cancelled
whose session stopped and whose group went with its last waiting channel.  After a
use of a group that is gone the model ends, as the behaviour is undefined.

## 8. mPSI: hashing and the two-party result

`BinSet` is `binSet::hashing2Bins`: threads insert their shares in batches, each into
the simple bins (one step: the bins' mutexes are held and additions commute) and then,
in rounds, into the cuckoo table, where the old content of a bin is taken and
replaced; what is left after the last round goes to a list, and the first thread
puts the list into the stash bins after a barrier.  Taking and replacing are two steps
(`Load`, `Store`), as `THREAD_SAFE_CUCKOO`, which would make them one, is commented out
(`CuckooHasher1.h:11`) and no longer compiles.  They are plain accesses to one aligned word;
the race is undefined behaviour, of which the model has what a build does that keeps each
access one load or one store, seen in one order.  `raced` is history: whether a store has replaced a value it had not loaded.  `Kept` is
what a round found, in order; both loops that move it forward in place come to that.
`LostOnlyInRaces` names the places an element may be at (`Where`): bins, items a thread has
not put yet, items it found and has to put elsewhere, and the list while that waits for
the first thread.

`TwoPsi` EXTENDS it by `sendLastPSIMessage` and `compute2PSI`: the sender's values go
into three messages by the number of the hash function its simple bins remember,
and the receiver looks its bins up by the number its cuckoo bins remember.  The OPRF is
ideal: values agree for one element in one bin only.

Run `two_psi`: four elements, three bins and two stash bins, three and two hash
functions, batches of two, three rounds of evictions (100 in the code), all
assignments of three kinds of hash values: three different bins, one bin twice, all the same
bin, which makes evictions run in circles and the stash fill up; one or two threads.  The
first element always has three different bins, to keep the instance small.  The callers of `compute2PSI`
use one thread; `OtBinMain.cpp:712`, `nPSI.cpp:750` and `OPPRF_Tests.cpp:216` hash with
several.  Fairness is weak for each thread, which the operating system schedules, and for
the two parties' messages.

| Run | Bounds | Shows |
|---|---|---|
| `two_psi` | as above | `LostOnlyInRaces`: until a store races, every element is in one place, and in a bin in the end; `ReportsWhatMeets`; `PsiEnds` |
| `two_psi_lost` | two elements, one or two threads | the finding: hashing ends and an element is in no bin |

A table of these sizes is smaller than `CuckooHasher1.cpp` would choose; the trace of the
finding puts one element per thread into one bin and leaves the stash bins unused.

Finding: two threads that put their elements into one bin can both load it empty; the
second store replaces the first one's element, and nobody has it any more.  The barrier
of `binSet.cpp:142` is to "block until all items have been inserted".  And two
threads that load the same element both carry it on, which doubles it.

`ReportsWhatMeets` says which common elements are reported: those in a first-table bin
which they entered with the first of their functions that leads there.  The others
are missed: `compute2PSI` (`OPPRFReceiver.cpp:2131`) looks them up in a message they are
not in (`OPPRFSender.cpp:2157` notes that stash bins are left out, but
`init(..., noStash = 1)` of `psi3.h:194` still has them).  In the code's
sizes this needs a collision of two functions of one element or a use of the stash.

## 9. Proofs

`MerkleWindow_proofs` (assuming only `MaxLeaves` < `WordSize` and an exception that
is no hash): `TypeCorrect`, `NeverEmpty`, `LeafReads` and `Refinement`, the last
being `Spec => ImplementsLog`.  The inductive invariant is `TypeOK /\ WindowNeverEmpty
/\ num_leaves <= MaxLeaves`; the last conjunct is needed because `leaf()` subtracts
unsigned numbers, and is itself inductive only because an insertion is the sole call
that adds leaves.  Each call has a lemma on its effect on the concatenation of
the three parts; the invariant, the reading of leaves and the refinement follow from
those effects and from lemmas on cutting concatenations.

The other proof modules begin with what they need of induction, as the library states it
for a predicate given as an operator, which the provers cannot instantiate: a set of
numbers has a least one (from the well-foundedness of inclusion among finite sets),
a set that has 0 and the successor of each of its numbers has all (`SetInduction`),
and a function that is given by its first value and a step exists (`RecursionExists`).
The predicate is a set and the step a function, so the facts apply to any.

`MerkleTree_proofs` (for every number of leaves and any values, of the calls `insert`,
`root`, `size`, `flush_to` and `retract_to`: `PlainCalls`): `StateInvariant`,
`TypeCorrect`, `CleanHashes`, `Ownership`, `Commitment` (the root is `MTH` of all the leaves
kept), `PathsAreRight` and `PastsAreRight`.  The inductive invariant `StateIs` is that
the tree is what its leaves say.  None of the checked invariants is inductive, because none says
where a node's leaves are.  `Holds` gives each node n of the tree a parent `par[n]`, a
first leaf `off[n]` and a number of leaves `cnt[n]`, such that (`Good`) the children of a
node that covers c leaves cover the `Split(c)` first of them and the rest, in that order;
its height is that of a tree over c leaves and its size the number of nodes of one,
whether or not those nodes are still there, so that a node without children is a leaf, or all its
leaves are flushed; and, unless it is dirty, its hash is `SubtreeHash` of those
leaves.  No clean node is above a dirty one.  An insertion that was left unfinished is
a path of nodes p[1] .. p[b + 1] down the right edge, of which the last is `_root` and
the others, all of them dirty, are on the insertion stack (`Standing`): the leaves under
them are already there, and only their sizes and heights are still the old ones.
The leaf nodes are where their indices say.

`MerkleInsert_proofs` has the arithmetic (`Pow2Step`, `SplitIs`, `LeafHeight`: which trees are
full is decided by the number of leaves alone) and the lemmas on what is built by recursion:
`HashIs` (`hash()` on a dirty node leaves the tree clean and every hash right), `DescentIs`
(a descent that asks the sizes of nodes for the first full one finds the largest full
subtree that ends the leaves), `ProcessIs` (what is left of the stack when the loop stops at a
node that is not full), and from these `InsertLeafHolds`, `HangWaitingHolds`,
`CompleteHolds` and `ComputeRootHolds`.  `MerkleTree_proofs` follows the walks:
`WalkToIs` (the walk that shifts the index's bits reaches the leaf, although it skips
heights that nodes on the right do not have), `FlushComputedHolds`, and for `retract_to` one
height at a time (`RetractGoes`): `Cut` says that the part of the tree already walked is
that of the leaves up to the index, with a dirty path to the node the walk is at, and
`UpdateWalkedGood` that the sizes along the walk are right in the end.  That a retraction
may meet conflated nodes is why `Good` lets nodes whose leaves are flushed have no children.

Paths are followed turn by turn.  `Paths` is the reference's audit path inside each of its
trees; the turns of a walk, from the leaf up, give just those elements (`TurnsAre`,
`ElementsAre`), so `path()` is the reference's path and hashes to the root (`PathIs`).  For
a past index the log is cut behind `as_of` (`CutAt`), and `HashThen` and `PathThen` are
what the reference says, of the cut log, for the leaves that a node of today's tree would
still have.  Going up from `as_of`, a turn to the right joins the left subtree, whose leaves
are all still there, and a turn to the left adds nothing (`PastTurn`); so the left elements
of a path make the past root (`PastRootAlong`).  The walk to `i` is the same
up to the fork with the walk to `as_of` (`ForkIs`), at which the path gets one element, the
hash of what was there on its right (`PastBelow`), and above which the turns to the right
are all that counts (`PastAbove`).  By `RetractIs` the tree after `retract_to` is that of
the cut log, and `PathIs` applied to it gives the same answers (`PastOfTree`).
`RootCommitsToLeaves` is false with `copy` among the calls (`merkle_copy`), and
the theorems say nothing of `deserialise`.

`RsPsi_proofs` (assuming at least one input and one thread, and sequences of hashes
from the sender): `TypeCorrect` and `HashesAreSafe`, for every
number of inputs and threads and every interleaving.  The invariant adds `Barrier`
to the types: a thread that is past the barrier has seen the promise set, while the
promise is set nobody is hashing, and no word of the receiver's hashes has changed
before somebody started finding.  The step that matters is the last arrival: the
counter is the number of threads that arrived, so when it reaches `numThreads` the
set of arrived threads has the cardinality of, and thus is, the set of all threads.
`ResultsAreSafe` and `Refinement` assume `AssumeFit` besides, without which they are
false (`rspsi_overfull`).  Their invariant `FitInv` says that the words from the start of
a thread's stretch on are the common indices its map has met, each once, so that
there are never more of them than the words of the stretch, and a write goes to no
other thread's stretch; the arithmetic is that the stretches `t * n / numThreads` of
two threads are disjoint.  For the refinement it adds that what has been merged is the
union of what the threads that are done have met.

The queues of rings have theorems of their own in `Channel_proofs`, for any capacity and any
items: every queue that the calls make is well formed (`QueueOK`: only the last ring may be empty, counts are within the
capacity, free slots hold nothing), the last ring alone tells whether a queue is empty
(`IsEmptyIsExact`), `push_back` adds behind everything and `pop_front` takes the oldest
item, also when it drops a ring (`PushKeepsQueue`, `PopKeepsQueue`).  The arithmetic of
slots reduced modulo the capacity is in lemmas of its own (`SlotsDiffer`).
`NewQueueIsEmpty`, `IsEmptyIsRight`, `PushAppends` and `PopTakes` say the same of all
that a queue holds, ring after ring (`Items`, a recursive function): by induction on
the number of rings, a queue of rings is a sequence to its users.

`Channel_proofs` (for every set of cases and every first capacity): `TypeCorrect`,
`OneAfterTheOther`, `GivenUpMeansFinished`, `OnlyKnownCrashes`, `CloseLeavesTheDoomed`
and `QueuesImplementFifo`, the last one the refinement of `Fifo` by both queues.
None of the checked invariants is inductive.  `IInv` adds, of each side: the right
to start an operation is free, or with the socket, or in one handler of the
strand, and nowhere before the side is open (`Right`); whoever has it has it for the
first operation queued (`ForTheFirst`); operations are numbered without gaps, so that
what the socket carried and what is queued make up all that were started
(`Numbered`, `Carried`); only the first operation queued can have an answer already,
and only in a channel that has not failed (`FirstAnswered`), which is why a promise is
set twice by a failure and by nothing else; a queue that was given up holds only what
was pushed too late (`OnlyLate`); and a client's connection string is with the socket only
before anything was sent (`StringFirstAlways`).  Of the channel: each side is opened once
(`OpenOnce`), and where the closing thread is tells which sides are given up or about
to be (`ClosingOK`).  A handler is described by what it does to the values of its side,
and an action by the handler; queues of rings enter through the theorems above.

`Acceptor_proofs` (for every number of sessions, connections and channels, and whoever
calls what): `TypeCorrect`, `NoMatchIsMissed`, `ServedByOne`, `ListensOn` and `EndsKnown`.
The invariant `Whole` has three parts.  `FlowInv` follows accepts and handshakes: while
it is not stopped the acceptor listens exactly if it has groups, and no group is kept that
nobody wants; while it listens an accept is under way, taken, or in the strand to be
started (`Listening`); the end of a handshake is in the strand at most once, in the phase
that says so (`Answering`); and once stop's promise for the sockets is set, no
pending socket is left or will come, which is why it is not set twice (`Erasing`).
`BookInv` is about pairing: every group `Fits` the outcomes (who waits in it got
nothing, its sockets and those its channels got are of the remote session it is paired
with, and nothing in it goes together), no two groups are paired with one remote session,
the sockets kept apart belong to remote sessions no group is paired with and go with no
channel of an unpaired group, and every connection is in one place only and its handshake
over.  `Threads` is about the sessions' threads: from the answer to `subscribe` to
`unsubscribe` a session has a living group, unless it was turned away, and a channel that
was added has its request in the strand, ahead of the end of its session, or waits, or
got something.  The three need each other.  A merge throws unless the group it pairs
is unpaired and holds no socket (`BookInv`), which holds because its session has no ID
yet and is alive or its channel waits (`Threads`), and a request is made once because
its channel is not known yet.  `AddSocketsFits` is the induction over the sockets of a
remote session; adding one socket or one channel, settling a group and pairing it have a
lemma each, and a handler is composed of them.

`TwoPsi_proofs` (for every size of the set and of the tables, all hash functions, every
number of threads): `HashingTyped`; `HashingLosesNothing`, which is `LostOnlyInRaces`;
`OneThreadInserts`, that one thread does insert all elements; and `ReportedMeets` if there is
a message for each function of the first table, as there is for every `CuckooParam1` in
`CuckooHasher1.cpp:21`-`42`, which has three functions, as there are three messages.  The
callers of `compute2PSI` hash with one thread (`psi3.h:149` and `213`), to which the first
three apply without exception.  `BinInv` is for the types: a barrier's counter is the number of threads
that have not come to it, so it is not zero when one comes (`Barriers`; this is
what keeps all but the first thread off the stash bins), a thread is inside its share
(`Shares`), and its hands are empty between rounds (`Hands`).  `Numbers` says that an item
carries the number of a function of the table being filled, and that a bin of the first
table is where the number it holds leads.  `Placed` says that every element taken up is in
one place, and is invariant until a race (`Settled`): a load leaves the element in its
bin, and if the bin still holds it when the store comes it is then in the hands of one
thread only.  One thread never races (`Alone`).  The hard steps are `EndRound`, where places move as
the empty bins are squeezed out (`KeptIs`, by induction on what was found), and
the batch and the leftovers, where elements enter and change hands.  `Reported` follows
the three messages: what is reported is what met in those received, an element is in one
bin with one number, and so it is reported at most once.

`KaApsi_proofs` (for any inputs of at least two and one elements and any hash
function): `TypeCorrect`, `TablesDecide` and `MessagesRecovered`.  None of the three is
inductive.  `IInv` adds what the steps before have left: once the receiver has
committed, all its bins that are not empty can be interpolated, the polynomials are
those through them, and the root is theirs (`Committed`); after n of the sender's inputs
its table is `Table` of the first n, each of them found a polynomial, and as many zero
keys as there are inputs stand in front of the keys (`Evaluating`); a program that is
about to intersect has two or more inputs in every bin of both parties (`Passed`).
That the checks of an honest receiver cannot fail is that the numbers of coefficients
add up to the number of inputs, empty bins or not (`ElementsOfFilled`,
`TableHoldsAll`).  That no bin of the receiver is empty when the sender can interpolate
is counting: each bin of the sender has an input that found a polynomial, so there are
as many polynomials as bins (`AllFilled`).  That the right message is recovered is that
bins stay where they were as long as none before them is left out (`FirstBins`), and
that what precedes an input in the order of the bins are the inputs of smaller bins and
the earlier ones of its own (`CounterIs`, `PlaceIs`).  The lemmas on `Only`, `Total` and
`Counter` are by induction on the length of a sequence.

Only model-checked: of `MerkleTree`, segments (`SegmentIsRetractionAndFlush`), copies,
reloads and the refinement of `MerkleWindow`; and all liveness, that of `two_psi` included (out of the
prover's reach).

## 10. Not modelled

* `merklecpp`: moves (the move constructor leaves `_root` in both trees), assignment
  onto a tree in use or onto itself, the byte layout of serialised trees and paths,
  `PathT`'s copy and move constructors (which leave two members unset), printing,
  statistics, and SHA-256 itself.
* KA-APSI: inputs of one element (`n / log2(n)` is infinite there), more than 255
  inputs (the evaluation point keeps one byte), and field arithmetic.
* Channel: statistics, callbacks of the user, `onConnect`, the bytes of an operation.
  Acceptor: several ports, address resolution, malformed names, a header that comes in
  parts (its two receives are one step), accept errors while the port is open.
* mPSI: sets of five elements or fewer, for which the number of stash bins is zero and
  `SimpleHasher1.cpp:294` divides by it; the parameters of the tables; rounds of many
  parties.
* Protocols that are mostly algebra (OPRF, OKVS, VOLE, FRI, pairings, GMW), vendored
  libraries, benchmarks, parsers and generated data: TLC cannot evaluate their fields,
  and their control is a straight line.

## 11. Files

* `MC*.tla` give the constants of the instances; `*.cfg` name the specification,
  constants and properties of a run; `PROJECT.json` lists runs, hazards, theorems,
  findings and the source lines each definition stands for.
* Operators whose names say what they get wrong (`FindWithoutCounting`,
  `ToSkipNone`, `CounterFromZero`, ...) are plausible slips in the code.  No
  specification uses them; putting one in the place of the definition it follows
  must make the property named in `PROJECT.json` fail.
* `tlc -config X.cfg M` runs a model, `tlapm M_proofs.tla` checks proofs.
