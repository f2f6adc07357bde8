--------------------------- MODULE Acceptor_proofs ---------------------------
(***************************************************************************)
(* Safety of the acceptor, for every number of sessions, connections and   *)
(* channels and whoever calls what.  The invariant has three parts.        *)
(*                                                                         *)
(*   FlowInv: accepts, handshakes and the port.  It does not depend on how *)
(*   channels and sockets are paired.                                      *)
(*                                                                         *)
(*   BookInv: groups, sockets not paired yet and outcomes.  Nobody waits who*)
(*   got something, a group and a remote session are paired with each other*)
(*   only, every connection is in one place, and nothing that goes together*)
(*   is apart.                                                             *)
(*                                                                         *)
(*   Threads: what the threads have asked for and what has come of it.  A  *)
(*   channel waits, got something or has its request in the strand, ahead of*)
(*   the end of its session.                                               *)
(*                                                                         *)
(* A handler of pairing throws unless the book is right, a handler finds its*)
(* group as long as the threads are, and a promise is set once because of  *)
(* the flow.                                                               *)
(***************************************************************************)
EXTENDS Acceptor, SequenceTheorems, FiniteSetTheorems, WellFoundedInduction, TLAPS

-----------------------------------------------------------------------------
(* Induction over the natural numbers and what follows from it: functions  *)
(* defined by recursion exist.  A predicate is given by the set of numbers *)
(* that satisfy it and a recursion by a function, so that the facts can be *)
(* cited for any predicate and any recursion.                              *)

(* A set of numbers has a least one: there are no infinite descents among  *)
(* the finite sets of the numbers below each.                              *)
LEMMA LeastNumber ==
  ASSUME NEW T \in SUBSET Nat, T # {}
  PROVE  \E n \in T : \A m \in T : n <= m
<1>. DEFINE Initials == {0 .. (n - 1) : n \in T}
<1>1. Initials \subseteq FiniteSubsetsOf(Nat) /\ Initials # {}
  <2>1. ASSUME NEW n \in T PROVE 0 .. (n - 1) \in SUBSET Nat /\ IsFiniteSet(0 .. (n - 1))
    BY FS_Interval
  <2>. QED BY <2>1 DEF FiniteSubsetsOf
<1>2. IsWellFoundedOn(StrictSubsetOrdering(Nat), FiniteSubsetsOf(Nat))
  BY FS_StrictSubsetOrderingWellFounded
<1>3. \E x \in Initials : \A y \in Initials : ~ (<<y, x>> \in StrictSubsetOrdering(Nat))
  BY <1>1, <1>2, WFMin
<1>4. PICK n \in T :
        \A m \in T : ~ (<<0 .. (m - 1), 0 .. (n - 1)>> \in StrictSubsetOrdering(Nat))
  BY <1>3
<1>5. ASSUME NEW m \in T, ~ (n <= m) PROVE FALSE
  <2>1. m \in Nat /\ n \in Nat OBVIOUS
  <2>2. 0 .. (m - 1) \in SUBSET Nat /\ 0 .. (n - 1) \in SUBSET Nat BY <2>1
  <2>3. /\ 0 .. (m - 1) \subseteq 0 .. (n - 1)
        /\ m \in 0 .. (n - 1) /\ m \notin 0 .. (m - 1)
    BY <2>1, <1>5
  <2>. QED BY <1>4, <2>2, <2>3 DEF StrictSubsetOrdering
<1>. QED BY <1>5

(* Induction: T is the set of the numbers of which something is to be shown.*)
LEMMA SetInduction ==
  ASSUME NEW T, 0 \in T, \A n \in Nat : n \in T => n + 1 \in T
  PROVE  Nat \subseteq T
<1>. DEFINE Out == Nat \ T
<1>1. SUFFICES ASSUME Out # {} PROVE FALSE OBVIOUS
<1>2. PICK n \in Out : \A m \in Out : n <= m
  <2>1. Out \in SUBSET Nat OBVIOUS
  <2>. HIDE DEF Out
  <2>. QED BY <1>1, <2>1, LeastNumber
<1>3. n \in Nat /\ n # 0 OBVIOUS
<1>4. n - 1 \in Nat /\ n - 1 \notin Out BY <1>2, <1>3
<1>. QED BY <1>3, <1>4

(* The functions on 0 .. n with a given first value and a given step from  *)
(* each value to the next: there is one.                                   *)
Iterations(S, base, step, n) ==
  {f \in [0 .. n -> S] : f[0] = base /\ \A k \in 1 .. n : f[k] = step[<<f[k - 1], k>>]}

LEMMA RecursionExists ==
  ASSUME NEW S, NEW base \in S, NEW step \in [S \X Nat -> S], NEW n \in Nat
  PROVE  Iterations(S, base, step, n) # {}
<1>. DEFINE Iterates(f, m) == f[0] = base /\ \A k \in 1 .. m : f[k] = step[<<f[k - 1], k>>]
            T == {m \in Nat : \E f \in [0 .. m -> S] : Iterates(f, m)}
<1>1. 0 \in T
  <2>1. [k \in 0 .. 0 |-> base] \in [0 .. 0 -> S] /\ Iterates([k \in 0 .. 0 |-> base], 0)
    OBVIOUS
  <2>. QED BY <2>1
<1>2. ASSUME NEW m \in Nat, m \in T PROVE m + 1 \in T
  <2>1. PICK f \in [0 .. m -> S] : Iterates(f, m) BY <1>2
  <2>. DEFINE g == [k \in 0 .. m + 1 |-> IF k = m + 1 THEN step[<<f[m], m + 1>>] ELSE f[k]]
  <2>2. f[m] \in S /\ <<f[m], m + 1>> \in S \X Nat OBVIOUS
  <2>3. g \in [0 .. m + 1 -> S] BY <2>2
  <2>4. g[0] = base BY <2>1
  <2>5. ASSUME NEW k \in 1 .. m + 1 PROVE g[k] = step[<<g[k - 1], k>>]
    <3>1. CASE k = m + 1 BY <3>1, SMTT(20)
    <3>2. CASE k # m + 1
      <4>1. k \in 1 .. m /\ k - 1 \in 0 .. m BY <3>2
      <4>2. g[k] = f[k] /\ g[k - 1] = f[k - 1] BY <4>1
      <4>. QED BY <2>1, <4>1, <4>2
    <3>. QED BY <3>1, <3>2
  <2>. HIDE DEF g
  <2>6. Iterates(g, m + 1) BY <2>4, <2>5
  <2>. QED BY <2>3, <2>6
<1>. HIDE DEF T
<1>3. Nat \subseteq T BY <1>1, <1>2, SetInduction
<1>4. n \in T BY <1>3
<1>. QED BY <1>4 DEF T, Iterations

-----------------------------------------------------------------------------
(* A handler of the strand, and the name of a connection in one.            *)
Handler(tag, x) == <<tag, x>>
Of(c) == <<c>>

LEMMA HandlersDiffer ==
  /\ \A a, b, x, y : Handler(a, x) = Handler(b, y) <=> a = b /\ x = y
  /\ \A c, d : Of(c) = Of(d) <=> c = d
  /\ \A c : Of(c) # None
BY DEF Handler, Of, None

Has(st, h) == \E k \in DOMAIN st : st[k] = h
Once(st, h) == \A j, k \in DOMAIN st : st[j] = h /\ st[k] = h => j = k
Before(st, h, u) == \A j, k \in DOMAIN st : st[j] = h /\ st[k] = u => j < k

-----------------------------------------------------------------------------
(* Strands: handlers are posted at the end and leave from the front.        *)

LEMMA TailOf ==
  ASSUME NEW S, NEW st \in Seq(S), st # <<>>
  PROVE  /\ Tail(st) \in Seq(S) /\ 1 \in DOMAIN st /\ st[1] = Head(st)
         /\ DOMAIN st \subseteq Nat /\ DOMAIN Tail(st) \subseteq Nat
         /\ \A k \in DOMAIN Tail(st) : k # 0 /\ k + 1 \in DOMAIN st /\ Tail(st)[k] = st[k + 1]
         /\ \A k \in DOMAIN st : k # 1 => k - 1 \in DOMAIN Tail(st) /\ Tail(st)[k - 1] = st[k]
  OBVIOUS

LEMMA Taken ==
  ASSUME NEW S, NEW st \in Seq(S), st # <<>>
  PROVE  /\ Tail(st) \in Seq(S)
         /\ Has(st, Head(st))
         /\ \A h : Has(Tail(st), h) => Has(st, h)
         /\ \A h : h # Head(st) /\ Has(st, h) => Has(Tail(st), h)
         /\ \A h : Once(st, h) => Once(Tail(st), h)
         /\ Once(st, Head(st)) => ~Has(Tail(st), Head(st))
         /\ \A h, u : Before(st, h, u) => Before(Tail(st), h, u)
<1>. DEFINE tl == Tail(st)
            hd == Head(st)
<1>1. /\ tl \in Seq(S) /\ 1 \in DOMAIN st /\ st[1] = hd
      /\ DOMAIN st \subseteq Nat /\ DOMAIN tl \subseteq Nat
      /\ \A k \in DOMAIN tl : k # 0 /\ k + 1 \in DOMAIN st /\ tl[k] = st[k + 1]
      /\ \A k \in DOMAIN st : k # 1 => k - 1 \in DOMAIN tl /\ tl[k - 1] = st[k]
  BY TailOf
<1>. HIDE DEF tl, hd
<1>2. Has(st, hd) BY <1>1 DEF Has
<1>3. \A h : Has(tl, h) => Has(st, h) BY <1>1 DEF Has
<1>4. ASSUME NEW h, h # hd, Has(st, h) PROVE Has(tl, h)
  <2>1. PICK k \in DOMAIN st : st[k] = h BY <1>4 DEF Has
  <2>2. k # 1 BY <1>1, <1>4, <2>1
  <2>. QED BY <1>1, <2>1, <2>2 DEF Has
<1>5. ASSUME NEW h, Once(st, h) PROVE Once(tl, h)
  <2>1. ASSUME NEW j \in DOMAIN tl, NEW k \in DOMAIN tl, tl[j] = h, tl[k] = h PROVE j = k
    <3>1. j + 1 = k + 1 BY <1>1, <1>5, <2>1 DEF Once
    <3>2. j \in Nat /\ k \in Nat BY <1>1
    <3>. QED BY <3>1, <3>2
  <2>. QED BY <2>1 DEF Once
<1>6. ASSUME Once(st, hd), Has(tl, hd) PROVE FALSE
  <2>1. PICK k \in DOMAIN tl : tl[k] = hd BY <1>6 DEF Has
  <2>2. k + 1 = 1 BY <1>1, <1>6, <2>1 DEF Once
  <2>. QED BY <1>1, <2>2
<1>7. ASSUME NEW h, NEW u, Before(st, h, u) PROVE Before(tl, h, u)
  <2>1. ASSUME NEW j \in DOMAIN tl, NEW k \in DOMAIN tl, tl[j] = h, tl[k] = u PROVE j < k
    <3>1. j + 1 < k + 1 BY <1>1, <1>7, <2>1 DEF Before
    <3>2. j \in Nat /\ k \in Nat BY <1>1
    <3>. QED BY <3>1, <3>2
  <2>. QED BY <2>1 DEF Before
<1>. QED BY <1>1, <1>2, <1>3, <1>4, <1>5, <1>6, <1>7 DEF tl, hd

LEMMA Posted ==
  ASSUME NEW S, NEW st \in Seq(S), NEW x \in S
  PROVE  /\ st \o <<x>> \in Seq(S)
         /\ \A h : Has(st \o <<x>>, h) <=> Has(st, h) \/ h = x
         /\ \A h : Once(st, h) /\ (h = x => ~Has(st, h)) => Once(st \o <<x>>, h)
         /\ \A h, u : Before(st, h, u) /\ (h = x => ~Has(st, u) /\ u # x) => Before(st \o <<x>>, h, u)
<1>. DEFINE pt == st \o <<x>>
            n == Len(st)
<1>1. /\ pt \in Seq(S) /\ n \in Nat /\ DOMAIN st = 1 .. n /\ DOMAIN pt = 1 .. n + 1
      /\ \A k \in 1 .. n : pt[k] = st[k]
      /\ pt[n + 1] = x
  OBVIOUS
<1>. HIDE DEF pt, n
<1>2. \A h : Has(pt, h) <=> Has(st, h) \/ h = x
  <2>1. ASSUME NEW h, Has(pt, h) PROVE Has(st, h) \/ h = x
    <3>1. PICK k \in 1 .. n + 1 : pt[k] = h BY <1>1, <2>1 DEF Has
    <3>2. k \in 1 .. n \/ k = n + 1 BY <1>1
    <3>. QED BY <1>1, <3>1, <3>2 DEF Has
  <2>2. ASSUME NEW h, Has(st, h) \/ h = x PROVE Has(pt, h)
    <3>1. n + 1 \in DOMAIN pt /\ \A k \in DOMAIN st : k \in DOMAIN pt BY <1>1
    <3>. QED BY <1>1, <2>2, <3>1 DEF Has
  <2>. QED BY <2>1, <2>2
<1>3. ASSUME NEW h, Once(st, h), h = x => ~Has(st, h) PROVE Once(pt, h)
  <2>1. ASSUME NEW j \in 1 .. n + 1, NEW k \in 1 .. n + 1, pt[j] = h, pt[k] = h, j # k PROVE FALSE
    <3>1. CASE j \in 1 .. n /\ k \in 1 .. n BY <1>1, <1>3, <2>1, <3>1 DEF Once
    <3>2. CASE j \in 1 .. n /\ k = n + 1 BY <1>1, <1>3, <2>1, <3>2 DEF Has
    <3>3. CASE j = n + 1 /\ k \in 1 .. n BY <1>1, <1>3, <2>1, <3>3 DEF Has
    <3>. QED BY <1>1, <2>1, <3>1, <3>2, <3>3
  <2>. QED BY <1>1, <2>1 DEF Once
<1>4. ASSUME NEW h, NEW u, Before(st, h, u), h = x => ~Has(st, u) /\ u # x PROVE Before(pt, h, u)
  <2>1. ASSUME NEW j \in 1 .. n + 1, NEW k \in 1 .. n + 1, pt[j] = h, pt[k] = u PROVE j < k
    <3>1. CASE j \in 1 .. n /\ k \in 1 .. n BY <1>1, <1>4, <2>1, <3>1 DEF Before
    <3>2. CASE j \in 1 .. n /\ k = n + 1 BY <1>1, <3>2
    <3>3. CASE j = n + 1
      <4>1. h = x BY <1>1, <2>1, <3>3
      <4>2. k \notin 1 .. n BY <1>1, <1>4, <2>1, <4>1 DEF Has
      <4>3. k # n + 1 BY <1>1, <1>4, <2>1, <4>1
      <4>. QED BY <1>1, <4>2, <4>3
    <3>. QED BY <1>1, <3>1, <3>2, <3>3
  <2>. QED BY <1>1, <2>1 DEF Before
<1>. QED BY <1>1, <1>2, <1>3, <1>4 DEF pt

-----------------------------------------------------------------------------
(* Nobody changes the case that is checked.                                 *)

LEMMA SameWork ==
  ASSUME work' = work
  PROVE  /\ Connection' = Connection /\ Used' = Used /\ Channel' = Channel
         /\ \A c : Remote(c)' = Remote(c)
         /\ \A ch, c : Match(ch, c)' = Match(ch, c)
         /\ \A sg, ch : Offers(sg, ch)' = Offers(sg, ch)
<1>1. Connection' = Connection BY DEF Connection
<1>2. Used' = Used BY DEF Used
<1>3. Channel' = Channel BY <1>2 DEF Channel
<1>4. \A c : Remote(c)' = Remote(c) BY DEF Remote
<1>5. \A ch, c : Match(ch, c)' = Match(ch, c) BY DEF Match
<1>6. \A sg, ch : Offers(sg, ch)' = Offers(sg, ch) BY <1>5 DEF Offers
<1>. QED BY <1>1, <1>2, <1>3, <1>4, <1>5, <1>6

(* What the assumption on the cases says of the one that is checked.        *)
Numbers == Nat \ {0}

LEMMA TheCase ==
  ASSUME work \in Cases
  PROVE  /\ Used \subseteq Session
         /\ work.name \in [Used -> STRING] /\ work.plan \in [Used -> Seq(STRING)]
         /\ Connection = 1 .. Len(work.remote) /\ Len(work.remote) \in Nat
         /\ \A c \in Connection : work.remote[c] \in STRING \X Numbers \X STRING
         /\ work.stop \in BOOLEAN
<1>1. /\ DOMAIN work.name \subseteq Session
      /\ work.name \in [DOMAIN work.name -> STRING] /\ work.plan \in [DOMAIN work.name -> Seq(STRING)]
      /\ work.remote \in Seq(STRING \X Numbers \X STRING) /\ work.stop \in BOOLEAN
  BY ConstantsOK DEF Numbers
<1>. DEFINE R == STRING \X Numbers \X STRING
<1>2. work.remote \in Seq(R) BY <1>1
<1>. HIDE DEF R
<1>3. DOMAIN work.remote = 1 .. Len(work.remote) /\ Len(work.remote) \in Nat
      /\ \A c \in DOMAIN work.remote : work.remote[c] \in R
  BY <1>2
<1>. QED BY <1>1, <1>3 DEF Used, Connection, R

-----------------------------------------------------------------------------
(* The flow of accepts and handshakes.                                      *)

Things == {None} \cup {Of(c) : c \in Connection} \cup Channel \cup Used
Tags == {"start", "erase", "named", "get", "cancel", "subscribe", "unsubscribe", "stop"}
Handlers == {Handler(tag, x) : tag \in Tags, x \in Things}

InStrand(tag, x) == Has(strand, Handler(tag, x))
OnceInStrand(tag, x) == Once(strand, Handler(tag, x))

FlowTyped ==
  /\ work \in Cases
  /\ mStopped \in BOOLEAN /\ mListening \in BOOLEAN /\ pendingSocketsEmpty \in BOOLEAN
  /\ accepting \in Nat /\ aborted \in Nat
  /\ phase \in [Connection -> Phases]
  /\ groups = [s \in DOMAIN groups |-> groups[s]]
  /\ strand \in Seq(Handlers)

(* An accept is under way, or about to be started.                          *)
AnAccept ==
  \/ accepting + aborted > 0
  \/ \E c \in Connection : phase[c] = "taken"
  \/ InStrand("start", None)

(* The acceptor listens exactly while it has groups and is not stopped, and *)
(* no group is kept that nobody wants.                                      *)
Listening ==
  /\ \A s \in DOMAIN groups : HasSubscriptions(groups[s])
  /\ mStopped => ~mListening
  /\ ~mStopped => (mListening <=> DOMAIN groups # {})
  /\ mListening => AnAccept

(* The end of a handshake is handled once, and the connection waits for it. *)
Answering ==
  \A c \in Connection :
    /\ InStrand("named", Of(c)) => phase[c] = "named" /\ OnceInStrand("named", Of(c))
    /\ InStrand("erase", Of(c)) => phase[c] = "failed" /\ OnceInStrand("erase", Of(c))

Handshake == {"taken", "accepted", "header", "named", "failed"}

NoPending ==
  /\ accepting = 0 /\ aborted = 0
  /\ \A c \in Connection : phase[c] \notin Handshake
  /\ ~InStrand("erase", None)

(* Once the promise for the pending sockets is set there are none, and none *)
(* comes any more.                                                          *)
Erasing == mStopped /\ pendingSocketsEmpty => NoPending

FlowInv == FlowTyped /\ Listening /\ Answering /\ Erasing

-----------------------------------------------------------------------------
(* Counting pending sockets.                                                *)

LEMMA SumIsZero ==
  ASSUME NEW a \in Nat, NEW b \in Nat, NEW c \in Nat, NEW d \in Nat, a + b + c + d = 0
  PROVE  a = 0 /\ b = 0 /\ c = 0 /\ d = 0
OBVIOUS

LEMMA Pending ==
  ASSUME FlowTyped
  PROVE  /\ PendingSockets \in Nat
         /\ PendingSockets = 0 <=> NoPending
         /\ PendingSockets = 1 => /\ \A c \in Connection : phase[c] \in Handshake =>
                                       /\ accepting = 0 /\ aborted = 0 /\ ~InStrand("erase", None)
                                       /\ \A d \in Connection : phase[d] \in Handshake => d = c
                                  /\ InStrand("erase", None) =>
                                       /\ accepting = 0 /\ aborted = 0 /\ OnceInStrand("erase", None)
                                       /\ \A d \in Connection : phase[d] \notin Handshake
<1>. DEFINE A == {c \in Connection : phase[c] \in Handshake}
            B == {k \in DOMAIN strand : strand[k] = Handler("erase", None)}
<1>1. PendingSockets = accepting + aborted + Cardinality(A) + Cardinality(B)
  BY DEF PendingSockets, Handshake, Handler
<1>2. IsFiniteSet(A) /\ IsFiniteSet(B)
  <2>1. Connection = 1 .. Len(work.remote) /\ Len(work.remote) \in Nat BY TheCase DEF FlowTyped
  <2>2. DOMAIN strand = 1 .. Len(strand) /\ Len(strand) \in Nat BY DEF FlowTyped
  <2>3. IsFiniteSet(Connection) /\ IsFiniteSet(DOMAIN strand) BY <2>1, <2>2, FS_Interval
  <2>4. A \subseteq Connection /\ B \subseteq DOMAIN strand OBVIOUS
  <2>. QED BY <2>3, <2>4, FS_Subset
<1>3. InStrand("erase", None) <=> B # {} BY DEF InStrand, Has
<1>4. (\A c \in Connection : phase[c] \notin Handshake) <=> A = {} OBVIOUS
<1>5. /\ Cardinality(A) \in Nat /\ Cardinality(B) \in Nat
      /\ Cardinality(A) = 0 <=> A = {}
      /\ Cardinality(B) = 0 <=> B = {}
  <2>. HIDE DEF A, B
  <2>. QED BY <1>2, FS_CardinalityType, FS_EmptySet
<1>6. accepting \in Nat /\ aborted \in Nat BY DEF FlowTyped
<1>7. ASSUME Cardinality(A) = 1, NEW c \in A, NEW d \in A PROVE d = c
  <2>. HIDE DEF A
  <2>. QED BY <1>2, <1>7, FS_Singleton
<1>8. ASSUME Cardinality(B) = 1 PROVE OnceInStrand("erase", None)
  <2>1. ASSUME NEW j \in B, NEW k \in B PROVE j = k
    <3>. HIDE DEF B
    <3>. QED BY <1>2, <1>8, <2>1, FS_Singleton
  <2>. QED BY <2>1 DEF OnceInStrand, Once
<1>9. PendingSockets \in Nat
  <2>. HIDE DEF A, B
  <2>. QED BY <1>1, <1>5, <1>6
<1>10. PendingSockets = 0 <=> NoPending
  <2>1. PendingSockets = 0 <=> accepting = 0 /\ aborted = 0 /\ A = {} /\ B = {}
    <3>. HIDE DEF A, B
    <3>1. ASSUME PendingSockets = 0 PROVE accepting = 0 /\ aborted = 0 /\ A = {} /\ B = {}
      <4>1. accepting + aborted + Cardinality(A) + Cardinality(B) = 0 BY <1>1, <3>1
      <4>2. accepting = 0 /\ aborted = 0 /\ Cardinality(A) = 0 /\ Cardinality(B) = 0
        BY <4>1, <1>5, <1>6, SumIsZero
      <4>. QED BY <4>2, <1>5
    <3>2. ASSUME accepting = 0, aborted = 0, A = {}, B = {} PROVE PendingSockets = 0
      BY <3>2, <1>1, <1>5, <1>6
    <3>. QED BY <3>1, <3>2
  <2>. QED BY <2>1, <1>3, <1>4 DEF NoPending
<1>11. ASSUME PendingSockets = 1, NEW c \in Connection, phase[c] \in Handshake
       PROVE  /\ accepting = 0 /\ aborted = 0 /\ ~InStrand("erase", None)
              /\ \A d \in Connection : phase[d] \in Handshake => d = c
  <2>1. c \in A BY <1>11
  <2>2. accepting = 0 /\ aborted = 0 /\ Cardinality(A) = 1 /\ Cardinality(B) = 0
    <3>. HIDE DEF A, B
    <3>. QED BY <1>1, <1>5, <1>6, <1>11, <2>1
  <2>3. \A d \in A : d = c BY <1>7, <2>1, <2>2
  <2>. QED BY <1>3, <1>5, <2>2, <2>3
<1>12. ASSUME PendingSockets = 1, InStrand("erase", None)
       PROVE  /\ accepting = 0 /\ aborted = 0 /\ OnceInStrand("erase", None)
              /\ \A d \in Connection : phase[d] \notin Handshake
  <2>1. accepting = 0 /\ aborted = 0 /\ Cardinality(B) = 1 /\ Cardinality(A) = 0
    <3>. HIDE DEF A, B
    <3>. QED BY <1>1, <1>3, <1>5, <1>6, <1>12
  <2>. QED BY <1>4, <1>5, <1>8, <2>1
<1>. QED BY <1>9, <1>10, <1>11, <1>12

-----------------------------------------------------------------------------
(* What running and posting a handler does to the strand.                   *)

LEMMA Ran ==
  ASSUME strand \in Seq(Handlers), NEW h, Runs(h), Finish, work' = work
  PROVE  /\ strand' \in Seq(Handlers') /\ Has(strand, h) /\ Running
         /\ \A g : Has(strand', g) => Has(strand, g)
         /\ \A g : g # h /\ Has(strand, g) => Has(strand', g)
         /\ \A g : Once(strand, g) => Once(strand', g)
         /\ Once(strand, h) => ~Has(strand', h)
         /\ \A g, u : Before(strand, g, u) => Before(strand', g, u)
<1>1. strand # <<>> /\ Head(strand) = h /\ strand' = Tail(strand) BY DEF Runs, Finish
<1>2. Handlers' = Handlers BY SameWork DEF Handlers, Things
<1>3. Running BY DEF Runs
<1>. HIDE DEF Handlers
<1>. QED BY <1>1, <1>2, <1>3, Taken

LEMMA Posting ==
  ASSUME strand \in Seq(Handlers), NEW h \in Handlers, Post(<<h>>), work' = work
  PROVE  /\ strand' \in Seq(Handlers')
         /\ \A g : Has(strand', g) <=> Has(strand, g) \/ g = h
         /\ \A g : Once(strand, g) /\ (g = h => ~Has(strand, g)) => Once(strand', g)
         /\ \A g, u : Before(strand, g, u) /\ (g = h => ~Has(strand, u) /\ u # h) => Before(strand', g, u)
<1>1. strand' = strand \o <<h>> BY DEF Post
<1>2. Handlers' = Handlers BY SameWork DEF Handlers, Things
<1>. HIDE DEF Handlers
<1>. QED BY <1>1, <1>2, Posted

LEMMA OnePair ==
  ASSUME NEW x, NEW y
  PROVE  <<x, y>> = <<x>> \o <<y>>
<1>. DEFINE S == {x, y}
            p == <<x>>
            q == <<y>>
            r == <<x, y>>
<1>1. /\ p \in Seq(S) /\ Len(p) = 1 /\ p[1] = x
      /\ q \in Seq(S) /\ Len(q) = 1 /\ q[1] = y
      /\ r \in Seq(S) /\ Len(r) = 2 /\ r[1] = x /\ r[2] = y
  OBVIOUS
<1>. HIDE DEF S, p, q, r
<1>2. /\ p \o q \in Seq(S) /\ Len(p \o q) = Len(p) + Len(q)
      /\ \A i \in 1 .. Len(p) + Len(q) : (p \o q)[i] = IF i <= Len(p) THEN p[i] ELSE q[i - Len(p)]
  BY <1>1, ConcatProperties
<1>3. Len(p \o q) = 2 /\ (p \o q)[1] = x /\ (p \o q)[2] = y BY <1>1, <1>2
<1>4. \A i \in 1 .. 2 : r[i] = (p \o q)[i] BY <1>1, <1>3
<1>5. r = p \o q BY <1>1, <1>2, <1>3, <1>4, SeqEqual
<1>. QED BY <1>5 DEF p, q, r

LEMMA PostingTwo ==
  ASSUME strand \in Seq(Handlers), NEW h \in Handlers, NEW i \in Handlers, Post(<<h, i>>), work' = work
  PROVE  /\ strand' \in Seq(Handlers')
         /\ \A g : Has(strand', g) <=> Has(strand, g) \/ g = h \/ g = i
         /\ \A g : Once(strand, g) /\ g # h /\ g # i => Once(strand', g)
         /\ \A g, u : Before(strand, g, u) /\ g # h /\ g # i => Before(strand', g, u)
<1>. DEFINE mid == strand \o <<h>>
<1>1. strand' = mid \o <<i>>
  <2>1. strand' = strand \o <<h, i>> BY DEF Post
  <2>2. <<h, i>> = <<h>> \o <<i>> BY OnePair
  <2>3. <<h>> \in Seq(Handlers) /\ <<i>> \in Seq(Handlers)
    <3>. HIDE DEF Handlers
    <3>. QED OBVIOUS
  <2>. HIDE DEF Handlers
  <2>. QED BY <2>1, <2>2, <2>3, ConcatAssociative
<1>2. Handlers' = Handlers BY SameWork DEF Handlers, Things
<1>. HIDE DEF Handlers
<1>3. /\ mid \in Seq(Handlers)
      /\ \A g : Has(mid, g) <=> Has(strand, g) \/ g = h
      /\ \A g : Once(strand, g) /\ (g = h => ~Has(strand, g)) => Once(mid, g)
      /\ \A g, u : Before(strand, g, u) /\ (g = h => ~Has(strand, u) /\ u # h) => Before(mid, g, u)
  BY Posted
<1>. HIDE DEF mid
<1>4. /\ mid \o <<i>> \in Seq(Handlers)
      /\ \A g : Has(mid \o <<i>>, g) <=> Has(mid, g) \/ g = i
      /\ \A g : Once(mid, g) /\ (g = i => ~Has(mid, g)) => Once(mid \o <<i>>, g)
      /\ \A g, u : Before(mid, g, u) /\ (g = i => ~Has(mid, u) /\ u # i) => Before(mid \o <<i>>, g, u)
  BY <1>3, Posted
<1>. QED BY <1>1, <1>2, <1>3, <1>4

(* The handlers that matter to accepts and handshakes stay as they are.     *)
FlowTags == {"start", "erase", "named"}

SameFlow ==
  /\ strand' \in Seq(Handlers')
  /\ \A x : \A tag \in FlowTags : (InStrand(tag, x))' <=> InStrand(tag, x)
  /\ \A x : \A tag \in FlowTags : OnceInStrand(tag, x) => (OnceInStrand(tag, x))'

LEMMA OtherTag ==
  ASSUME NEW tag, NEW x, tag \notin FlowTags
  PROVE  \A y : \A t \in FlowTags : Handler(t, y) # Handler(tag, x)
BY HandlersDiffer

LEMMA RanAside ==
  ASSUME strand \in Seq(Handlers), NEW tag, NEW x, tag \notin FlowTags,
         Runs(Handler(tag, x)), Finish, work' = work
  PROVE  SameFlow
<1>. DEFINE h == Handler(tag, x)
<1>1. \A y : \A t \in FlowTags : Handler(t, y) # h BY OtherTag
<1>2. Runs(h) OBVIOUS
<1>. HIDE DEF h
<1>3. /\ strand' \in Seq(Handlers')
      /\ \A g : Has(strand', g) => Has(strand, g)
      /\ \A g : g # h /\ Has(strand, g) => Has(strand', g)
      /\ \A g : Once(strand, g) => Once(strand', g)
  BY <1>2, Ran
<1>. QED BY <1>1, <1>3 DEF SameFlow, InStrand, OnceInStrand

LEMMA PostedAside ==
  ASSUME strand \in Seq(Handlers), NEW tag \in Tags, NEW x \in Things, tag \notin FlowTags,
         Post(<<Handler(tag, x)>>), work' = work
  PROVE  SameFlow
<1>. DEFINE h == Handler(tag, x)
<1>1. \A y : \A t \in FlowTags : Handler(t, y) # h BY OtherTag
<1>2. Post(<<h>>) OBVIOUS
<1>3. h \in Handlers BY DEF Handlers
<1>. HIDE DEF h
<1>4. /\ strand' \in Seq(Handlers')
      /\ \A g : Has(strand', g) <=> Has(strand, g) \/ g = h
      /\ \A g : Once(strand, g) /\ (g = h => ~Has(strand, g)) => Once(strand', g)
  BY <1>2, <1>3, Posting
<1>. QED BY <1>1, <1>4 DEF SameFlow, InStrand, OnceInStrand

-----------------------------------------------------------------------------
(* Groups go when nobody wants them, and the port with the last one.        *)

Shrinks ==
  /\ groups' = [s \in DOMAIN groups' |-> groups'[s]]
  /\ DOMAIN groups' \subseteq DOMAIN groups
  /\ \A s \in DOMAIN groups' : HasSubscriptions(groups'[s])
  /\ \/ UNCHANGED netVars /\ (mListening => DOMAIN groups' # {})
     \/ DOMAIN groups' = {} /\ mListening /\ mListening' = FALSE /\ CloseHandle

GroupsOK ==
  /\ groups = [s \in DOMAIN groups |-> groups[s]]
  /\ \A s \in DOMAIN groups : HasSubscriptions(groups[s])

Left(s, g) ==
  IF HasSubscriptions(g) THEN [groups EXCEPT ![s] = g]
  ELSE [t \in DOMAIN groups \ {s} |-> groups[t]]

LEMMA WhatIsLeft ==
  ASSUME GroupsOK, NEW s, NEW g
  PROVE  /\ Left(s, g) = [t \in DOMAIN Left(s, g) |-> Left(s, g)[t]]
         /\ HasSubscriptions(g) => DOMAIN Left(s, g) = DOMAIN groups
         /\ ~HasSubscriptions(g) => DOMAIN Left(s, g) = DOMAIN groups \ {s}
         /\ s \in DOMAIN Left(s, g) => Left(s, g)[s] = g
         /\ \A t \in DOMAIN Left(s, g) : t # s => Left(s, g)[t] = groups[t]
         /\ \A t \in DOMAIN Left(s, g) : HasSubscriptions(Left(s, g)[t])
<1>. DEFINE d == DOMAIN groups
<1>1. CASE HasSubscriptions(g)
  <2>1. Left(s, g) = [t \in d |-> IF t = s THEN g ELSE groups[t]]
    BY <1>1 DEF Left, GroupsOK
  <2>. QED BY <1>1, <2>1 DEF GroupsOK
<1>2. CASE ~HasSubscriptions(g)
  <2>1. Left(s, g) = [t \in d \ {s} |-> groups[t]] BY <1>2 DEF Left
  <2>. QED BY <1>2, <2>1 DEF GroupsOK
<1>. QED BY <1>1, <1>2

LEMMA ListeningUnless ==
  ASSUME NEW b \in BOOLEAN, StopListeningUnless(b)
  PROVE  \/ UNCHANGED netVars /\ (mListening => b)
         \/ ~b /\ mListening /\ mListening' = FALSE /\ CloseHandle
BY DEF StopListeningUnless

LEMMA SettleShrinks ==
  ASSUME GroupsOK, NEW s, NEW g, Settle(s, g)
  PROVE  Shrinks /\ groups' = Left(s, g)
<1>. DEFINE left == Left(s, g)
            b == Subscribed(left)
<1>1. groups' = left /\ StopListeningUnless(b) BY DEF Settle, Left
<1>2. /\ left = [t \in DOMAIN left |-> left[t]]
      /\ DOMAIN left \subseteq DOMAIN groups
      /\ \A t \in DOMAIN left : HasSubscriptions(left[t])
  <2>1. /\ left = [t \in DOMAIN left |-> left[t]]
        /\ HasSubscriptions(g) => DOMAIN left = DOMAIN groups
        /\ ~HasSubscriptions(g) => DOMAIN left = DOMAIN groups \ {s}
        /\ \A t \in DOMAIN left : HasSubscriptions(left[t])
    BY WhatIsLeft
  <2>. HIDE DEF left
  <2>2. DOMAIN left \subseteq DOMAIN groups BY <2>1
  <2>. QED BY <2>1, <2>2
<1>3. b \in BOOLEAN /\ (b <=> DOMAIN left # {})
  <2>1. b <=> \E t \in DOMAIN left : HasSubscriptions(left[t]) BY Zenon DEF Subscribed
  <2>2. b \in BOOLEAN BY Zenon DEF Subscribed
  <2>. QED BY <1>2, <2>1, <2>2
<1>4. \/ UNCHANGED netVars /\ (mListening => b)
      \/ ~b /\ mListening /\ mListening' = FALSE /\ CloseHandle
  <2>. HIDE DEF b
  <2>. QED BY <1>1, <1>3, ListeningUnless
<1>. HIDE DEF left, b
<1>5. Shrinks BY <1>1, <1>2, <1>3, <1>4 DEF Shrinks
<1>. QED BY <1>1, <1>5 DEF left

LEMMA SettledStaysShrinks ==
  ASSUME GroupsOK, UNCHANGED <<groups, netVars>>, mListening => DOMAIN groups # {}
  PROVE  Shrinks
BY DEF Shrinks, GroupsOK

-----------------------------------------------------------------------------
(* The invariant, step by step.                                             *)

LEMMA SamePhases ==
  ASSUME work' = work
  PROVE  Connection' = Connection /\ Handlers' = Handlers /\ Phases' = Phases
BY SameWork DEF Handlers, Things, Phases

(* Handlers that have nothing to do with accepts.                           *)
LEMMA FlowAside ==
  ASSUME FlowInv, work' = work, UNCHANGED <<mStopped, phase, pendingSocketsEmpty>>, SameFlow, Shrinks
  PROVE  FlowInv'
<1>1. /\ FlowTyped /\ Listening /\ Answering /\ Erasing
      /\ mStopped' = mStopped /\ phase' = phase /\ pendingSocketsEmpty' = pendingSocketsEmpty
  BY DEF FlowInv
<1>2. Connection' = Connection /\ Handlers' = Handlers /\ Phases' = Phases BY SamePhases
<1>3. /\ accepting' \in Nat /\ aborted' \in Nat /\ mListening' \in BOOLEAN
      /\ (accepting = 0 /\ aborted = 0) => (accepting' = 0 /\ aborted' = 0)
      /\ mListening' => mListening /\ accepting' = accepting /\ aborted' = aborted /\ DOMAIN groups' # {}
      /\ mListening /\ ~mListening' => DOMAIN groups' = {}
  <2>. DEFINE Kept == mListening' = mListening /\ accepting' = accepting /\ aborted' = aborted
                        /\ (mListening => DOMAIN groups' # {})
              Over == DOMAIN groups' = {} /\ mListening' = FALSE /\ accepting' = 0
                        /\ aborted' = aborted + accepting
  <2>1. accepting \in Nat /\ aborted \in Nat /\ mListening \in BOOLEAN BY <1>1 DEF FlowTyped
  <2>2. Kept \/ Over BY DEF Shrinks, netVars, CloseHandle
  <2>3. CASE Kept BY <2>1, <2>3
  <2>4. CASE Over
    <3>1. accepting' \in Nat /\ aborted' \in Nat BY <2>1, <2>4
    <3>2. accepting = 0 /\ aborted = 0 => accepting' = 0 /\ aborted' = 0 BY <2>1, <2>4
    <3>. QED BY <2>4, <3>1, <3>2
  <2>. HIDE DEF Kept, Over
  <2>. QED BY <2>2, <2>3, <2>4
<1>4. FlowTyped'
  BY <1>1, <1>2, <1>3 DEF FlowTyped, SameFlow, Shrinks
<1>5. (InStrand("start", None))' <=> InStrand("start", None) BY DEF SameFlow, FlowTags
<1>6. (InStrand("erase", None))' <=> InStrand("erase", None) BY DEF SameFlow, FlowTags
<1>7. mListening' => AnAccept'
  <2>1. ASSUME mListening' PROVE AnAccept'
    <3>1. AnAccept /\ accepting' = accepting /\ aborted' = aborted BY <1>1, <1>3, <2>1 DEF Listening
    <3>. QED BY <1>1, <1>2, <1>5, <3>1 DEF AnAccept
  <2>. QED BY <2>1
<1>8. Listening'
  <2>1. /\ \A s \in DOMAIN groups : HasSubscriptions(groups[s])
        /\ mStopped => ~mListening
        /\ ~mStopped => (mListening <=> DOMAIN groups # {})
    BY <1>1 DEF Listening
  <2>2. \A s \in DOMAIN groups' : HasSubscriptions(groups'[s]) BY DEF Shrinks
  <2>3. mStopped' => ~mListening' BY <1>1, <1>3, <2>1
  <2>4. ~mStopped' => (mListening' <=> DOMAIN groups' # {})
    <3>1. DOMAIN groups' \subseteq DOMAIN groups BY DEF Shrinks
    <3>. QED BY <1>1, <1>3, <2>1, <3>1
  <2>5. (\A s \in DOMAIN groups : HasSubscriptions(groups[s]))' BY <2>2 DEF HasSubscriptions
  <2>. QED BY <1>7, <2>3, <2>4, <2>5 DEF Listening
<1>9. Answering'
  <2>1. ASSUME NEW c \in Connection, (InStrand("named", Of(c)))'
        PROVE  phase'[c] = "named" /\ (OnceInStrand("named", Of(c)))'
    <3>1. InStrand("named", Of(c)) BY <2>1 DEF SameFlow, FlowTags
    <3>2. phase[c] = "named" /\ OnceInStrand("named", Of(c)) BY <1>1, <3>1 DEF Answering
    <3>. QED BY <1>1, <3>2 DEF SameFlow, FlowTags
  <2>2. ASSUME NEW c \in Connection, (InStrand("erase", Of(c)))'
        PROVE  phase'[c] = "failed" /\ (OnceInStrand("erase", Of(c)))'
    <3>1. InStrand("erase", Of(c)) BY <2>2 DEF SameFlow, FlowTags
    <3>2. phase[c] = "failed" /\ OnceInStrand("erase", Of(c)) BY <1>1, <3>1 DEF Answering
    <3>. QED BY <1>1, <3>2 DEF SameFlow, FlowTags
  <2>. QED BY <1>2, <2>1, <2>2 DEF Answering
<1>10. Erasing'
  BY <1>1, <1>2, <1>3, <1>6 DEF Erasing, NoPending
<1>. QED BY <1>4, <1>8, <1>9, <1>10 DEF FlowInv

LEMMA SameHandler ==
  ASSUME NEW tag, NEW x
  PROVE  \A t, y : Handler(t, y) = Handler(tag, x) <=> t = tag /\ y = x
BY HandlersDiffer

(* The same of handlers that are given by what they do and to whom.         *)
Ahead(t, y, u, z) == Before(strand, Handler(t, y), Handler(u, z))

LEMMA RanOne ==
  ASSUME strand \in Seq(Handlers), NEW tag, NEW x, Runs(Handler(tag, x)), Finish, work' = work
  PROVE  /\ strand' \in Seq(Handlers') /\ Running /\ InStrand(tag, x)
         /\ \A t, y : (InStrand(t, y))' => InStrand(t, y)
         /\ \A t, y : InStrand(t, y) /\ ~(t = tag /\ y = x) => (InStrand(t, y))'
         /\ \A t, y : OnceInStrand(t, y) => (OnceInStrand(t, y))'
         /\ OnceInStrand(tag, x) => ~(InStrand(tag, x))'
         /\ \A t, y, u, z : Ahead(t, y, u, z) => (Ahead(t, y, u, z))'
<1>. DEFINE h == Handler(tag, x)
<1>1. \A t, y : Handler(t, y) = h <=> t = tag /\ y = x BY SameHandler
<1>2. Runs(h) OBVIOUS
<1>3. InStrand(tag, x) = Has(strand, h) /\ OnceInStrand(tag, x) = Once(strand, h)
      /\ (InStrand(tag, x))' = Has(strand', h)
  BY DEF InStrand, OnceInStrand
<1>. HIDE DEF h
<1>4. /\ strand' \in Seq(Handlers') /\ Has(strand, h) /\ Running
      /\ \A g : Has(strand', g) => Has(strand, g)
      /\ \A g : g # h /\ Has(strand, g) => Has(strand', g)
      /\ \A g : Once(strand, g) => Once(strand', g)
      /\ Once(strand, h) => ~Has(strand', h)
      /\ \A g, u : Before(strand, g, u) => Before(strand', g, u)
  BY <1>2, Ran
<1>5. \A t, y : (InStrand(t, y))' => InStrand(t, y) BY <1>4 DEF InStrand
<1>6. ASSUME NEW t, NEW y, InStrand(t, y), ~(t = tag /\ y = x) PROVE (InStrand(t, y))'
  BY <1>1, <1>4, <1>6 DEF InStrand
<1>7. \A t, y : OnceInStrand(t, y) => (OnceInStrand(t, y))' BY <1>4 DEF OnceInStrand
<1>8. \A t, y, u, z : Ahead(t, y, u, z) => (Ahead(t, y, u, z))' BY <1>4 DEF Ahead
<1>. QED BY <1>3, <1>4, <1>5, <1>6, <1>7, <1>8

LEMMA PostedOne ==
  ASSUME strand \in Seq(Handlers), NEW tag \in Tags, NEW x \in Things,
         Post(<<Handler(tag, x)>>), work' = work
  PROVE  /\ strand' \in Seq(Handlers')
         /\ \A t, y : (InStrand(t, y))' <=> InStrand(t, y) \/ (t = tag /\ y = x)
         /\ \A t, y : OnceInStrand(t, y) /\ ~(t = tag /\ y = x) => (OnceInStrand(t, y))'
         /\ ~InStrand(tag, x) => (OnceInStrand(tag, x))'
         /\ \A t, y, u, z : Ahead(t, y, u, z) /\ ~(t = tag /\ y = x) => (Ahead(t, y, u, z))'
         /\ \A u, z : ~InStrand(u, z) /\ u # tag => (Ahead(tag, x, u, z))'
<1>. DEFINE h == Handler(tag, x)
<1>1. \A t, y : Handler(t, y) = h <=> t = tag /\ y = x BY SameHandler
<1>2. Post(<<h>>) OBVIOUS
<1>3. h \in Handlers BY DEF Handlers
<1>4. InStrand(tag, x) = Has(strand, h) /\ (OnceInStrand(tag, x))' = Once(strand', h)
      /\ \A u, z : (Ahead(tag, x, u, z))' = Before(strand', h, Handler(u, z))
  BY DEF InStrand, OnceInStrand, Ahead
<1>. HIDE DEF h
<1>5. /\ strand' \in Seq(Handlers')
      /\ \A g : Has(strand', g) <=> Has(strand, g) \/ g = h
      /\ \A g : Once(strand, g) /\ (g = h => ~Has(strand, g)) => Once(strand', g)
      /\ \A g, u : Before(strand, g, u) /\ (g = h => ~Has(strand, u) /\ u # h) => Before(strand', g, u)
  BY <1>2, <1>3, Posting
<1>6. \A t, y : (InStrand(t, y))' <=> InStrand(t, y) \/ (t = tag /\ y = x) BY <1>1, <1>5 DEF InStrand
<1>7. ASSUME NEW t, NEW y, OnceInStrand(t, y), ~(t = tag /\ y = x) PROVE (OnceInStrand(t, y))'
  BY <1>1, <1>5, <1>7 DEF OnceInStrand
<1>8. ~Has(strand, h) => Once(strand', h)
  <2>1. ~Has(strand, h) => Once(strand, h) BY DEF Has, Once
  <2>. QED BY <1>5, <2>1
<1>9. ASSUME NEW t, NEW y, NEW u, NEW z, Ahead(t, y, u, z), ~(t = tag /\ y = x) PROVE (Ahead(t, y, u, z))'
  BY <1>1, <1>5, <1>9 DEF Ahead
<1>10. ASSUME NEW u, NEW z, ~InStrand(u, z), u # tag PROVE (Ahead(tag, x, u, z))'
  <2>1. Handler(u, z) # h /\ ~Has(strand, Handler(u, z)) BY <1>1, <1>10 DEF InStrand
  <2>2. Before(strand, h, Handler(u, z)) BY <2>1 DEF Before, Has
  <2>. QED BY <1>4, <1>5, <2>1, <2>2
<1>. QED BY <1>4, <1>5, <1>6, <1>7, <1>8, <1>9, <1>10

LEMMA ThingsAre ==
  /\ None \in Things
  /\ \A c \in Connection : Of(c) \in Things
  /\ \A ch \in Channel : ch \in Things
  /\ \A s \in Used : s \in Things
BY Zenon DEF Things

LEMMA NotYet ==
  \A t, y : ~InStrand(t, y) => OnceInStrand(t, y)
BY DEF InStrand, OnceInStrand, Has, Once

-----------------------------------------------------------------------------
(* The invariant, step by step: accepts and handshakes.                     *)

LEMMA FlowNet ==
  ASSUME FlowInv, FlowTyped', Answering', Erasing', UNCHANGED <<mStopped, mListening, groups>>,
         mListening => AnAccept'
  PROVE  FlowInv'
<1>1. Listening' BY DEF FlowInv, Listening, HasSubscriptions
<1>. QED BY <1>1 DEF FlowInv

LEMMA AnsweringKept ==
  ASSUME Answering, work' = work,
         \A d \in Connection, t \in {"named", "erase"} :
           /\ (InStrand(t, Of(d)))' => InStrand(t, Of(d)) /\ phase'[d] = phase[d]
           /\ OnceInStrand(t, Of(d)) => (OnceInStrand(t, Of(d)))'
  PROVE  Answering'
<1>1. Connection' = Connection BY SameWork
<1>2. ASSUME NEW d \in Connection
      PROVE  /\ (InStrand("named", Of(d)))' => phase'[d] = "named" /\ (OnceInStrand("named", Of(d)))'
             /\ (InStrand("erase", Of(d)))' => phase'[d] = "failed" /\ (OnceInStrand("erase", Of(d)))'
  <2>1. /\ InStrand("named", Of(d)) => phase[d] = "named" /\ OnceInStrand("named", Of(d))
        /\ InStrand("erase", Of(d)) => phase[d] = "failed" /\ OnceInStrand("erase", Of(d))
    BY DEF Answering
  <2>. QED BY <2>1
<1>. QED BY <1>1, <1>2 DEF Answering

LEMMA FlowStart ==
  ASSUME FlowInv, HandleStart
  PROVE  FlowInv'
<1>1. /\ Runs(Handler("start", None)) /\ Finish
      /\ accepting' = IF mListening THEN accepting + 1 ELSE accepting
      /\ work' = work /\ mListening' = mListening /\ aborted' = aborted /\ phase' = phase
      /\ groups' = groups /\ mStopped' = mStopped /\ pendingSocketsEmpty' = pendingSocketsEmpty
  BY DEF HandleStart, bookVars, stopVars, Handler
<1>2. FlowTyped /\ Listening /\ Answering /\ Erasing /\ strand \in Seq(Handlers) BY DEF FlowInv, FlowTyped
<1>3. Connection' = Connection /\ Handlers' = Handlers /\ Phases' = Phases BY <1>1, SamePhases
<1>4. /\ strand' \in Seq(Handlers')
      /\ \A t, y : (InStrand(t, y))' => InStrand(t, y)
      /\ \A t, y : OnceInStrand(t, y) => (OnceInStrand(t, y))'
  BY <1>1, <1>2, RanOne
<1>5. accepting' \in Nat /\ (mListening => accepting' + aborted' > 0) BY <1>1, <1>2 DEF FlowTyped
<1>6. FlowTyped' BY <1>1, <1>2, <1>3, <1>4, <1>5 DEF FlowTyped
<1>7. Answering' BY <1>1, <1>2, <1>4, AnsweringKept
<1>8. Erasing'
  BY <1>1, <1>2, <1>3, <1>4 DEF Erasing, NoPending, Listening
<1>. QED BY <1>1, <1>5, <1>6, <1>7, <1>8, FlowNet DEF AnAccept

LEMMA FlowAborted ==
  ASSUME FlowInv, AcceptAborted
  PROVE  FlowInv'
<1>. DEFINE h == Handler("start", None)
            i == Handler("erase", None)
<1>1. /\ Post(<<h, i>>) /\ aborted > 0 /\ aborted' = aborted - 1
      /\ work' = work /\ mListening' = mListening /\ accepting' = accepting /\ phase' = phase
      /\ groups' = groups /\ mStopped' = mStopped /\ pendingSocketsEmpty' = pendingSocketsEmpty
  BY DEF AcceptAborted, netUnchanged, bookVars, stopVars, Handler
<1>2. FlowTyped /\ Listening /\ Answering /\ Erasing /\ strand \in Seq(Handlers) BY DEF FlowInv, FlowTyped
<1>3. Connection' = Connection /\ Handlers' = Handlers /\ Phases' = Phases BY <1>1, SamePhases
<1>4. /\ h \in Handlers /\ i \in Handlers
      /\ \A c : Handler("named", Of(c)) # h /\ Handler("named", Of(c)) # i
                /\ Handler("erase", Of(c)) # h /\ Handler("erase", Of(c)) # i
  <2>1. None \in Things /\ "start" \in Tags /\ "erase" \in Tags BY ThingsAre DEF Tags
  <2>2. h \in Handlers /\ i \in Handlers BY <2>1 DEF Handlers
  <2>3. ASSUME NEW c
        PROVE  /\ Handler("named", Of(c)) # h /\ Handler("named", Of(c)) # i
               /\ Handler("erase", Of(c)) # h /\ Handler("erase", Of(c)) # i
    BY HandlersDiffer
  <2>. QED BY <2>2, <2>3
<1>5. (InStrand("start", None))' = Has(strand', h) BY DEF InStrand
<1>. HIDE DEF h, i
<1>6. /\ strand' \in Seq(Handlers')
      /\ \A g : Has(strand', g) <=> Has(strand, g) \/ g = h \/ g = i
      /\ \A g : Once(strand, g) /\ g # h /\ g # i => Once(strand', g)
  BY <1>1, <1>2, <1>4, PostingTwo
<1>7. aborted' \in Nat BY <1>1, <1>2 DEF FlowTyped
<1>8. FlowTyped' BY <1>1, <1>2, <1>3, <1>6, <1>7 DEF FlowTyped
<1>9. ASSUME NEW d \in Connection, NEW t \in {"named", "erase"}
      PROVE  /\ (InStrand(t, Of(d)))' => InStrand(t, Of(d)) /\ phase'[d] = phase[d]
             /\ OnceInStrand(t, Of(d)) => (OnceInStrand(t, Of(d)))'
  BY <1>1, <1>4, <1>6 DEF InStrand, OnceInStrand
<1>10. Answering' BY <1>1, <1>2, <1>9, AnsweringKept
<1>11. AnAccept' BY <1>5, <1>6 DEF AnAccept
<1>12. Erasing'
  <2>1. ~(mStopped /\ pendingSocketsEmpty) BY <1>1, <1>2 DEF Erasing, NoPending
  <2>. QED BY <1>1, <2>1 DEF Erasing
<1>. QED BY <1>1, <1>8, <1>10, <1>11, <1>12, FlowNet

LEMMA FlowConnect ==
  ASSUME FlowInv, NEW c \in Connection, Connect(c)
  PROVE  FlowInv'
<1>1. /\ phase[c] = "unknown" /\ accepting > 0 /\ accepting' = accepting - 1
      /\ phase' = [phase EXCEPT ![c] = "taken"]
      /\ work' = work /\ mListening' = mListening /\ aborted' = aborted /\ strand' = strand
      /\ groups' = groups /\ mStopped' = mStopped /\ pendingSocketsEmpty' = pendingSocketsEmpty
  BY DEF Connect, netUnchanged, bookVars, stopVars
<1>2. FlowTyped /\ Listening /\ Answering /\ Erasing BY DEF FlowInv
<1>3. Connection' = Connection /\ Handlers' = Handlers /\ Phases' = Phases BY <1>1, SamePhases
<1>4. accepting' \in Nat /\ phase \in [Connection -> Phases] BY <1>1, <1>2 DEF FlowTyped
<1>5. /\ phase' \in [Connection -> Phases] /\ phase'[c] = "taken"
      /\ \A d \in Connection : d # c => phase'[d] = phase[d]
  BY <1>1, <1>4 DEF Phases
<1>6. FlowTyped' BY <1>1, <1>2, <1>3, <1>4, <1>5 DEF FlowTyped
<1>7. Answering'
  <2>1. ~InStrand("named", Of(c)) /\ ~InStrand("erase", Of(c)) BY <1>1, <1>2 DEF Answering
  <2>2. ASSUME NEW d \in Connection, NEW t \in {"named", "erase"}
        PROVE  /\ (InStrand(t, Of(d)))' => InStrand(t, Of(d)) /\ phase'[d] = phase[d]
               /\ OnceInStrand(t, Of(d)) => (OnceInStrand(t, Of(d)))'
    <3>1. (InStrand(t, Of(d)))' = InStrand(t, Of(d)) /\ (OnceInStrand(t, Of(d)))' = OnceInStrand(t, Of(d))
      BY <1>1 DEF InStrand, OnceInStrand
    <3>2. d # c \/ ~InStrand(t, Of(d)) BY <2>1
    <3>. QED BY <1>5, <3>1, <3>2
  <2>. QED BY <1>1, <1>2, <2>2, AnsweringKept
<1>8. Erasing'
  <2>1. ~(mStopped /\ pendingSocketsEmpty) BY <1>1, <1>2 DEF Erasing, NoPending
  <2>. QED BY <1>1, <2>1 DEF Erasing
<1>9. AnAccept' BY <1>3, <1>5 DEF AnAccept
<1>. QED BY <1>1, <1>6, <1>7, <1>8, <1>9, FlowNet

(* A connection goes on in its handshake and perhaps posts a handler.       *)
LEMMA FlowHandshake ==
  ASSUME FlowInv, work' = work, NEW c \in Connection, NEW p \in Handshake,
         phase[c] \in Handshake \ {"named", "failed"},
         phase' = [phase EXCEPT ![c] = p],
         UNCHANGED <<mStopped, mListening, groups, accepting, aborted, pendingSocketsEmpty>>,
         strand' \in Seq(Handlers'),
         phase[c] = "taken" => (InStrand("start", None))',
         InStrand("start", None) => (InStrand("start", None))',
         (InStrand("erase", None))' => InStrand("erase", None),
         \A d \in Connection, t \in {"named", "erase"} :
           /\ d # c /\ (InStrand(t, Of(d)))' => InStrand(t, Of(d))
           /\ d # c /\ OnceInStrand(t, Of(d)) => (OnceInStrand(t, Of(d)))',
         /\ (InStrand("named", Of(c)))' => p = "named" /\ (OnceInStrand("named", Of(c)))'
         /\ (InStrand("erase", Of(c)))' => p = "failed" /\ (OnceInStrand("erase", Of(c)))'
  PROVE  FlowInv'
<1>1. /\ mListening' = mListening /\ aborted' = aborted /\ accepting' = accepting
      /\ groups' = groups /\ mStopped' = mStopped /\ pendingSocketsEmpty' = pendingSocketsEmpty
  OBVIOUS
<1>2. FlowTyped /\ Listening /\ Answering /\ Erasing BY DEF FlowInv
<1>3. Connection' = Connection /\ Handlers' = Handlers /\ Phases' = Phases BY <1>1, SamePhases
<1>4. phase \in [Connection -> Phases] /\ p \in Phases BY <1>2 DEF FlowTyped, Handshake, Phases
<1>5. /\ phase' \in [Connection -> Phases] /\ phase'[c] = p
      /\ \A d \in Connection : d # c => phase'[d] = phase[d]
  BY <1>4
<1>6. FlowTyped' BY <1>1, <1>2, <1>3, <1>4, <1>5 DEF FlowTyped
<1>7. Answering'
  <2>1. ASSUME NEW d \in Connection
        PROVE  /\ (InStrand("named", Of(d)))' => phase'[d] = "named" /\ (OnceInStrand("named", Of(d)))'
               /\ (InStrand("erase", Of(d)))' => phase'[d] = "failed" /\ (OnceInStrand("erase", Of(d)))'
    <3>1. CASE d = c BY <1>5, <3>1
    <3>2. CASE d # c
      <4>1. /\ InStrand("named", Of(d)) => phase[d] = "named" /\ OnceInStrand("named", Of(d))
            /\ InStrand("erase", Of(d)) => phase[d] = "failed" /\ OnceInStrand("erase", Of(d))
        BY <1>2 DEF Answering
      <4>. QED BY <1>5, <3>2, <4>1
    <3>. QED BY <3>1, <3>2
  <2>. QED BY <1>3, <2>1 DEF Answering
<1>8. Erasing'
  <2>1. ~(mStopped /\ pendingSocketsEmpty) BY <1>1, <1>2 DEF Erasing, NoPending
  <2>. QED BY <1>1, <2>1 DEF Erasing
<1>9. mListening => AnAccept'
  <2>1. ASSUME mListening PROVE AnAccept'
    <3>1. AnAccept BY <1>2, <2>1 DEF Listening
    <3>2. CASE accepting + aborted > 0 BY <1>1, <3>2 DEF AnAccept
    <3>3. CASE InStrand("start", None) BY <3>3 DEF AnAccept
    <3>4. ASSUME NEW d \in Connection, phase[d] = "taken" PROVE AnAccept'
      <4>1. CASE d = c BY <3>4, <4>1 DEF AnAccept
      <4>2. CASE d # c BY <1>3, <1>5, <3>4, <4>2 DEF AnAccept
      <4>. QED BY <4>1, <4>2
    <3>. QED BY <3>1, <3>2, <3>3, <3>4 DEF AnAccept
  <2>. QED BY <2>1
<1>. QED BY <1>1, <1>6, <1>7, <1>8, <1>9, FlowNet

LEMMA FlowAccepted ==
  ASSUME FlowInv, NEW c \in Connection, Accepted(c)
  PROVE  FlowInv'
<1>. DEFINE p == "accepted"
            x == None
<1>1. /\ phase[c] = "taken" /\ phase' = [phase EXCEPT ![c] = p]
      /\ Post(<<Handler("start", x)>>)
      /\ work' = work
      /\ UNCHANGED <<mStopped, mListening, groups, accepting, aborted, pendingSocketsEmpty>>
  BY DEF Accepted, netUnchanged, bookVars, stopVars, Handler
<1>2. FlowTyped /\ Answering /\ strand \in Seq(Handlers) BY DEF FlowInv, FlowTyped
<1>3. x \in Things /\ \A d : Of(d) # x BY ThingsAre, HandlersDiffer
<1>4. p \in Handshake /\ "taken" \in Handshake \ {"named", "failed"} BY DEF Handshake
<1>5. ~InStrand("named", Of(c)) /\ ~InStrand("erase", Of(c)) BY <1>1, <1>2 DEF Answering
<1>6. x = None OBVIOUS
<1>. HIDE DEF p, x
<1>7. /\ strand' \in Seq(Handlers')
      /\ \A t, y : (InStrand(t, y))' <=> InStrand(t, y) \/ (t = "start" /\ y = x)
      /\ \A t, y : OnceInStrand(t, y) /\ ~(t = "start" /\ y = x) => (OnceInStrand(t, y))'
  BY <1>1, <1>2, <1>3, PostedOne DEF Tags
<1>8. (InStrand("start", None))' /\ ((InStrand("erase", None))' => InStrand("erase", None)) BY <1>6, <1>7
<1>9. ASSUME NEW d \in Connection, NEW t \in {"named", "erase"}
      PROVE  /\ (InStrand(t, Of(d)))' => InStrand(t, Of(d))
             /\ OnceInStrand(t, Of(d)) => (OnceInStrand(t, Of(d)))'
  BY <1>3, <1>7
<1>10. ~(InStrand("named", Of(c)))' /\ ~(InStrand("erase", Of(c)))' BY <1>5, <1>9
<1>. QED BY <1>1, <1>4, <1>7, <1>8, <1>9, <1>10, FlowHandshake

LEMMA FlowAskName ==
  ASSUME FlowInv, NEW c \in Connection, AskName(c)
  PROVE  FlowInv'
<1>. DEFINE p == "header"
<1>1. /\ phase[c] = "accepted" /\ phase' = [phase EXCEPT ![c] = p]
      /\ work' = work /\ strand' = strand
      /\ UNCHANGED <<mStopped, mListening, groups, accepting, aborted, pendingSocketsEmpty>>
  BY DEF AskName, netUnchanged, bookVars, stopVars
<1>2. FlowTyped /\ Answering /\ strand \in Seq(Handlers) BY DEF FlowInv, FlowTyped
<1>3. p \in Handshake /\ "accepted" \in Handshake \ {"named", "failed"} BY DEF Handshake
<1>4. ~InStrand("named", Of(c)) /\ ~InStrand("erase", Of(c)) BY <1>1, <1>2 DEF Answering
<1>. HIDE DEF p
<1>5. strand' \in Seq(Handlers') BY <1>1, <1>2, SamePhases
<1>6. \A t, y : (InStrand(t, y))' = InStrand(t, y) /\ (OnceInStrand(t, y))' = OnceInStrand(t, y)
  BY <1>1 DEF InStrand, OnceInStrand
<1>. QED BY <1>1, <1>3, <1>4, <1>5, <1>6, FlowHandshake

LEMMA FlowNameArrives ==
  ASSUME FlowInv, NEW c \in Connection, NameArrives(c)
  PROVE  FlowInv'
<1>. DEFINE p == "named"
            x == Of(c)
<1>1. /\ phase[c] = "header" /\ phase' = [phase EXCEPT ![c] = p]
      /\ Post(<<Handler("named", x)>>)
      /\ work' = work
      /\ UNCHANGED <<mStopped, mListening, groups, accepting, aborted, pendingSocketsEmpty>>
  BY DEF NameArrives, netUnchanged, bookVars, stopVars, Handler, Of
<1>2. FlowTyped /\ Answering /\ strand \in Seq(Handlers) BY DEF FlowInv, FlowTyped
<1>3. x \in Things /\ (\A d : d # c => Of(d) # x) /\ x = Of(c) BY ThingsAre, HandlersDiffer
<1>4. p \in Handshake /\ "header" \in Handshake \ {"named", "failed"} BY DEF Handshake
<1>5. ~InStrand("named", x) /\ ~InStrand("erase", x) BY <1>1, <1>2 DEF Answering
<1>6. p = "named" OBVIOUS
<1>. HIDE DEF p, x
<1>7. /\ strand' \in Seq(Handlers')
      /\ \A t, y : (InStrand(t, y))' <=> InStrand(t, y) \/ (t = "named" /\ y = x)
      /\ \A t, y : OnceInStrand(t, y) /\ ~(t = "named" /\ y = x) => (OnceInStrand(t, y))'
      /\ ~InStrand("named", x) => (OnceInStrand("named", x))'
  BY <1>1, <1>2, <1>3, PostedOne DEF Tags
<1>8. /\ InStrand("start", None) => (InStrand("start", None))'
      /\ (InStrand("erase", None))' => InStrand("erase", None)
  BY <1>7
<1>9. ASSUME NEW d \in Connection, NEW t \in {"named", "erase"}, d # c
      PROVE  /\ (InStrand(t, Of(d)))' => InStrand(t, Of(d))
             /\ OnceInStrand(t, Of(d)) => (OnceInStrand(t, Of(d)))'
  BY <1>3, <1>7, <1>9
<1>10. (OnceInStrand("named", Of(c)))' /\ ~(InStrand("erase", Of(c)))' BY <1>3, <1>5, <1>7
<1>11. /\ (InStrand("named", Of(c)))' => p = "named" /\ (OnceInStrand("named", Of(c)))'
       /\ (InStrand("erase", Of(c)))' => p = "failed" /\ (OnceInStrand("erase", Of(c)))'
       /\ phase[c] \in Handshake \ {"named", "failed"} /\ phase[c] # "taken"
  BY <1>1, <1>4, <1>6, <1>10
<1>. QED BY <1>1, <1>4, <1>7, <1>8, <1>9, <1>11, FlowHandshake, ZenonT(30)

LEMMA FlowNameFails ==
  ASSUME FlowInv, NEW c \in Connection, NameFails(c)
  PROVE  FlowInv'
<1>. DEFINE p == "failed"
            x == Of(c)
<1>1. /\ phase[c] = "header" /\ phase' = [phase EXCEPT ![c] = p]
      /\ Post(<<Handler("erase", x)>>)
      /\ work' = work
      /\ UNCHANGED <<mStopped, mListening, groups, accepting, aborted, pendingSocketsEmpty>>
  BY DEF NameFails, netUnchanged, bookVars, stopVars, Handler, Of
<1>2. FlowTyped /\ Answering /\ strand \in Seq(Handlers) BY DEF FlowInv, FlowTyped
<1>3. x \in Things /\ (\A d : d # c => Of(d) # x) /\ x = Of(c) /\ x # None BY ThingsAre, HandlersDiffer
<1>4. p \in Handshake /\ "header" \in Handshake \ {"named", "failed"} BY DEF Handshake
<1>5. ~InStrand("named", x) /\ ~InStrand("erase", x) BY <1>1, <1>2 DEF Answering
<1>6. p = "failed" OBVIOUS
<1>. HIDE DEF p, x
<1>7. /\ strand' \in Seq(Handlers')
      /\ \A t, y : (InStrand(t, y))' <=> InStrand(t, y) \/ (t = "erase" /\ y = x)
      /\ \A t, y : OnceInStrand(t, y) /\ ~(t = "erase" /\ y = x) => (OnceInStrand(t, y))'
      /\ ~InStrand("erase", x) => (OnceInStrand("erase", x))'
  BY <1>1, <1>2, <1>3, PostedOne DEF Tags
<1>8. /\ InStrand("start", None) => (InStrand("start", None))'
      /\ (InStrand("erase", None))' => InStrand("erase", None)
  BY <1>3, <1>7
<1>9. ASSUME NEW d \in Connection, NEW t \in {"named", "erase"}, d # c
      PROVE  /\ (InStrand(t, Of(d)))' => InStrand(t, Of(d))
             /\ OnceInStrand(t, Of(d)) => (OnceInStrand(t, Of(d)))'
  BY <1>3, <1>7, <1>9
<1>10. (OnceInStrand("erase", Of(c)))' /\ ~(InStrand("named", Of(c)))' BY <1>3, <1>5, <1>7
<1>11. /\ (InStrand("named", Of(c)))' => p = "named" /\ (OnceInStrand("named", Of(c)))'
       /\ (InStrand("erase", Of(c)))' => p = "failed" /\ (OnceInStrand("erase", Of(c)))'
       /\ phase[c] \in Handshake \ {"named", "failed"} /\ phase[c] # "taken"
  BY <1>1, <1>4, <1>6, <1>10
<1>. QED BY <1>1, <1>4, <1>7, <1>8, <1>9, <1>11, FlowHandshake

LEMMA FlowEraseNone ==
  ASSUME FlowInv, HandleErase(None)
  PROVE  FlowInv'
<1>1. /\ Runs(Handler("erase", None)) /\ Finish /\ Erase
      /\ work' = work /\ mListening' = mListening /\ aborted' = aborted /\ phase' = phase
      /\ groups' = groups /\ mStopped' = mStopped /\ accepting' = accepting
  BY DEF HandleErase, bookVars, netVars, Handler
<1>2. FlowTyped /\ Listening /\ Answering /\ Erasing /\ strand \in Seq(Handlers) BY DEF FlowInv, FlowTyped
<1>3. Connection' = Connection /\ Handlers' = Handlers /\ Phases' = Phases BY <1>1, SamePhases
<1>4. /\ strand' \in Seq(Handlers') /\ InStrand("erase", None)
      /\ \A t, y : (InStrand(t, y))' => InStrand(t, y)
      /\ \A t, y : InStrand(t, y) /\ ~(t = "erase" /\ y = None) => (InStrand(t, y))'
      /\ \A t, y : OnceInStrand(t, y) => (OnceInStrand(t, y))'
      /\ OnceInStrand("erase", None) => ~(InStrand("erase", None))'
  BY <1>1, <1>2, RanOne
<1>5. pendingSocketsEmpty' \in BOOLEAN BY <1>2, <1>1 DEF Erase, LastErased, FlowTyped
<1>6. FlowTyped' BY <1>1, <1>2, <1>3, <1>4, <1>5 DEF FlowTyped
<1>7. Answering' BY <1>1, <1>2, <1>4, AnsweringKept
<1>8. mListening => AnAccept'
  <2>1. (InStrand("start", None))' <=> InStrand("start", None) BY <1>4
  <2>. QED BY <1>1, <1>2, <1>3, <2>1 DEF AnAccept, Listening
<1>9. Erasing'
  <2>1. SUFFICES ASSUME mStopped', pendingSocketsEmpty' PROVE NoPending' BY DEF Erasing
  <2>2. PendingSockets = 1
    <3>1. ~(mStopped /\ pendingSocketsEmpty) BY <1>2, <1>4 DEF Erasing, NoPending
    <3>. QED BY <1>1, <2>1, <3>1 DEF Erase, LastErased
  <2>3. /\ accepting = 0 /\ aborted = 0 /\ OnceInStrand("erase", None)
        /\ \A d \in Connection : phase[d] \notin Handshake
    BY <1>2, <1>4, <2>2, Pending
  <2>. QED BY <1>1, <1>3, <1>4, <2>3 DEF NoPending
<1>. QED BY <1>1, <1>6, <1>7, <1>8, <1>9, FlowNet

(* A handshake is over, and its pending socket goes.                        *)
LEMMA FlowEnd ==
  ASSUME FlowInv, work' = work, NEW c \in Connection, NEW tag \in {"named", "erase"},
         Runs(Handler(tag, Of(c))), Finish, phase' = [phase EXCEPT ![c] = "gone"],
         Erase, Shrinks, mStopped' = mStopped
  PROVE  FlowInv'
<1>1. FlowTyped /\ Listening /\ Answering /\ Erasing /\ strand \in Seq(Handlers) BY DEF FlowInv, FlowTyped
<1>2. Connection' = Connection /\ Handlers' = Handlers /\ Phases' = Phases BY SamePhases
<1>. DEFINE x == Of(c)
<1>3. x = Of(c) /\ (\A d : d # c => Of(d) # x) /\ x # None BY HandlersDiffer
<1>4. Runs(Handler(tag, x)) OBVIOUS
<1>. HIDE DEF x
<1>5. /\ strand' \in Seq(Handlers') /\ InStrand(tag, x)
      /\ \A t, y : (InStrand(t, y))' => InStrand(t, y)
      /\ \A t, y : InStrand(t, y) /\ ~(t = tag /\ y = x) => (InStrand(t, y))'
      /\ \A t, y : OnceInStrand(t, y) => (OnceInStrand(t, y))'
      /\ OnceInStrand(tag, x) => ~(InStrand(tag, x))'
  BY <1>1, <1>4, RanOne
<1>6. OnceInStrand(tag, x) /\ phase[c] \in {"named", "failed"}
      /\ \A t \in {"named", "erase"} : InStrand(t, x) => t = tag
  BY <1>1, <1>3, <1>5 DEF Answering
<1>7. phase \in [Connection -> Phases] BY <1>1 DEF FlowTyped
<1>8. /\ phase' \in [Connection -> Phases] /\ phase'[c] = "gone"
      /\ \A d \in Connection : d # c => phase'[d] = phase[d]
  BY <1>7 DEF Phases
<1>9. \/ accepting' = accepting /\ aborted' = aborted /\ mListening' = mListening
           /\ (mListening => DOMAIN groups' # {})
      \/ DOMAIN groups' = {} /\ mListening' = FALSE /\ accepting' = 0 /\ aborted' = aborted + accepting
  BY DEF Shrinks, netVars, CloseHandle
<1>10. accepting \in Nat /\ aborted \in Nat /\ mListening \in BOOLEAN /\ pendingSocketsEmpty \in BOOLEAN
  BY <1>1 DEF FlowTyped
<1>11. FlowTyped'
  <2>1. accepting' \in Nat /\ aborted' \in Nat /\ mListening' \in BOOLEAN
    <3>1. CASE accepting' = accepting /\ aborted' = aborted /\ mListening' = mListening
      BY <1>10, <3>1
    <3>2. CASE mListening' = FALSE /\ accepting' = 0 /\ aborted' = aborted + accepting
      <4>1. accepting' \in Nat /\ aborted' \in Nat BY <1>10, <3>2
      <4>2. mListening' \in BOOLEAN BY <3>2
      <4>. QED BY <4>1, <4>2
    <3>. QED BY <1>9, <3>1, <3>2
  <2>2. pendingSocketsEmpty' \in BOOLEAN BY <1>10 DEF Erase, LastErased
  <2>3. groups' = [s \in DOMAIN groups' |-> groups'[s]] BY DEF Shrinks
  <2>. QED BY <1>1, <1>2, <1>5, <1>8, <2>1, <2>2, <2>3 DEF FlowTyped
<1>12. Answering'
  <2>1. ASSUME NEW d \in Connection, NEW t \in {"named", "erase"}
        PROVE  /\ (InStrand(t, Of(d)))' => InStrand(t, Of(d)) /\ phase'[d] = phase[d]
               /\ OnceInStrand(t, Of(d)) => (OnceInStrand(t, Of(d)))'
    <3>1. CASE d = c
      <4>1. ~(InStrand(t, x))' BY <1>5, <1>6
      <4>. QED BY <1>3, <1>5, <3>1, <4>1
    <3>2. CASE d # c BY <1>5, <1>8, <3>2
    <3>. QED BY <3>1, <3>2
  <2>. QED BY <1>1, <2>1, AnsweringKept
<1>13. Listening'
  <2>1. (\A s \in DOMAIN groups : HasSubscriptions(groups[s]))' BY DEF Shrinks, HasSubscriptions
  <2>2. /\ mStopped => ~mListening
        /\ ~mStopped => (mListening <=> DOMAIN groups # {})
        /\ mListening => AnAccept
        /\ DOMAIN groups' \subseteq DOMAIN groups
    BY <1>1 DEF Listening, Shrinks
  <2>3. CASE accepting' = accepting /\ aborted' = aborted /\ mListening' = mListening
               /\ (mListening => DOMAIN groups' # {})
    <3>1. AnAccept => AnAccept'
      <4>1. InStrand("start", None) => (InStrand("start", None))' BY <1>5
      <4>2. ASSUME NEW d \in Connection, phase[d] = "taken" PROVE phase'[d] = "taken"
        BY <1>6, <1>8, <4>2
      <4>. QED BY <1>2, <2>3, <4>1, <4>2 DEF AnAccept
    <3>2. mStopped' => ~mListening' BY <2>2, <2>3
    <3>3. ~mStopped' => (mListening' <=> DOMAIN groups' # {}) BY <2>2, <2>3
    <3>4. mListening' => AnAccept' BY <2>2, <2>3, <3>1
    <3>. QED BY <2>1, <3>2, <3>3, <3>4 DEF Listening
  <2>4. CASE DOMAIN groups' = {} /\ mListening' = FALSE BY <2>1, <2>4 DEF Listening
  <2>. QED BY <1>9, <2>3, <2>4
<1>14. Erasing'
  <2>1. SUFFICES ASSUME mStopped', pendingSocketsEmpty' PROVE NoPending' BY DEF Erasing
  <2>2. phase[c] \in Handshake BY <1>6 DEF Handshake
  <2>3. PendingSockets = 1
    <3>1. ~(mStopped /\ pendingSocketsEmpty) BY <1>1, <2>2 DEF Erasing, NoPending
    <3>. QED BY <2>1, <3>1 DEF Erase, LastErased
  <2>4. /\ accepting = 0 /\ aborted = 0 /\ ~InStrand("erase", None)
        /\ \A d \in Connection : phase[d] \in Handshake => d = c
    BY <1>1, <2>2, <2>3, Pending
  <2>5. accepting' = 0 /\ aborted' = 0
    <3>1. CASE accepting' = accepting /\ aborted' = aborted BY <2>4, <3>1
    <3>2. CASE accepting' = 0 /\ aborted' = aborted + accepting BY <2>4, <3>2
    <3>. QED BY <1>9, <3>1, <3>2
  <2>6. \A d \in Connection : phase'[d] \notin Handshake BY <1>8, <2>4 DEF Handshake
  <2>. QED BY <1>2, <1>5, <2>4, <2>5, <2>6 DEF NoPending
<1>. QED BY <1>11, <1>12, <1>13, <1>14 DEF FlowInv

LEMMA FlowGroups ==
  ASSUME FlowInv
  PROVE  GroupsOK /\ (mListening => DOMAIN groups # {})
BY DEF FlowInv, FlowTyped, Listening, GroupsOK

LEMMA FlowEraseOf ==
  ASSUME FlowInv, NEW c \in Connection, HandleErase(Of(c))
  PROVE  FlowInv'
<1>1. Of(c) # None /\ Of(c)[1] = c BY DEF Of, None
<1>. DEFINE x == Of(c)
<1>2. HandleErase(x) /\ x # None /\ x[1] = c BY <1>1
<1>. HIDE DEF x
<1>3. phase' = [phase EXCEPT ![c] = "gone"] BY <1>2 DEF HandleErase
<1>4. Runs(Handler("erase", x)) /\ Finish /\ Erase BY <1>2 DEF HandleErase, Handler
<1>5. work' = work /\ mStopped' = mStopped /\ UNCHANGED <<groups, netVars>>
  BY <1>2 DEF HandleErase, bookVars
<1>6. Shrinks BY <1>5, FlowGroups, SettledStaysShrinks
<1>. QED BY <1>3, <1>4, <1>5, <1>6, FlowEnd DEF x

LEMMA SetSocketShrinks ==
  ASSUME FlowInv, NEW c, SetSocket(c)
  PROVE  Shrinks
<1>1. ASSUME NEW s, NEW g, Settle(s, g) PROVE Shrinks BY <1>1, FlowGroups, SettleShrinks
<1>2. \/ \E s, g : Settle(s, g)
      \/ UNCHANGED <<groups, netVars>>
  <2>1. CASE \E s \in ClaimedBy(c) : \E book \in {AddSocket(<<groups[s], outcome>>, c)} : Settle(s, book[1])
    BY <2>1
  <2>2. CASE LET i == SelectInSeq(unclaimed, LAMBDA s : WaitsFor(s, c))
             IN  IF i # 0 THEN Merge(unclaimed[i], <<groups[unclaimed[i]], outcome>>, SocketGroupOf(c))
                 ELSE UNCHANGED <<groups, netVars>>
    <3>. DEFINE i == SelectInSeq(unclaimed, LAMBDA s : WaitsFor(s, c))
                b == <<groups[unclaimed[i]], outcome>>
                u == unclaimed[i]
                sg == SocketGroupOf(c)
    <3>1. IF i # 0 THEN Merge(u, b, sg) ELSE UNCHANGED <<groups, netVars>> BY <2>2
    <3>. HIDE DEF i, b, u, sg
    <3>2. CASE i # 0
      <4>1. Merge(u, b, sg) BY <3>1, <3>2
      <4>. QED BY <4>1 DEF Merge
    <3>. QED BY <3>1, <3>2
  <2>. QED BY <2>1, <2>2 DEF SetSocket
<1>. QED BY <1>1, <1>2, FlowGroups, SettledStaysShrinks

LEMMA FlowNamed ==
  ASSUME FlowInv, NEW c \in Connection, HandleNamed(c)
  PROVE  FlowInv'
<1>1. /\ Runs(Handler("named", Of(c))) /\ Finish /\ Erase /\ SetSocket(c)
      /\ phase' = [phase EXCEPT ![c] = "gone"]
      /\ work' = work /\ mStopped' = mStopped
  BY DEF HandleNamed, Handler, Of
<1>. QED BY <1>1, SetSocketShrinks, FlowEnd

LEMMA FlowSubscribe ==
  ASSUME FlowInv, NEW s \in Used, HandleSubscribe(s)
  PROVE  FlowInv'
<1>1. /\ Runs(Handler("subscribe", s)) /\ Finish /\ work' = work /\ phase' = phase
      /\ mStopped' = mStopped /\ pendingSocketsEmpty' = pendingSocketsEmpty
  BY DEF HandleSubscribe, stopVars, Handler
<1>2. FlowTyped /\ Listening /\ Answering /\ Erasing /\ strand \in Seq(Handlers) BY DEF FlowInv, FlowTyped
<1>3. Connection' = Connection /\ Handlers' = Handlers /\ Phases' = Phases BY <1>1, SamePhases
<1>4. SameFlow
  <2>1. "subscribe" \notin FlowTags BY DEF FlowTags
  <2>. QED BY <1>1, <1>2, <2>1, RanAside
<1>5. CASE mStopped
  <2>1. UNCHANGED <<groups, netVars>> BY <1>5 DEF HandleSubscribe
  <2>2. Shrinks BY <2>1, FlowGroups, SettledStaysShrinks
  <2>. QED BY <1>1, <1>4, <2>2, FlowAside
<1>6. CASE ~mStopped
  <2>1. /\ groups' = [t \in DOMAIN groups \cup {s} |-> IF t = s THEN NewGroup ELSE groups[t]]
        /\ mListening' = TRUE /\ aborted' = aborted
        /\ accepting' = IF mListening THEN accepting ELSE accepting + 1
    BY <1>6 DEF HandleSubscribe
  <2>2. /\ accepting \in Nat /\ aborted \in Nat /\ mListening \in BOOLEAN /\ GroupsOK
    BY <1>2, FlowGroups DEF FlowTyped
  <2>3. accepting' \in Nat /\ (~mListening => accepting' + aborted' > 0) /\ (mListening => accepting' = accepting)
    BY <2>1, <2>2
  <2>4. /\ groups' = [t \in DOMAIN groups' |-> groups'[t]]
        /\ DOMAIN groups' # {}
        /\ \A t \in DOMAIN groups' : HasSubscriptions(groups'[t])
    <3>1. HasSubscriptions(NewGroup) BY DEF HasSubscriptions, NewGroup
    <3>. QED BY <2>1, <2>2, <3>1 DEF GroupsOK
  <2>5. FlowTyped'
    BY <1>1, <1>2, <1>3, <1>4, <2>1, <2>2, <2>3, <2>4 DEF FlowTyped, SameFlow
  <2>6. Answering'
    <3>1. ASSUME NEW d \in Connection, NEW t \in {"named", "erase"}
          PROVE  /\ (InStrand(t, Of(d)))' => InStrand(t, Of(d)) /\ phase'[d] = phase[d]
                 /\ OnceInStrand(t, Of(d)) => (OnceInStrand(t, Of(d)))'
      BY <1>1, <1>4 DEF SameFlow, FlowTags
    <3>. QED BY <1>1, <1>2, <3>1, AnsweringKept
  <2>7. AnAccept'
    <3>1. CASE ~mListening BY <2>3, <3>1 DEF AnAccept
    <3>2. CASE mListening
      <4>1. AnAccept BY <1>2, <3>2 DEF Listening
      <4>2. InStrand("start", None) => (InStrand("start", None))' BY <1>4 DEF SameFlow, FlowTags
      <4>. QED BY <1>1, <1>3, <2>1, <2>3, <3>2, <4>1, <4>2 DEF AnAccept
    <3>. QED BY <3>1, <3>2
  <2>8. Listening'
    <3>1. (\A t \in DOMAIN groups : HasSubscriptions(groups[t]))' BY <2>4 DEF HasSubscriptions
    <3>. QED BY <1>1, <1>6, <2>1, <2>4, <2>7, <3>1 DEF Listening
  <2>9. Erasing' BY <1>1, <1>6 DEF Erasing
  <2>. QED BY <2>5, <2>6, <2>8, <2>9 DEF FlowInv
<1>. QED BY <1>5, <1>6

LEMMA FlowStop ==
  ASSUME FlowInv, HandleStop
  PROVE  FlowInv'
<1>1. /\ Runs(Handler("stop", None)) /\ Finish /\ work' = work /\ phase' = phase /\ groups' = groups
      /\ mStopped' = TRUE /\ mListening' = FALSE /\ accepting' = 0 /\ aborted' = aborted + accepting
      /\ pendingSocketsEmpty' = (PendingSockets = 0)
  BY DEF HandleStop, bookVars, Handler, CloseHandle
<1>2. FlowTyped /\ Listening /\ Answering /\ Erasing /\ strand \in Seq(Handlers) BY DEF FlowInv, FlowTyped
<1>3. Connection' = Connection /\ Handlers' = Handlers /\ Phases' = Phases BY <1>1, SamePhases
<1>4. SameFlow
  <2>1. "stop" \notin FlowTags BY DEF FlowTags
  <2>. QED BY <1>1, <1>2, <2>1, RanAside
<1>5. accepting' \in Nat /\ aborted' \in Nat BY <1>1, <1>2 DEF FlowTyped
<1>6. FlowTyped' BY <1>1, <1>2, <1>3, <1>4, <1>5 DEF FlowTyped, SameFlow
<1>7. Answering'
  <2>1. ASSUME NEW d \in Connection, NEW t \in {"named", "erase"}
        PROVE  /\ (InStrand(t, Of(d)))' => InStrand(t, Of(d)) /\ phase'[d] = phase[d]
               /\ OnceInStrand(t, Of(d)) => (OnceInStrand(t, Of(d)))'
    BY <1>1, <1>4 DEF SameFlow, FlowTags
  <2>. QED BY <1>1, <1>2, <2>1, AnsweringKept
<1>8. Listening'
  <2>1. (\A t \in DOMAIN groups : HasSubscriptions(groups[t]))' BY <1>1, <1>2 DEF Listening, HasSubscriptions
  <2>. QED BY <1>1, <2>1 DEF Listening
<1>9. Erasing'
  <2>1. SUFFICES ASSUME pendingSocketsEmpty' PROVE NoPending' BY DEF Erasing
  <2>2. NoPending BY <1>1, <1>2, <2>1, Pending
  <2>3. accepting' = 0 /\ aborted' = 0 BY <1>1, <2>2 DEF NoPending
  <2>4. ~(InStrand("erase", None))' BY <1>4, <2>2 DEF SameFlow, FlowTags, NoPending
  <2>. QED BY <1>1, <1>3, <2>2, <2>3, <2>4 DEF NoPending
<1>. QED BY <1>6, <1>7, <1>8, <1>9 DEF FlowInv

LEMMA FlowGet ==
  ASSUME FlowInv, NEW ch \in Channel, HandleGet(ch)
  PROVE  FlowInv'
<1>1. /\ Runs(Handler("get", ch)) /\ Finish /\ work' = work
      /\ UNCHANGED <<mStopped, phase, pendingSocketsEmpty>>
  BY DEF HandleGet, Handler
<1>2. strand \in Seq(Handlers) /\ "get" \notin FlowTags BY DEF FlowInv, FlowTyped, FlowTags
<1>3. SameFlow BY <1>1, <1>2, RanAside
<1>4. \E s, g : Settle(s, g)
  <2>. DEFINE s == ch[1]
              book == AddChannel(<<groups[s], outcome>>, ch)
              i == SelectInSeq(socketGroups, LAMBDA sg : Offers(sg, ch))
              sg == socketGroups[i]
  <2>1. IF mSessionID[s] = 0 /\ i # 0 THEN Merge(s, book, sg) ELSE Settle(s, book[1])
    BY DEF HandleGet
  <2>. HIDE DEF s, book, i, sg
  <2>2. CASE mSessionID[s] = 0 /\ i # 0
    <3>1. Merge(s, book, sg) BY <2>1, <2>2
    <3>. QED BY <3>1 DEF Merge
  <2>. QED BY <2>1, <2>2
<1>5. Shrinks BY <1>4, FlowGroups, SettleShrinks
<1>. QED BY <1>1, <1>3, <1>5, FlowAside

LEMMA FlowCancel ==
  ASSUME FlowInv, NEW ch \in Channel, HandleCancel(ch)
  PROVE  FlowInv'
<1>1. /\ Runs(Handler("cancel", ch)) /\ Finish /\ work' = work
      /\ UNCHANGED <<mStopped, phase, pendingSocketsEmpty>>
  BY DEF HandleCancel, Handler
<1>2. strand \in Seq(Handlers) /\ "cancel" \notin FlowTags BY DEF FlowInv, FlowTyped, FlowTags
<1>3. SameFlow BY <1>1, <1>2, RanAside
<1>4. \/ \E s, g : Settle(s, g)
      \/ UNCHANGED <<groups, netVars>>
  BY DEF HandleCancel
<1>5. Shrinks BY <1>4, FlowGroups, SettleShrinks, SettledStaysShrinks
<1>. QED BY <1>1, <1>3, <1>5, FlowAside

LEMMA FlowUnsubscribe ==
  ASSUME FlowInv, NEW s \in Used, HandleUnsubscribe(s)
  PROVE  FlowInv'
<1>1. /\ Runs(Handler("unsubscribe", s)) /\ Finish /\ work' = work
      /\ UNCHANGED <<mStopped, phase, pendingSocketsEmpty>>
      /\ \E g : Settle(s, g)
  BY DEF HandleUnsubscribe, Handler
<1>2. strand \in Seq(Handlers) /\ "unsubscribe" \notin FlowTags BY DEF FlowInv, FlowTyped, FlowTags
<1>3. SameFlow BY <1>1, <1>2, RanAside
<1>4. Shrinks BY <1>1, FlowGroups, SettleShrinks
<1>. QED BY <1>1, <1>3, <1>4, FlowAside

(* The threads of the sessions count their channels.                        *)
Users == {"new", "subscribing", "open", "failed", "stopping", "stopped"}

Counted == user \in [Used -> Users] /\ added \in [Used -> Nat]

LEMMA CountedKept ==
  ASSUME Counted, Next
  PROVE  Counted'
<1>1. CASE UNCHANGED <<work, user, added>> BY <1>1 DEF Counted, Used
<1>2. ASSUME NEW s \in Used, NEW p \in Users, user' = [user EXCEPT ![s] = p], added' = added, work' = work
      PROVE  Counted'
  BY <1>2 DEF Counted, Used
<1>3. ASSUME NEW s \in Used, AddChannelTo(s) PROVE Counted'
  BY <1>3 DEF AddChannelTo, userUnchanged, Counted, Used
<1>4. ASSUME NEW s \in Used, StartSession(s) \/ StopSession(s) PROVE Counted'
  <2>1. "subscribing" \in Users /\ "stopping" \in Users BY DEF Users
  <2>. QED BY <1>2, <1>4, <2>1 DEF StartSession, StopSession, userUnchanged
<1>5. ASSUME NEW s \in Used, HandleSubscribe(s) \/ HandleUnsubscribe(s) PROVE Counted'
  <2>1. "failed" \in Users /\ "open" \in Users /\ "stopped" \in Users BY DEF Users
  <2>. QED BY <1>2, <1>5, <2>1 DEF HandleSubscribe, HandleUnsubscribe
<1>6. ASSUME HandleStart \/ HandleStop \/ GroupIsGone \/ HandleErase(None) \/ AcceptAborted
             \/ CallStop \/ StopReturn
      PROVE  Counted'
  BY <1>1, <1>6 DEF HandleStart, HandleStop, GroupIsGone, HandleErase, AcceptAborted, CallStop,
       StopReturn, userUnchanged, netUnchanged, userVars
<1>7. ASSUME NEW c \in Connection,
             HandleErase(<<c>>) \/ HandleNamed(c) \/ Connect(c) \/ Accepted(c) \/ AskName(c)
             \/ NameArrives(c) \/ NameFails(c)
      PROVE  Counted'
  BY <1>1, <1>7 DEF HandleErase, HandleNamed, Connect, Accepted, AskName, NameArrives, NameFails,
       userUnchanged, netUnchanged, userVars
<1>8. ASSUME NEW ch \in Channel, HandleGet(ch) \/ HandleCancel(ch) \/ CancelChannel(ch) PROVE Counted'
  BY <1>1, <1>8 DEF HandleGet, HandleCancel, CancelChannel, userUnchanged, userVars
<1>. QED BY <1>3, <1>4, <1>5, <1>6, <1>7, <1>8 DEF Next, StrandStep

LEMMA NextChannel ==
  ASSUME work \in Cases, Counted, NEW s \in Used, AddChannelTo(s)
  PROVE  /\ added[s] + 1 \in DOMAIN work.plan[s] /\ added'[s] = added[s] + 1
         /\ <<s, added'[s]>> \in Channel
<1>1. added[s] \in Nat /\ added[s] < Len(work.plan[s]) /\ added'[s] = added[s] + 1
  BY DEF Counted, AddChannelTo
<1>2. work.plan[s] \in Seq(STRING) BY TheCase
<1>3. added[s] + 1 \in DOMAIN work.plan[s]
  <2>1. Len(work.plan[s]) \in Nat /\ DOMAIN work.plan[s] = 1 .. Len(work.plan[s]) BY <1>2
  <2>. QED BY <1>1, <2>1
<1>. QED BY <1>1, <1>3 DEF Channel

(* Threads post handlers, and change nothing else of all this.              *)
LEMMA FlowPost ==
  ASSUME FlowInv, NEW tag \in Tags \ FlowTags, NEW x \in Things, Post(<<Handler(tag, x)>>), userUnchanged' = userUnchanged
  PROVE  FlowInv'
<1>1. /\ work' = work /\ UNCHANGED <<mStopped, phase, pendingSocketsEmpty>>
      /\ UNCHANGED <<groups, netVars>>
  BY DEF userUnchanged, bookVars, stopVars
<1>2. SameFlow BY <1>1, PostedAside DEF FlowInv, FlowTyped
<1>3. Shrinks BY <1>1, FlowGroups, SettledStaysShrinks
<1>. QED BY <1>1, <1>2, <1>3, FlowAside

LEMMA FlowUser ==
  ASSUME FlowInv, Counted,
         \/ \E s \in Used : StartSession(s) \/ AddChannelTo(s) \/ StopSession(s)
         \/ \E ch \in Channel : CancelChannel(ch)
         \/ CallStop
  PROVE  FlowInv'
<1>1. /\ "subscribe" \in Tags \ FlowTags /\ "get" \in Tags \ FlowTags /\ "unsubscribe" \in Tags \ FlowTags
      /\ "cancel" \in Tags \ FlowTags /\ "stop" \in Tags \ FlowTags
  BY DEF Tags, FlowTags
<1>2. ASSUME NEW s \in Used, StartSession(s) PROVE FlowInv'
  BY <1>1, <1>2, ThingsAre, FlowPost DEF StartSession, Handler
<1>3. ASSUME NEW s \in Used, StopSession(s) PROVE FlowInv'
  BY <1>1, <1>3, ThingsAre, FlowPost DEF StopSession, Handler
<1>4. ASSUME NEW ch \in Channel, CancelChannel(ch) PROVE FlowInv'
  BY <1>1, <1>4, ThingsAre, FlowPost DEF CancelChannel, Handler
<1>5. ASSUME CallStop PROVE FlowInv'
  BY <1>1, <1>5, ThingsAre, FlowPost DEF CallStop, Handler
<1>6. ASSUME NEW s \in Used, AddChannelTo(s) PROVE FlowInv'
  <2>. DEFINE ch == <<s, added'[s]>>
  <2>1. Post(<<Handler("get", ch)>>) /\ userUnchanged' = userUnchanged BY <1>6 DEF AddChannelTo, Handler
  <2>2. ch \in Channel BY <1>6, NextChannel DEF FlowInv, FlowTyped
  <2>. HIDE DEF ch
  <2>. QED BY <1>1, <2>1, <2>2, ThingsAre, FlowPost
<1>. QED BY <1>2, <1>3, <1>4, <1>5, <1>6

LEMMA FlowNext ==
  ASSUME FlowInv, Counted, [Next]_vars
  PROVE  FlowInv' /\ Counted'
<1>1. CASE UNCHANGED vars
  <2>1. UNCHANGED <<work, mListening, accepting, aborted, mStopped, pendingSocketsEmpty, phase, groups,
                    strand, user, added>>
    BY <1>1 DEF vars, netVars, bookVars, stopVars, userVars
  <2>2. FlowInv'
    <3>1. SameFlow BY <2>1, SamePhases DEF SameFlow, InStrand, OnceInStrand, FlowInv, FlowTyped
    <3>2. Shrinks BY <2>1, FlowGroups, SettledStaysShrinks DEF netVars
    <3>. QED BY <2>1, <3>1, <3>2, FlowAside
  <2>. QED BY <2>1, <2>2 DEF Counted, Used
<1>2. CASE Next
  <2>1. Counted' BY <1>2, CountedKept
  <2>2. CASE GroupIsGone \/ StopReturn
    <3>1. UNCHANGED <<work, netVars, mStopped, pendingSocketsEmpty, phase, groups, strand>>
      BY <2>2 DEF GroupIsGone, StopReturn, userUnchanged, bookVars, stopVars
    <3>2. SameFlow BY <3>1, SamePhases DEF SameFlow, InStrand, OnceInStrand, FlowInv, FlowTyped
    <3>3. Shrinks BY <3>1, FlowGroups, SettledStaysShrinks
    <3>. QED BY <2>1, <3>1, <3>2, <3>3, FlowAside
  <2>3. CASE HandleStart \/ HandleStop \/ HandleErase(None) \/ AcceptAborted
    BY <2>1, <2>3, FlowStart, FlowStop, FlowEraseNone, FlowAborted
  <2>4. ASSUME NEW c \in Connection,
               HandleErase(<<c>>) \/ HandleNamed(c) \/ Connect(c) \/ Accepted(c) \/ AskName(c)
               \/ NameArrives(c) \/ NameFails(c)
        PROVE  FlowInv'
    <3>1. HandleErase(<<c>>) => HandleErase(Of(c)) BY DEF Of
    <3>. QED BY <2>4, <3>1, FlowEraseOf, FlowNamed, FlowConnect, FlowAccepted, FlowAskName,
           FlowNameArrives, FlowNameFails
  <2>5. ASSUME NEW s \in Used, HandleSubscribe(s) \/ HandleUnsubscribe(s) PROVE FlowInv'
    BY <2>5, FlowSubscribe, FlowUnsubscribe
  <2>6. ASSUME NEW ch \in Channel, HandleGet(ch) \/ HandleCancel(ch) PROVE FlowInv'
    BY <2>6, FlowGet, FlowCancel
  <2>7. CASE \/ \E s \in Used : StartSession(s) \/ AddChannelTo(s) \/ StopSession(s)
             \/ \E ch \in Channel : CancelChannel(ch)
             \/ CallStop
    BY <2>1, <2>7, FlowUser
  <2>. QED BY <1>2, <2>1, <2>2, <2>3, <2>4, <2>5, <2>6, <2>7 DEF Next, StrandStep
<1>. QED BY <1>1, <1>2

LEMMA FlowInit ==
  ASSUME Init
  PROVE  FlowInv /\ Counted
<1>1. /\ work \in Cases /\ mStopped = FALSE /\ mListening = FALSE /\ accepting = 0 /\ aborted = 0
      /\ phase = [c \in Connection |-> "unknown"] /\ groups = <<>> /\ strand = <<>>
      /\ pendingSocketsEmpty = FALSE
      /\ user = [s \in Used |-> "new"] /\ added = [s \in Used |-> 0]
  BY DEF Init
<1>2. DOMAIN groups = {} /\ groups = [s \in DOMAIN groups |-> groups[s]] BY <1>1
<1>3. strand \in Seq(Handlers)
  <2>. HIDE DEF Handlers
  <2>. QED BY <1>1
<1>4. \A h : ~Has(strand, h) BY <1>1 DEF Has
<1>5. FlowTyped BY <1>1, <1>2, <1>3 DEF FlowTyped, Phases
<1>6. Listening BY <1>1, <1>2 DEF Listening
<1>7. Answering BY <1>4 DEF Answering, InStrand
<1>8. Erasing BY <1>1 DEF Erasing
<1>9. Counted BY <1>1 DEF Counted, Users
<1>. QED BY <1>5, <1>6, <1>7, <1>8, <1>9 DEF FlowInv

LEMMA FlowInvariance == Spec => [](FlowInv /\ Counted)
<1>1. Init => FlowInv /\ Counted BY FlowInit
<1>2. (FlowInv /\ Counted) /\ [Next]_vars => (FlowInv /\ Counted)' BY FlowNext
<1>. QED BY <1>1, <1>2, PTL DEF Spec

-----------------------------------------------------------------------------
(* While anybody is subscribed and the acceptor is not stopped, it listens  *)
(* and an accept is under way or about to be started (Acceptor::start,      *)
(* stopListening), for every number of sessions and connections.            *)
THEOREM ListensOn == Spec => []KeepsListening
<1>1. FlowInv => KeepsListening
  <2>1. SUFFICES ASSUME FlowInv, ~mStopped, Subscribed(groups)
                 PROVE  /\ mListening
                        /\ \/ accepting + aborted > 0
                           \/ \E c \in Connection : phase[c] = "taken"
                           \/ \E k \in DOMAIN strand : strand[k] = <<"start", None>>
    BY DEF KeepsListening
  <2>2. mListening BY <2>1 DEF FlowInv, Listening, Subscribed
  <2>3. AnAccept BY <2>1, <2>2 DEF FlowInv, Listening
  <2>. QED BY <2>2, <2>3 DEF AnAccept, InStrand, Has, Handler
<1>. QED BY <1>1, FlowInvariance, PTL


-----------------------------------------------------------------------------
(* Sequences as lists: one element found, one element removed.              *)

LEMMA MinIs ==
  ASSUME NEW I \in SUBSET Nat, I # {}
  PROVE  Min(I) \in I
BY LeastNumber DEF Min

LEMMA RemovedAt ==
  ASSUME NEW S, NEW seq \in Seq(S), NEW i \in DOMAIN seq
  PROVE  /\ RemoveAt(seq, i) \in Seq(S)
         /\ \A a \in DOMAIN RemoveAt(seq, i) :
              /\ a < i => a \in DOMAIN seq /\ RemoveAt(seq, i)[a] = seq[a]
              /\ a >= i => a + 1 \in DOMAIN seq /\ RemoveAt(seq, i)[a] = seq[a + 1]
         /\ \A k \in DOMAIN seq :
              /\ k < i => k \in DOMAIN RemoveAt(seq, i) /\ RemoveAt(seq, i)[k] = seq[k]
              /\ k > i => k - 1 \in DOMAIN RemoveAt(seq, i) /\ RemoveAt(seq, i)[k - 1] = seq[k]
         /\ DOMAIN RemoveAt(seq, i) \subseteq Nat /\ DOMAIN seq \subseteq Nat
<1>. DEFINE n == Len(seq)
            p == SubSeq(seq, 1, i - 1)
            q == SubSeq(seq, i + 1, n)
            r == RemoveAt(seq, i)
<1>1. n \in Nat /\ i \in 1 .. n /\ DOMAIN seq = 1 .. n OBVIOUS
<1>2. p \in Seq(S) /\ Len(p) = i - 1 /\ \A a \in 1 .. i - 1 : p[a] = seq[a]
  BY <1>1, SubSeqProperties
<1>3. q \in Seq(S) /\ Len(q) = n - i /\ \A a \in 1 .. n - i : q[a] = seq[i + a]
  BY <1>1, SubSeqProperties
<1>4. r = p \o q BY DEF RemoveAt
<1>. HIDE DEF p, q, r, n
<1>5. /\ r \in Seq(S) /\ Len(r) = n - 1 /\ DOMAIN r = 1 .. n - 1
      /\ \A a \in 1 .. n - 1 : r[a] = IF a <= i - 1 THEN p[a] ELSE q[a - (i - 1)]
  <2>1. /\ p \o q \in Seq(S) /\ Len(p \o q) = Len(p) + Len(q)
        /\ \A a \in 1 .. Len(p) + Len(q) : (p \o q)[a] = IF a <= Len(p) THEN p[a] ELSE q[a - Len(p)]
    BY <1>2, <1>3, ConcatProperties
  <2>2. Len(p) + Len(q) = n - 1 BY <1>1, <1>2, <1>3
  <2>. QED BY <1>1, <1>2, <1>4, <2>1, <2>2
<1>6. ASSUME NEW a \in 1 .. n - 1, a < i PROVE a \in 1 .. n /\ r[a] = seq[a]
  BY <1>1, <1>2, <1>5, <1>6
<1>7. ASSUME NEW a \in 1 .. n - 1, a >= i PROVE a + 1 \in 1 .. n /\ r[a] = seq[a + 1]
  <2>. DEFINE b == a - (i - 1)
  <2>1. r[a] = q[b] /\ b \in 1 .. n - i BY <1>1, <1>5, <1>7
  <2>2. i + b = a + 1 /\ a + 1 \in 1 .. n BY <1>1, <1>7
  <2>. HIDE DEF b
  <2>3. q[b] = seq[i + b] BY <1>3, <2>1
  <2>. QED BY <2>1, <2>2, <2>3
<1>8. ASSUME NEW k \in 1 .. n, k > i PROVE k - 1 \in 1 .. n - 1 /\ r[k - 1] = seq[k]
  <2>1. k - 1 \in 1 .. n - 1 /\ k - 1 >= i /\ (k - 1) + 1 = k BY <1>1, <1>8
  <2>. QED BY <1>7, <2>1
<1>9. ASSUME NEW k \in 1 .. n, k < i PROVE k \in 1 .. n - 1 /\ r[k] = seq[k]
  <2>1. k \in 1 .. n - 1 BY <1>1, <1>9
  <2>. QED BY <1>6, <1>9, <2>1
<1>10. 1 .. n - 1 \subseteq Nat /\ 1 .. n \subseteq Nat BY <1>1
<1>. QED BY <1>1, <1>5, <1>6, <1>7, <1>8, <1>9, <1>10 DEF r

(* A list whose elements f tells apart loses the i-th one of them.          *)
LEMMA Dropped ==
  ASSUME NEW S, NEW seq \in Seq(S), NEW i \in DOMAIN seq, NEW f,
         \A j, k \in DOMAIN seq : f[seq[j]] = f[seq[k]] => j = k
  PROVE  /\ RemoveAt(seq, i) \in Seq(S)
         /\ ToSet(RemoveAt(seq, i)) = {x \in ToSet(seq) : f[x] # f[seq[i]]}
         /\ \A j, k \in DOMAIN RemoveAt(seq, i) :
              f[RemoveAt(seq, i)[j]] = f[RemoveAt(seq, i)[k]] => j = k
<1>. DEFINE r == RemoveAt(seq, i)
<1>1. /\ r \in Seq(S)
      /\ \A a \in DOMAIN r : /\ a < i => a \in DOMAIN seq /\ r[a] = seq[a]
                             /\ a >= i => a + 1 \in DOMAIN seq /\ r[a] = seq[a + 1]
      /\ \A k \in DOMAIN seq : /\ k < i => k \in DOMAIN r /\ r[k] = seq[k]
                               /\ k > i => k - 1 \in DOMAIN r /\ r[k - 1] = seq[k]
      /\ DOMAIN r \subseteq Nat /\ DOMAIN seq \subseteq Nat
  BY RemovedAt
<1>. HIDE DEF r
<1>2. ASSUME NEW a \in DOMAIN r PROVE \E k \in DOMAIN seq : k # i /\ r[a] = seq[k]
  <2>1. CASE a < i BY <1>1, <2>1
  <2>2. CASE a >= i
    <3>1. a + 1 # i BY <1>1, <2>2
    <3>. QED BY <1>1, <2>2, <3>1
  <2>. QED BY <1>1, <2>1, <2>2
<1>3. ASSUME NEW k \in DOMAIN seq, k # i PROVE \E a \in DOMAIN r : r[a] = seq[k]
  <2>1. k < i \/ k > i BY <1>1, <1>3
  <2>. QED BY <1>1, <2>1
<1>4. ToSet(r) = {x \in ToSet(seq) : f[x] # f[seq[i]]}
  <2>1. ASSUME NEW x \in ToSet(r) PROVE x \in ToSet(seq) /\ f[x] # f[seq[i]]
    <3>1. PICK a \in DOMAIN r : r[a] = x BY <2>1 DEF ToSet
    <3>. QED BY <1>2, <3>1 DEF ToSet
  <2>2. ASSUME NEW x \in ToSet(seq), f[x] # f[seq[i]] PROVE x \in ToSet(r)
    <3>1. PICK k \in DOMAIN seq : seq[k] = x BY <2>2 DEF ToSet
    <3>2. k # i BY <2>2, <3>1
    <3>. QED BY <1>3, <3>1, <3>2 DEF ToSet
  <2>. QED BY <2>1, <2>2
<1>5. ASSUME NEW j \in DOMAIN r, NEW k \in DOMAIN r, f[r[j]] = f[r[k]] PROVE j = k
  <2>1. CASE j < i /\ k < i BY <1>1, <1>5, <2>1
  <2>2. CASE j >= i /\ k >= i
    <3>1. j + 1 = k + 1 BY <1>1, <1>5, <2>2
    <3>. QED BY <1>1, <3>1
  <2>3. CASE j < i /\ k >= i
    <3>1. j = k + 1 BY <1>1, <1>5, <2>3
    <3>. QED BY <1>1, <2>3, <3>1
  <2>4. CASE j >= i /\ k < i
    <3>1. j + 1 = k BY <1>1, <1>5, <2>4
    <3>. QED BY <1>1, <2>4, <3>1
  <2>. QED BY <1>1, <2>1, <2>2, <2>3, <2>4
<1>. QED BY <1>1, <1>4, <1>5 DEF r

LEMMA DroppedOne ==
  ASSUME NEW S, NEW seq \in Seq(S), NEW i \in DOMAIN seq, IsInjective(seq)
  PROVE  /\ RemoveAt(seq, i) \in Seq(S)
         /\ ToSet(RemoveAt(seq, i)) = ToSet(seq) \ {seq[i]}
         /\ IsInjective(RemoveAt(seq, i))
<1>. DEFINE f == [x \in S |-> x]
            r == RemoveAt(seq, i)
<1>1. \A k \in DOMAIN seq : seq[k] \in S /\ f[seq[k]] = seq[k] OBVIOUS
<1>2. \A j, k \in DOMAIN seq : f[seq[j]] = f[seq[k]] => j = k BY <1>1 DEF IsInjective
<1>3. \A x \in S : f[x] = x OBVIOUS
<1>. HIDE DEF f
<1>4. /\ r \in Seq(S)
      /\ ToSet(r) = {x \in ToSet(seq) : f[x] # f[seq[i]]}
      /\ \A j, k \in DOMAIN r : f[r[j]] = f[r[k]] => j = k
  BY <1>2, Dropped
<1>. HIDE DEF r
<1>5. \A x \in ToSet(seq) : f[x] = x BY <1>1 DEF ToSet
<1>6. ToSet(r) = ToSet(seq) \ {seq[i]} BY <1>1, <1>4, <1>5
<1>7. \A j \in DOMAIN r : r[j] \in S BY <1>4
<1>8. IsInjective(r) BY <1>3, <1>4, <1>7 DEF IsInjective
<1>. QED BY <1>4, <1>6, <1>8 DEF r

LEMMA Appended ==
  ASSUME NEW S, NEW seq \in Seq(S), NEW x \in S
  PROVE  /\ Append(seq, x) \in Seq(S)
         /\ ToSet(Append(seq, x)) = ToSet(seq) \cup {x}
         /\ IsInjective(seq) /\ x \notin ToSet(seq) => IsInjective(Append(seq, x))
<1>. DEFINE n == Len(seq)
            r == Append(seq, x)
<1>1. /\ r \in Seq(S) /\ n \in Nat /\ DOMAIN seq = 1 .. n /\ DOMAIN r = 1 .. n + 1
      /\ \A k \in 1 .. n : r[k] = seq[k]
      /\ r[n + 1] = x
  OBVIOUS
<1>. HIDE DEF n, r
<1>2. /\ n + 1 \in 1 .. n + 1
      /\ \A k \in 1 .. n + 1 : k \in 1 .. n \/ k = n + 1
      /\ \A k \in 1 .. n : k \in 1 .. n + 1
  BY <1>1
<1>3. ToSet(r) = ToSet(seq) \cup {x} BY <1>1, <1>2 DEF ToSet
<1>4. ASSUME IsInjective(seq), x \notin ToSet(seq) PROVE IsInjective(r)
  <2>1. \A k \in 1 .. n : seq[k] # x BY <1>1, <1>4 DEF ToSet
  <2>. QED BY <1>1, <1>2, <1>4, <2>1 DEF IsInjective
<1>. QED BY <1>1, <1>3, <1>4 DEF r

LEMMA RemovedFirst ==
  ASSUME NEW S, NEW seq \in Seq(S), NEW e, IsInjective(seq)
  PROVE  /\ RemoveFirst(seq, e) \in Seq(S)
         /\ ToSet(RemoveFirst(seq, e)) = ToSet(seq) \ {e}
         /\ IsInjective(RemoveFirst(seq, e))
<1>. DEFINE I == {k \in 1 .. Len(seq) : seq[k] = e}
            i == Min(I)
            r == RemoveFirst(seq, e)
<1>1. I # {} => r = RemoveAt(seq, i) BY DEF RemoveFirst, SelectInSeq
<1>2. I = {} => r = seq BY DEF RemoveFirst
<1>3. I \in SUBSET Nat /\ DOMAIN seq = 1 .. Len(seq) OBVIOUS
<1>4. CASE I # {}
  <2>1. i \in I
    <3>. HIDE DEF I
    <3>. QED BY <1>3, <1>4, MinIs
  <2>2. i \in DOMAIN seq /\ seq[i] = e BY <1>3, <2>1
  <2>. HIDE DEF I, i, r
  <2>. QED BY <1>1, <1>4, <2>2, DroppedOne DEF r
<1>5. CASE I = {}
  <2>1. e \notin ToSet(seq) BY <1>3, <1>5 DEF ToSet
  <2>. QED BY <1>2, <1>5, <2>1
<1>. QED BY <1>4, <1>5

-----------------------------------------------------------------------------
(* Groups and outcomes: what makes them right.                              *)

Socket(c) == <<"socket", c>>
Outcomes == {None, Refused} \cup {Socket(c) : c \in Connection}
Keys == STRING \X Numbers
ChannelsOf(s) == {ch \in Channel : ch[1] = s}
Group(s) == [channels : Seq(ChannelsOf(s)), sockets : Seq(Connection), live : BOOLEAN,
             key : Keys \cup {None}]
Waiting(g) == ToSet(g.channels)
Kept(g) == ToSet(g.sockets)
Served(out, c) == \E ch \in Channel : out[ch] = Socket(c)

(* The group of session s: nobody waits in it who got something, its        *)
(* sockets are of the remote session it is paired with and go with nobody   *)
(* who waits, and so are those its channels got.                            *)
Fits(s, g, out) ==
  /\ g \in Group(s) /\ IsInjective(g.channels) /\ IsInjective(g.sockets)
  /\ g.key # None => g.key[1] = work.name[s]
  /\ \A ch \in Waiting(g) : out[ch] = None
  /\ \A c \in Kept(g) : Remote(c) = g.key /\ ~Served(out, c)
  /\ \A ch \in Waiting(g) : \A c \in Kept(g) : ~Match(ch, c)
  /\ \A ch \in ChannelsOf(s) : \A c \in Connection : out[ch] = Socket(c) => Remote(c) = g.key

OutcomesOK(out) ==
  /\ out \in [Channel -> Outcomes]
  /\ \A ch \in Channel : \A c \in Connection :
       out[ch] = Socket(c) => Match(ch, c) /\ Remote(c)[1] = work.name[ch[1]]
  /\ \A a, b \in Channel : \A c \in Connection : out[a] = Socket(c) /\ out[b] = Socket(c) => a = b
  /\ \A a, b \in Channel : \A c, d \in Connection :
       a[1] = b[1] /\ out[a] = Socket(c) /\ out[b] = Socket(d) => Remote(c) = Remote(d)

LEMMA OutcomesDiffer ==
  /\ \A c, d : Socket(c) = Socket(d) <=> c = d
  /\ \A c : Socket(c) # None /\ Socket(c) # Refused
  /\ Refused # None
  /\ None \in Outcomes /\ Refused \in Outcomes
  /\ \A c \in Connection : Socket(c) \in Outcomes
BY DEF Socket, None, Refused, Outcomes

LEMMA RemoteIs ==
  ASSUME work \in Cases, NEW c \in Connection
  PROVE  Remote(c) \in Keys /\ Remote(c) # None
<1>1. work.remote[c] \in STRING \X Numbers \X STRING BY TheCase
<1>. QED BY <1>1 DEF Remote, Keys, None

LEMMA ChannelIs ==
  ASSUME work \in Cases, NEW ch \in Channel
  PROVE  ch[1] \in Used /\ ch[2] \in Nat /\ ch[2] \in DOMAIN work.plan[ch[1]] /\ ch = <<ch[1], ch[2]>>
<1>0. PICK s \in Used : ch \in {<<s, i>> : i \in DOMAIN work.plan[s]} BY DEF Channel
<1>1. PICK i \in DOMAIN work.plan[s] : ch = <<s, i>> BY <1>0
<1>2. work.plan[s] \in Seq(STRING) BY TheCase
<1>3. i \in Nat
  <2>1. DOMAIN work.plan[s] = 1 .. Len(work.plan[s]) /\ Len(work.plan[s]) \in Nat BY <1>2
  <2>. QED BY <1>1, <2>1
<1>. QED BY <1>1, <1>3

LEMMA GroupIs ==
  ASSUME NEW s, NEW g \in Group(s)
  PROVE  /\ g.channels \in Seq(ChannelsOf(s)) /\ g.sockets \in Seq(Connection)
         /\ g.live \in BOOLEAN /\ g.key \in Keys \cup {None}
         /\ Waiting(g) \subseteq ChannelsOf(s) /\ Kept(g) \subseteq Connection
         /\ ChannelsOf(s) \subseteq Channel
<1>1. g.channels \in Seq(ChannelsOf(s)) /\ g.sockets \in Seq(Connection)
      /\ g.live \in BOOLEAN /\ g.key \in Keys \cup {None}
  BY DEF Group
<1>2. ASSUME NEW S, NEW seq \in Seq(S) PROVE ToSet(seq) \subseteq S BY DEF ToSet
<1>. QED BY <1>1, <1>2 DEF Waiting, Kept, ChannelsOf

LEMMA UnpairedKeepsNothing ==
  ASSUME work \in Cases, NEW s, NEW g, NEW out, Fits(s, g, out), g.key = None
  PROVE  Kept(g) = {} /\ g.sockets = <<>> /\ \A ch \in ChannelsOf(s) : \A c \in Connection : out[ch] # Socket(c)
<1>1. g \in Group(s) /\ (\A c \in Kept(g) : Remote(c) = None) BY DEF Fits
<1>2. Kept(g) \subseteq Connection /\ g.sockets \in Seq(Connection) BY <1>1, GroupIs
<1>3. Kept(g) = {} BY <1>1, <1>2, RemoteIs
<1>4. g.sockets = <<>>
  <2>1. ASSUME g.sockets # <<>> PROVE FALSE
    <3>1. 1 \in DOMAIN g.sockets BY <1>2, <2>1
    <3>. QED BY <1>3, <3>1 DEF Kept, ToSet
  <2>. QED BY <2>1
<1>5. \A ch \in ChannelsOf(s) : \A c \in Connection : out[ch] # Socket(c) BY RemoteIs DEF Fits
<1>. QED BY <1>3, <1>4, <1>5

-----------------------------------------------------------------------------
(* A channel gets a socket.                                                 *)

LEMMA Serving ==
  ASSUME NEW out, OutcomesOK(out), NEW to, NEW ch \in Channel, NEW c \in Connection,
         Match(ch, c), Remote(c)[1] = work.name[ch[1]], ~Served(out, c),
         \A a \in ChannelsOf(ch[1]) : \A d \in Connection : out[a] = Socket(d) => Remote(d) = Remote(c),
         to = [out EXCEPT ![ch] = Socket(c)]
  PROVE  /\ OutcomesOK(to)
         /\ to[ch] = Socket(c) /\ \A a \in Channel : a # ch => to[a] = out[a]
         /\ \A d \in Connection : Served(to, d) => Served(out, d) \/ d = c
         /\ \A a \in ChannelsOf(ch[1]) : \A d \in Connection : to[a] = Socket(d) => Remote(d) = Remote(c)
<1>1. /\ out \in [Channel -> Outcomes]
      /\ \A a \in Channel : \A d \in Connection :
           out[a] = Socket(d) => Match(a, d) /\ Remote(d)[1] = work.name[a[1]]
      /\ \A a, b \in Channel : \A d \in Connection : out[a] = Socket(d) /\ out[b] = Socket(d) => a = b
      /\ \A a, b \in Channel : \A d, e \in Connection :
           a[1] = b[1] /\ out[a] = Socket(d) /\ out[b] = Socket(e) => Remote(d) = Remote(e)
  BY DEF OutcomesOK
<1>2. to \in [Channel -> Outcomes] BY <1>1, OutcomesDiffer
<1>3. to[ch] = Socket(c) /\ \A a \in Channel : a # ch => to[a] = out[a] BY <1>1
<1>4. \A d : to[ch] = Socket(d) => d = c BY <1>3, OutcomesDiffer
<1>5. \A a \in Channel : out[a] # Socket(c) BY DEF Served
<1>6. \A a \in Channel : \A d \in Connection :
        to[a] = Socket(d) => Match(a, d) /\ Remote(d)[1] = work.name[a[1]]
  BY <1>1, <1>3, <1>4
<1>7. ASSUME NEW a \in Channel, NEW b \in Channel, NEW d \in Connection, to[a] = Socket(d), to[b] = Socket(d)
      PROVE  a = b
  BY <1>1, <1>3, <1>4, <1>5, <1>7
<1>8. ASSUME NEW a \in Channel, NEW d \in Connection, a[1] = ch[1], to[a] = Socket(d)
      PROVE  Remote(d) = Remote(c)
  BY <1>3, <1>4, <1>8 DEF ChannelsOf
<1>9. ASSUME NEW a \in Channel, NEW b \in Channel, NEW d \in Connection, NEW e \in Connection,
             a[1] = b[1], to[a] = Socket(d), to[b] = Socket(e)
      PROVE  Remote(d) = Remote(e)
  <2>1. CASE a[1] = ch[1] BY <1>8, <1>9, <2>1
  <2>2. CASE a[1] # ch[1] BY <1>1, <1>3, <1>9, <2>2
  <2>. QED BY <2>1, <2>2
<1>10. OutcomesOK(to) BY <1>2, <1>6, <1>7, <1>9 DEF OutcomesOK
<1>11. ASSUME NEW d \in Connection, Served(to, d) PROVE Served(out, d) \/ d = c
  BY <1>3, <1>4, <1>11 DEF Served
<1>. QED BY <1>3, <1>8, <1>10, <1>11 DEF ChannelsOf

(* Sockets C come to a group g, which becomes h, and outcomes out become to.*)
Serves(g, out, h, to, C) ==
  /\ h.live = g.live /\ h.key = g.key
  /\ Waiting(h) \subseteq Waiting(g)
  /\ \A a \in Channel : a \notin Waiting(g) => to[a] = out[a]
  /\ \A a \in Waiting(g) : a \in Waiting(h) \/ to[a] # None
  /\ \A d \in Connection : d \in Kept(h) \/ Served(to, d) => d \in Kept(g) \/ Served(out, d) \/ d \in C

LEMMA ServesOnce ==
  ASSUME NEW g, NEW out, NEW C
  PROVE  Serves(g, out, g, out, C)
BY DEF Serves

LEMMA ServesTwice ==
  ASSUME NEW g, NEW out, NEW h, NEW to, NEW i, NEW at, NEW C, NEW D,
         Waiting(g) \subseteq Channel, Serves(g, out, h, to, C), Serves(h, to, i, at, D)
  PROVE  Serves(g, out, i, at, C \cup D)
<1>1. /\ h.live = g.live /\ h.key = g.key
      /\ Waiting(h) \subseteq Waiting(g)
      /\ \A a \in Channel : a \notin Waiting(g) => to[a] = out[a]
      /\ \A a \in Waiting(g) : a \in Waiting(h) \/ to[a] # None
      /\ \A d \in Connection : d \in Kept(h) \/ Served(to, d) => d \in Kept(g) \/ Served(out, d) \/ d \in C
  BY DEF Serves
<1>2. /\ i.live = h.live /\ i.key = h.key
      /\ Waiting(i) \subseteq Waiting(h)
      /\ \A a \in Channel : a \notin Waiting(h) => at[a] = to[a]
      /\ \A a \in Waiting(h) : a \in Waiting(i) \/ at[a] # None
      /\ \A d \in Connection : d \in Kept(i) \/ Served(at, d) => d \in Kept(h) \/ Served(to, d) \/ d \in D
  BY DEF Serves
<1>3. ASSUME NEW a \in Waiting(g), a \notin Waiting(i) PROVE at[a] # None
  BY <1>1, <1>2, <1>3
<1>. QED BY <1>1, <1>2, <1>3 DEF Serves

(* The first of a list that passes.                                         *)
LEMMA Selected ==
  ASSUME NEW S, NEW seq \in Seq(S), NEW I, I \subseteq 1 .. Len(seq),
         NEW i, i = IF I # {} THEN Min(I) ELSE 0
  PROVE  /\ i = 0 => I = {}
         /\ i # 0 => i \in I /\ i \in DOMAIN seq
         /\ I # {} => i # 0
<1>1. I \in SUBSET Nat /\ 0 \notin I /\ DOMAIN seq = 1 .. Len(seq) OBVIOUS
<1>2. I # {} => i \in I /\ i # 0
  <2>1. ASSUME I # {} PROVE i \in I BY <1>1, <2>1, MinIs
  <2>. QED BY <1>1, <2>1
<1>. QED BY <1>1, <1>2

(* The socket stays in the group, or goes to its i-th channel.              *)
StaysIn(g, out, c) ==
  /\ \A a \in Waiting(g) : ~Match(a, c)
  /\ AddSocket(<<g, out>>, c) = <<[g EXCEPT !.sockets = Append(g.sockets, c)], out>>

GoesTo(g, out, c, i) ==
  /\ Match(g.channels[i], c)
  /\ AddSocket(<<g, out>>, c) =
       <<[g EXCEPT !.channels = RemoveAt(g.channels, i)], [out EXCEPT ![g.channels[i]] = Socket(c)]>>

LEMMA AddSocketIs ==
  ASSUME NEW s, NEW g \in Group(s), NEW out, NEW c
  PROVE  StaysIn(g, out, c) \/ \E i \in DOMAIN g.channels : GoesTo(g, out, c, i)
<1>. DEFINE I == {k \in 1 .. Len(g.channels) : Match(g.channels[k], c)}
            i == IF I # {} THEN Min(I) ELSE 0
            b == AddSocket(<<g, out>>, c)
<1>1. IF i = 0 THEN b = <<[g EXCEPT !.sockets = Append(g.sockets, c)], out>>
      ELSE b = <<[g EXCEPT !.channels = RemoveAt(g.channels, i)], [out EXCEPT ![g.channels[i]] = Socket(c)]>>
  BY DEF AddSocket, SelectInSeq, Socket
<1>2. g.channels \in Seq(ChannelsOf(s)) BY GroupIs
<1>3. /\ i = 0 => I = {}
      /\ i # 0 => i \in I /\ i \in DOMAIN g.channels
  <2>1. I \subseteq 1 .. Len(g.channels) OBVIOUS
  <2>2. i = IF I # {} THEN Min(I) ELSE 0 OBVIOUS
  <2>. HIDE DEF I, i
  <2>. QED BY <1>2, <2>1, <2>2, Selected
<1>4. CASE i = 0
  <2>1. \A a \in Waiting(g) : ~Match(a, c)
    <3>1. DOMAIN g.channels = 1 .. Len(g.channels) BY <1>2
    <3>2. I = {} BY <1>3, <1>4
    <3>. QED BY <3>1, <3>2 DEF Waiting, ToSet
  <2>2. b = <<[g EXCEPT !.sockets = Append(g.sockets, c)], out>> BY <1>1, <1>4
  <2>. HIDE DEF I, i, b
  <2>. QED BY <2>1, <2>2 DEF b, StaysIn
<1>5. CASE i # 0
  <2>1. Match(g.channels[i], c) BY <1>3, <1>5
  <2>2. b = <<[g EXCEPT !.channels = RemoveAt(g.channels, i)], [out EXCEPT ![g.channels[i]] = Socket(c)]>>
    BY <1>1, <1>5
  <2>. HIDE DEF I, i, b
  <2>. QED BY <1>3, <1>5, <2>1, <2>2 DEF b, GoesTo
<1>. QED BY <1>4, <1>5

LEMMA AddSocketFits ==
  ASSUME work \in Cases, NEW s \in Used, NEW g, NEW out, Fits(s, g, out), OutcomesOK(out),
         NEW c \in Connection, Remote(c) = g.key, ~Served(out, c), c \notin Kept(g),
         NEW h, NEW to, h = AddSocket(<<g, out>>, c)[1], to = AddSocket(<<g, out>>, c)[2]
  PROVE  /\ Fits(s, h, to) /\ OutcomesOK(to) /\ Serves(g, out, h, to, {c})
         /\ AddSocket(<<g, out>>, c) = <<h, to>>
<1>1. /\ g \in Group(s) /\ IsInjective(g.channels) /\ IsInjective(g.sockets)
      /\ g.key # None => g.key[1] = work.name[s]
      /\ \A ch \in Waiting(g) : out[ch] = None
      /\ \A d \in Kept(g) : Remote(d) = g.key /\ ~Served(out, d)
      /\ \A ch \in Waiting(g) : \A d \in Kept(g) : ~Match(ch, d)
      /\ \A ch \in ChannelsOf(s) : \A d \in Connection : out[ch] = Socket(d) => Remote(d) = g.key
  BY DEF Fits
<1>2. /\ g.channels \in Seq(ChannelsOf(s)) /\ g.sockets \in Seq(Connection)
      /\ Waiting(g) \subseteq ChannelsOf(s) /\ Kept(g) \subseteq Connection
      /\ ChannelsOf(s) \subseteq Channel
  BY <1>1, GroupIs
<1>3. StaysIn(g, out, c) \/ \E i \in DOMAIN g.channels : GoesTo(g, out, c, i)
  BY <1>1, AddSocketIs
<1>4. ASSUME StaysIn(g, out, c)
      PROVE  Fits(s, h, to) /\ OutcomesOK(to) /\ Serves(g, out, h, to, {c}) /\ AddSocket(<<g, out>>, c) = <<h, to>>
  <2>. DEFINE q == Append(g.sockets, c)
  <2>1. q \in Seq(Connection) /\ ToSet(q) = Kept(g) \cup {c} /\ IsInjective(q)
    BY <1>1, <1>2, Appended DEF Kept
  <2>0. h = [g EXCEPT !.sockets = q] /\ to = out /\ AddSocket(<<g, out>>, c) = <<h, to>> BY <1>4 DEF StaysIn
  <2>. HIDE DEF q
  <2>2. h \in Group(s) /\ h.channels = g.channels /\ h.sockets = q /\ h.live = g.live /\ h.key = g.key
    BY <1>1, <2>0, <2>1 DEF Group
  <2>3. Waiting(h) = Waiting(g) /\ Kept(h) = Kept(g) \cup {c} BY <2>1, <2>2 DEF Waiting, Kept
  <2>4. Fits(s, h, to) BY <1>1, <1>4, <2>0, <2>1, <2>2, <2>3 DEF Fits, StaysIn
  <2>5. Serves(g, out, h, to, {c}) BY <2>0, <2>2, <2>3 DEF Serves
  <2>. QED BY <2>0, <2>4, <2>5
<1>5. ASSUME NEW i \in DOMAIN g.channels, GoesTo(g, out, c, i)
      PROVE  Fits(s, h, to) /\ OutcomesOK(to) /\ Serves(g, out, h, to, {c}) /\ AddSocket(<<g, out>>, c) = <<h, to>>
  <2>. DEFINE q == RemoveAt(g.channels, i)
              ch == g.channels[i]
  <2>1. q \in Seq(ChannelsOf(s)) /\ ToSet(q) = Waiting(g) \ {ch} /\ IsInjective(q)
    BY <1>1, <1>2, DroppedOne DEF Waiting
  <2>2. ch \in Waiting(g) /\ ch \in Channel /\ ch[1] = s
    <3>1. ch \in Waiting(g) BY DEF Waiting, ToSet
    <3>. QED BY <1>2, <3>1 DEF ChannelsOf
  <2>0. /\ h = [g EXCEPT !.channels = q] /\ AddSocket(<<g, out>>, c) = <<h, to>>
        /\ Match(ch, c) /\ to = [out EXCEPT ![ch] = Socket(c)]
    BY <1>5 DEF GoesTo
  <2>. HIDE DEF q, ch
  <2>3. h \in Group(s) /\ h.channels = q /\ h.sockets = g.sockets /\ h.live = g.live /\ h.key = g.key
    BY <1>1, <2>0, <2>1 DEF Group
  <2>4. Waiting(h) = Waiting(g) \ {ch} /\ Kept(h) = Kept(g) BY <2>1, <2>3 DEF Waiting, Kept
  <2>6. Remote(c)[1] = work.name[ch[1]] BY <1>1, <2>2, RemoteIs
  <2>7. /\ OutcomesOK(to)
        /\ to[ch] = Socket(c) /\ \A a \in Channel : a # ch => to[a] = out[a]
        /\ \A d \in Connection : Served(to, d) => Served(out, d) \/ d = c
        /\ \A a \in ChannelsOf(s) : \A d \in Connection : to[a] = Socket(d) => Remote(d) = Remote(c)
    BY <1>1, <2>0, <2>2, <2>6, Serving
  <2>8. Fits(s, h, to)
    <3>1. \A a \in Waiting(h) : to[a] = None BY <1>1, <1>2, <2>4, <2>7
    <3>2. \A d \in Kept(h) : Remote(d) = h.key /\ ~Served(to, d) BY <1>1, <1>2, <2>3, <2>4, <2>7
    <3>3. \A a \in Waiting(h) : \A d \in Kept(h) : ~Match(a, d) BY <1>1, <2>4
    <3>4. \A a \in ChannelsOf(s) : \A d \in Connection : to[a] = Socket(d) => Remote(d) = h.key
      BY <2>3, <2>7
    <3>. QED BY <1>1, <2>1, <2>3, <3>1, <3>2, <3>3, <3>4 DEF Fits
  <2>9. Serves(g, out, h, to, {c})
    <3>1. to[ch] # None BY <2>7, OutcomesDiffer
    <3>. QED BY <2>2, <2>3, <2>4, <2>7, <3>1 DEF Serves
  <2>. QED BY <2>0, <2>7, <2>8, <2>9
<1>. QED BY <1>3, <1>4, <1>5

(* A channel comes to a group.                                              *)
Joins(ch, g, out, h, to) ==
  /\ h.live = g.live /\ h.key = g.key
  /\ Waiting(h) \subseteq Waiting(g) \cup {ch} /\ Waiting(g) \subseteq Waiting(h)
  /\ \A a \in Channel : a # ch => to[a] = out[a]
  /\ ch \in Waiting(h) \/ to[ch] # None
  /\ \A d \in Connection : d \in Kept(h) \/ Served(to, d) => d \in Kept(g) \/ Served(out, d)
  /\ Kept(g) = {} => to = out /\ ch \in Waiting(h)

(* The channel waits in the group, or gets its i-th socket.                 *)
WaitsIn(g, out, ch) ==
  /\ \A c \in Kept(g) : ~Match(ch, c)
  /\ AddChannel(<<g, out>>, ch) = <<[g EXCEPT !.channels = Append(g.channels, ch)], out>>

Gets(g, out, ch, i) ==
  /\ Match(ch, g.sockets[i])
  /\ AddChannel(<<g, out>>, ch) =
       <<[g EXCEPT !.sockets = RemoveAt(g.sockets, i)], [out EXCEPT ![ch] = Socket(g.sockets[i])]>>

LEMMA AddChannelIs ==
  ASSUME NEW s, NEW g \in Group(s), NEW out, NEW ch
  PROVE  WaitsIn(g, out, ch) \/ \E i \in DOMAIN g.sockets : Gets(g, out, ch, i)
<1>. DEFINE I == {k \in 1 .. Len(g.sockets) : Match(ch, g.sockets[k])}
            i == IF I # {} THEN Min(I) ELSE 0
            b == AddChannel(<<g, out>>, ch)
<1>1. IF i = 0 THEN b = <<[g EXCEPT !.channels = Append(g.channels, ch)], out>>
      ELSE b = <<[g EXCEPT !.sockets = RemoveAt(g.sockets, i)], [out EXCEPT ![ch] = Socket(g.sockets[i])]>>
  BY DEF AddChannel, SelectInSeq, Socket
<1>2. g.sockets \in Seq(Connection) BY GroupIs
<1>3. /\ i = 0 => I = {}
      /\ i # 0 => i \in I /\ i \in DOMAIN g.sockets
  <2>1. I \subseteq 1 .. Len(g.sockets) OBVIOUS
  <2>2. i = IF I # {} THEN Min(I) ELSE 0 OBVIOUS
  <2>. HIDE DEF I, i
  <2>. QED BY <1>2, <2>1, <2>2, Selected
<1>4. CASE i = 0
  <2>1. \A c \in Kept(g) : ~Match(ch, c)
    <3>1. DOMAIN g.sockets = 1 .. Len(g.sockets) BY <1>2
    <3>2. I = {} BY <1>3, <1>4
    <3>. QED BY <3>1, <3>2 DEF Kept, ToSet
  <2>2. b = <<[g EXCEPT !.channels = Append(g.channels, ch)], out>> BY <1>1, <1>4
  <2>. HIDE DEF I, i, b
  <2>. QED BY <2>1, <2>2 DEF b, WaitsIn
<1>5. CASE i # 0
  <2>1. Match(ch, g.sockets[i]) BY <1>3, <1>5
  <2>2. b = <<[g EXCEPT !.sockets = RemoveAt(g.sockets, i)], [out EXCEPT ![ch] = Socket(g.sockets[i])]>>
    BY <1>1, <1>5
  <2>. HIDE DEF I, i, b
  <2>. QED BY <1>3, <1>5, <2>1, <2>2 DEF b, Gets
<1>. QED BY <1>4, <1>5

LEMMA AddChannelFits ==
  ASSUME work \in Cases, NEW s \in Used, NEW g, NEW out, Fits(s, g, out), OutcomesOK(out),
         NEW ch \in ChannelsOf(s), out[ch] = None, ch \notin Waiting(g),
         NEW h, NEW to, h = AddChannel(<<g, out>>, ch)[1], to = AddChannel(<<g, out>>, ch)[2]
  PROVE  /\ Fits(s, h, to) /\ OutcomesOK(to) /\ Joins(ch, g, out, h, to)
         /\ AddChannel(<<g, out>>, ch) = <<h, to>>
<1>1. /\ g \in Group(s) /\ IsInjective(g.channels) /\ IsInjective(g.sockets)
      /\ g.key # None => g.key[1] = work.name[s]
      /\ \A a \in Waiting(g) : out[a] = None
      /\ \A d \in Kept(g) : Remote(d) = g.key /\ ~Served(out, d)
      /\ \A a \in Waiting(g) : \A d \in Kept(g) : ~Match(a, d)
      /\ \A a \in ChannelsOf(s) : \A d \in Connection : out[a] = Socket(d) => Remote(d) = g.key
  BY DEF Fits
<1>2. /\ g.channels \in Seq(ChannelsOf(s)) /\ g.sockets \in Seq(Connection)
      /\ Waiting(g) \subseteq ChannelsOf(s) /\ Kept(g) \subseteq Connection
      /\ ChannelsOf(s) \subseteq Channel /\ ch[1] = s
  BY <1>1, GroupIs DEF ChannelsOf
<1>3. WaitsIn(g, out, ch) \/ \E i \in DOMAIN g.sockets : Gets(g, out, ch, i)
  BY <1>1, AddChannelIs
<1>4. ASSUME WaitsIn(g, out, ch)
      PROVE  Fits(s, h, to) /\ OutcomesOK(to) /\ Joins(ch, g, out, h, to) /\ AddChannel(<<g, out>>, ch) = <<h, to>>
  <2>. DEFINE q == Append(g.channels, ch)
  <2>1. q \in Seq(ChannelsOf(s)) /\ ToSet(q) = Waiting(g) \cup {ch} /\ IsInjective(q)
    BY <1>1, <1>2, Appended DEF Waiting
  <2>2. h = [g EXCEPT !.channels = q] /\ to = out BY <1>4 DEF WaitsIn
  <2>. HIDE DEF q
  <2>3. h \in Group(s) /\ h.channels = q /\ h.sockets = g.sockets /\ h.live = g.live /\ h.key = g.key
    BY <1>1, <2>1, <2>2 DEF Group
  <2>4. Waiting(h) = Waiting(g) \cup {ch} /\ Kept(h) = Kept(g) BY <2>1, <2>3 DEF Waiting, Kept
  <2>5. Fits(s, h, to) BY <1>1, <1>4, <2>1, <2>2, <2>3, <2>4, ZenonT(30) DEF Fits, WaitsIn
  <2>6. Joins(ch, g, out, h, to) BY <2>2, <2>3, <2>4 DEF Joins
  <2>7. AddChannel(<<g, out>>, ch) = <<h, to>> BY <1>4, <2>2 DEF q, WaitsIn
  <2>. QED BY <2>2, <2>5, <2>6, <2>7
<1>5. ASSUME NEW i \in DOMAIN g.sockets, Gets(g, out, ch, i)
      PROVE  Fits(s, h, to) /\ OutcomesOK(to) /\ Joins(ch, g, out, h, to) /\ AddChannel(<<g, out>>, ch) = <<h, to>>
  <2>. DEFINE q == RemoveAt(g.sockets, i)
              c == g.sockets[i]
  <2>1. q \in Seq(Connection) /\ ToSet(q) = Kept(g) \ {c} /\ IsInjective(q)
    BY <1>1, <1>2, DroppedOne DEF Kept
  <2>2. c \in Kept(g) /\ c \in Connection
    <3>1. c \in Kept(g) BY DEF Kept, ToSet
    <3>. QED BY <1>2, <3>1
  <2>3. h = [g EXCEPT !.sockets = q] /\ Match(ch, c) /\ to = [out EXCEPT ![ch] = Socket(c)] BY <1>5 DEF Gets
  <2>4. AddChannel(<<g, out>>, ch) = <<h, to>> BY <1>5, <2>3 DEF Gets
  <2>. HIDE DEF q, c
  <2>5. h \in Group(s) /\ h.channels = g.channels /\ h.sockets = q /\ h.live = g.live /\ h.key = g.key
    BY <1>1, <2>1, <2>3 DEF Group
  <2>6. Waiting(h) = Waiting(g) /\ Kept(h) = Kept(g) \ {c} BY <2>1, <2>5 DEF Waiting, Kept
  <2>7. Remote(c) = g.key /\ ~Served(out, c) /\ Remote(c)[1] = work.name[ch[1]] BY <1>1, <1>2, <2>2, RemoteIs
  <2>8. /\ OutcomesOK(to)
        /\ to[ch] = Socket(c) /\ \A a \in Channel : a # ch => to[a] = out[a]
        /\ \A d \in Connection : Served(to, d) => Served(out, d) \/ d = c
        /\ \A a \in ChannelsOf(s) : \A d \in Connection : to[a] = Socket(d) => Remote(d) = Remote(c)
    <3>1. \A a \in ChannelsOf(ch[1]) : \A d \in Connection : out[a] = Socket(d) => Remote(d) = Remote(c)
      BY <1>1, <1>2, <2>7
    <3>2. ch \in Channel BY <1>2
    <3>3. to = [out EXCEPT ![ch] = Socket(c)] /\ Match(ch, c) BY <2>3
    <3>4. /\ OutcomesOK(to)
          /\ to[ch] = Socket(c) /\ \A a \in Channel : a # ch => to[a] = out[a]
          /\ \A d \in Connection : Served(to, d) => Served(out, d) \/ d = c
          /\ \A a \in ChannelsOf(ch[1]) : \A d \in Connection : to[a] = Socket(d) => Remote(d) = Remote(c)
      BY <2>2, <2>7, <3>1, <3>2, <3>3, Serving
    <3>. QED BY <1>2, <3>4
  <2>9. Fits(s, h, to)
    <3>1. \A a \in Waiting(h) : to[a] = None BY <1>1, <1>2, <2>6, <2>8
    <3>2. \A d \in Kept(h) : Remote(d) = h.key /\ ~Served(to, d) BY <1>1, <1>2, <2>5, <2>6, <2>8
    <3>3. \A a \in Waiting(h) : \A d \in Kept(h) : ~Match(a, d) BY <1>1, <2>6
    <3>4. \A a \in ChannelsOf(s) : \A d \in Connection : to[a] = Socket(d) => Remote(d) = h.key
      BY <2>5, <2>7, <2>8
    <3>. QED BY <1>1, <2>1, <2>5, <3>1, <3>2, <3>3, <3>4 DEF Fits
  <2>10. Joins(ch, g, out, h, to)
    <3>1. to[ch] # None BY <2>8, OutcomesDiffer
    <3>. QED BY <2>2, <2>5, <2>6, <2>8, <3>1 DEF Joins
  <2>. QED BY <2>4, <2>8, <2>9, <2>10
<1>. QED BY <1>3, <1>4, <1>5

LEMMA AddSocketTyped ==
  ASSUME NEW s, NEW p \in Group(s) \X [Channel -> Outcomes], NEW c \in Connection
  PROVE  AddSocket(p, c) \in Group(s) \X [Channel -> Outcomes]
<1>. DEFINE g == p[1]
            out == p[2]
<1>1. p = <<g, out>> /\ g \in Group(s) /\ out \in [Channel -> Outcomes] OBVIOUS
<1>2. g.channels \in Seq(ChannelsOf(s)) /\ g.sockets \in Seq(Connection) /\ ChannelsOf(s) \subseteq Channel
  BY <1>1, GroupIs
<1>. HIDE DEF g, out
<1>3. CASE StaysIn(g, out, c)
  <2>1. Append(g.sockets, c) \in Seq(Connection) BY <1>2
  <2>2. [g EXCEPT !.sockets = Append(g.sockets, c)] \in Group(s) BY <1>1, <2>1 DEF Group
  <2>. QED BY <1>1, <1>3, <2>2 DEF StaysIn
<1>4. ASSUME NEW i \in DOMAIN g.channels, GoesTo(g, out, c, i)
      PROVE  AddSocket(p, c) \in Group(s) \X [Channel -> Outcomes]
  <2>. DEFINE q == RemoveAt(g.channels, i)
              to == [out EXCEPT ![g.channels[i]] = Socket(c)]
  <2>1. q \in Seq(ChannelsOf(s)) BY <1>2, RemovedAt
  <2>2. to \in [Channel -> Outcomes] BY <1>1, OutcomesDiffer
  <2>3. AddSocket(p, c) = <<[g EXCEPT !.channels = q], to>> BY <1>1, <1>4 DEF GoesTo
  <2>. HIDE DEF q, to
  <2>4. [g EXCEPT !.channels = q] \in Group(s) BY <1>1, <2>1 DEF Group
  <2>. QED BY <2>2, <2>3, <2>4
<1>. QED BY <1>1, <1>3, <1>4, AddSocketIs

(* The sockets of a list come one after the other.                          *)
LEMMA AddSocketsIs ==
  ASSUME NEW s, NEW p \in Group(s) \X [Channel -> Outcomes], NEW q \in Seq(Connection)
  PROVE  \E f \in [0 .. Len(q) -> Group(s) \X [Channel -> Outcomes]] :
           /\ f[0] = p /\ \A k \in 1 .. Len(q) : f[k] = AddSocket(f[k - 1], q[k])
           /\ AddSockets(p, q) = f[Len(q)]
<1>. DEFINE n == Len(q)
            Body(g) == [k \in 0 .. n |-> IF k = 0 THEN p ELSE AddSocket(g[k - 1], q[k])]
            f == CHOOSE g : g = Body(g)
            SS == Group(s) \X [Channel -> Outcomes]
            step == [x \in SS \X Nat |-> IF x[2] \in 1 .. n THEN AddSocket(x[1], q[x[2]]) ELSE x[1]]
<1>1. n \in Nat /\ \A k \in 1 .. n : q[k] \in Connection OBVIOUS
<1>2. AddSockets(p, q) = f[n] BY DEF AddSockets
<1>3. step \in [SS \X Nat -> SS] /\ p \in SS
  <2>1. ASSUME NEW x \in SS, NEW k \in 1 .. n PROVE AddSocket(x, q[k]) \in SS
    BY <1>1, AddSocketTyped
  <2>. HIDE DEF SS, n
  <2>2. ASSUME NEW x \in SS \X Nat
        PROVE  (IF x[2] \in 1 .. n THEN AddSocket(x[1], q[x[2]]) ELSE x[1]) \in SS
    <3>1. x[1] \in SS OBVIOUS
    <3>. QED BY <2>1, <3>1
  <2>3. step \in [SS \X Nat -> SS] BY <2>2
  <2>. QED BY <2>3 DEF SS
<1>4. PICK g \in [0 .. n -> SS] : g[0] = p /\ \A k \in 1 .. n : g[k] = step[<<g[k - 1], k>>]
  <2>. HIDE DEF step, n, SS
  <2>1. Iterations(SS, p, step, n) # {} BY <1>1, <1>3, RecursionExists
  <2>. QED BY <2>1 DEF Iterations
<1>5. \A k \in 1 .. n : g[k] = AddSocket(g[k - 1], q[k])
  <2>. SUFFICES ASSUME NEW k \in 1 .. n PROVE g[k] = AddSocket(g[k - 1], q[k]) OBVIOUS
  <2>1. k \in Nat /\ k - 1 \in 0 .. n BY <1>1
  <2>. HIDE DEF SS, n
  <2>2. g[k - 1] \in SS BY <1>4, <2>1
  <2>3. step[<<g[k - 1], k>>] = AddSocket(g[k - 1], q[k]) BY <2>1, <2>2
  <2>. HIDE DEF step
  <2>. QED BY <1>4, <2>3
<1>6. g = Body(g)
  <2>1. \A k \in 0 .. n : k # 0 => k \in 1 .. n BY <1>1
  <2>. HIDE DEF n, SS, step
  <2>2. \A k \in 0 .. n : g[k] = IF k = 0 THEN p ELSE AddSocket(g[k - 1], q[k]) BY <1>4, <1>5, <2>1
  <2>. QED BY <1>4, <2>2
<1>7. f = Body(f)
  <2>. HIDE DEF Body
  <2>. QED BY <1>6
<1>8. f = g
  <2>. DEFINE T == {k \in Nat : k \in 0 .. n => f[k] = g[k]}
  <2>. HIDE DEF f, SS, step, n
  <2>1. /\ DOMAIN f = 0 .. n /\ f[0] = p
        /\ \A k \in 1 .. n : f[k] = AddSocket(f[k - 1], q[k])
        /\ f = [k \in DOMAIN f |-> f[k]]
    BY <1>1, <1>7, SMTT(20)
  <2>2. 0 \in T BY <1>4, <2>1
  <2>3. ASSUME NEW k \in Nat, k \in T PROVE k + 1 \in T
    <3>1. SUFFICES ASSUME k + 1 \in 0 .. n PROVE f[k + 1] = g[k + 1] OBVIOUS
    <3>2. k \in 0 .. n /\ k + 1 \in 1 .. n /\ (k + 1) - 1 = k BY <1>1, <3>1
    <3>3. f[k] = g[k] BY <2>3, <3>2
    <3>4. f[k + 1] = AddSocket(f[k], q[k + 1]) BY <2>1, <3>2
    <3>5. g[k + 1] = AddSocket(g[k], q[k + 1]) BY <1>5, <3>2
    <3>. QED BY <3>3, <3>4, <3>5
  <2>. HIDE DEF T
  <2>4. Nat \subseteq T BY <2>2, <2>3, SetInduction
  <2>5. \A k \in 0 .. n : f[k] = g[k] BY <1>1, <2>4 DEF T
  <2>. QED BY <1>4, <2>1, <2>5
<1>. HIDE DEF f, Body, step
<1>9. g \in [0 .. Len(q) -> Group(s) \X [Channel -> Outcomes]] OBVIOUS
<1>. QED BY <1>2, <1>4, <1>5, <1>8, <1>9

LEMMA AddSocketsFits ==
  ASSUME work \in Cases, NEW s \in Used, NEW g, NEW out, Fits(s, g, out), OutcomesOK(out),
         NEW q \in Seq(Connection), IsInjective(q),
         \A c \in ToSet(q) : Remote(c) = g.key /\ ~Served(out, c) /\ c \notin Kept(g),
         NEW h, NEW to, h = AddSockets(<<g, out>>, q)[1], to = AddSockets(<<g, out>>, q)[2]
  PROVE  Fits(s, h, to) /\ OutcomesOK(to) /\ Serves(g, out, h, to, ToSet(q))
<1>. DEFINE n == Len(q)
            Came(k) == {q[j] : j \in 1 .. k}
<1>1. g \in Group(s) /\ out \in [Channel -> Outcomes] /\ Waiting(g) \subseteq Channel
  BY GroupIs DEF Fits, OutcomesOK
<1>2. PICK f \in [0 .. n -> Group(s) \X [Channel -> Outcomes]] :
        /\ f[0] = <<g, out>> /\ \A k \in 1 .. n : f[k] = AddSocket(f[k - 1], q[k])
        /\ AddSockets(<<g, out>>, q) = f[n]
  BY <1>1, AddSocketsIs
<1>3. n \in Nat /\ DOMAIN q = 1 .. n /\ (\A k \in 1 .. n : q[k] \in Connection /\ q[k] \in ToSet(q))
  BY DEF ToSet
<1>. DEFINE Good(k) == /\ Fits(s, f[k][1], f[k][2]) /\ OutcomesOK(f[k][2])
                       /\ Serves(g, out, f[k][1], f[k][2], Came(k))
            T == {k \in Nat : k \in 0 .. n => Good(k)}
<1>4. 0 \in T
  <2>1. f[0][1] = g /\ f[0][2] = out BY <1>2
  <2>2. Serves(g, out, g, out, Came(0)) BY ServesOnce
  <2>. QED BY <2>1, <2>2
<1>5. ASSUME NEW k \in Nat, k \in T PROVE k + 1 \in T
  <2>1. SUFFICES ASSUME k + 1 \in 0 .. n PROVE Good(k + 1) OBVIOUS
  <2>2. k \in 0 .. n /\ k + 1 \in 1 .. n /\ (k + 1) - 1 = k BY <1>3, <2>1
  <2>. DEFINE i == f[k][1]
              at == f[k][2]
              c == q[k + 1]
              j == f[k + 1][1]
              ot == f[k + 1][2]
  <2>3. Fits(s, i, at) /\ OutcomesOK(at) /\ Serves(g, out, i, at, Came(k)) BY <1>5, <2>2
  <2>4. f[k] = <<i, at>> /\ f[k + 1] = AddSocket(<<i, at>>, c)
    <3>1. f[k] \in Group(s) \X [Channel -> Outcomes] BY <2>2
    <3>2. f[k] = <<i, at>> BY <3>1
    <3>. QED BY <1>2, <2>2, <3>2
  <2>5. c \in Connection /\ c \in ToSet(q) /\ c \notin Came(k)
    <3>1. ASSUME NEW m \in 1 .. k, q[m] = c PROVE FALSE
      <4>1. m \in 1 .. n /\ m # k + 1 BY <1>3, <2>2
      <4>. QED BY <1>3, <2>2, <3>1, <4>1 DEF IsInjective
    <3>. QED BY <1>3, <2>2, <3>1
  <2>6. Came(k + 1) = Came(k) \cup {c}
    <3>1. \A m \in 1 .. k + 1 : m \in 1 .. k \/ m = k + 1 BY <2>2
    <3>2. k + 1 \in 1 .. k + 1 /\ \A m \in 1 .. k : m \in 1 .. k + 1 BY <2>2
    <3>. QED BY <3>1, <3>2
  <2>7. j = AddSocket(<<i, at>>, c)[1] /\ ot = AddSocket(<<i, at>>, c)[2] BY <2>4
  <2>. HIDE DEF i, at, c, j, ot, Came
  <2>8. Remote(c) = i.key /\ ~Served(at, c) /\ c \notin Kept(i) BY <2>3, <2>5 DEF Serves
  <2>9. Fits(s, j, ot) /\ OutcomesOK(ot) /\ Serves(i, at, j, ot, {c})
    BY <2>3, <2>5, <2>7, <2>8, AddSocketFits
  <2>10. Serves(g, out, j, ot, Came(k) \cup {c}) BY <1>1, <2>3, <2>9, ServesTwice
  <2>. QED BY <2>6, <2>9, <2>10 DEF j, ot
<1>6. n \in T
  <2>. HIDE DEF T
  <2>1. Nat \subseteq T BY <1>4, <1>5, SetInduction
  <2>. QED BY <1>3, <2>1
<1>7. Good(n) BY <1>3, <1>6
<1>8. Came(n) = ToSet(q) BY <1>3 DEF ToSet
<1>. HIDE DEF Came, T
<1>9. h = f[n][1] /\ to = f[n][2] BY <1>2
<1>. QED BY <1>7, <1>8, <1>9

-----------------------------------------------------------------------------
(* The book: all groups, their lists and the outcomes.                      *)

KeyOf(sg) == <<sg.name, sg.id>>
SocketGroup == [name : STRING, id : Numbers, sockets : Seq(Connection)]

(* A session that is paired, and one that can be.                           *)
Identified(s, g, id) ==
  /\ id # 0 => g.key = <<work.name[s], id>>
  /\ g.live /\ id = 0 => g.key = None

ListOK(un, gs) ==
  un \in Seq(Used) /\ IsInjective(un) /\ ToSet(un) = {t \in DOMAIN gs : gs[t].key = None}

(* The sockets of a remote session that is not paired.                      *)
SocketsFit(sg, gs, out) ==
  /\ IsInjective(sg.sockets)
  /\ \A c \in ToSet(sg.sockets) : Remote(c) = KeyOf(sg) /\ ~Served(out, c)
  /\ \A t \in DOMAIN gs : gs[t].key # KeyOf(sg)

OneOfEach(sgs) ==
  /\ sgs \in Seq(SocketGroup)
  /\ \A i, j \in DOMAIN sgs : KeyOf(sgs[i]) = KeyOf(sgs[j]) => i = j

Placed(gs, sgs, out, c) ==
  \/ \E t \in DOMAIN gs : c \in Kept(gs[t])
  \/ \E sg \in ToSet(sgs) : c \in ToSet(sg.sockets)
  \/ Served(out, c)

Book(gs, un, sgs, ids, out, ph) ==
  /\ DOMAIN gs \subseteq Used /\ ids \in [Used -> Nat] /\ OutcomesOK(out)
  /\ \A t \in DOMAIN gs : Fits(t, gs[t], out) /\ Identified(t, gs[t], ids[t])
  /\ \A t, u \in DOMAIN gs : gs[t].key = gs[u].key /\ gs[t].key # None => t = u
  /\ ListOK(un, gs) /\ OneOfEach(sgs)
  /\ \A sg \in ToSet(sgs) : SocketsFit(sg, gs, out)
  /\ \A t \in DOMAIN gs : gs[t].key = None =>
       \A ch \in Waiting(gs[t]) : \A sg \in ToSet(sgs) : ~Offers(sg, ch)
  /\ \A c \in Connection : Placed(gs, sgs, out, c) => ph[c] = "gone"

BookInv == Book(groups, unclaimed, socketGroups, mSessionID, outcome, phase)

LEMMA SocketGroupIs ==
  ASSUME NEW sgs, OneOfEach(sgs), NEW sg \in ToSet(sgs)
  PROVE  /\ sg \in SocketGroup /\ sg.name \in STRING /\ sg.id \in Numbers /\ sg.sockets \in Seq(Connection)
         /\ ToSet(sg.sockets) \subseteq Connection /\ KeyOf(sg) \in Keys /\ KeyOf(sg) # None
<1>1. PICK i \in DOMAIN sgs : sgs[i] = sg BY DEF ToSet
<1>2. sg \in SocketGroup BY <1>1 DEF OneOfEach
<1>3. sg.name \in STRING /\ sg.id \in Numbers /\ sg.sockets \in Seq(Connection) BY <1>2 DEF SocketGroup
<1>4. ToSet(sg.sockets) \subseteq Connection
  <2>. DEFINE q == sg.sockets
  <2>1. q \in Seq(Connection) BY <1>3
  <2>. HIDE DEF q
  <2>2. ToSet(q) \subseteq Connection BY <2>1 DEF ToSet
  <2>. QED BY <2>2 DEF q
<1>5. KeyOf(sg) \in Keys /\ KeyOf(sg) # None BY <1>3 DEF KeyOf, Keys, None
<1>. QED BY <1>2, <1>3, <1>4, <1>5

LEMMA SameBook ==
  ASSUME work' = work, Book(groups', unclaimed', socketGroups', mSessionID', outcome', phase')
  PROVE  BookInv'
<1>1. /\ Connection' = Connection /\ Used' = Used /\ Channel' = Channel
      /\ \A c : Remote(c)' = Remote(c)
      /\ \A ch, c : Match(ch, c)' = Match(ch, c)
      /\ \A sg, ch : Offers(sg, ch)' = Offers(sg, ch)
  BY SameWork
<1>2. Outcomes' = Outcomes BY <1>1 DEF Outcomes
<1>3. \A s : ChannelsOf(s)' = ChannelsOf(s) BY <1>1 DEF ChannelsOf
<1>4. \A s : Group(s)' = Group(s) BY <1>1, <1>3 DEF Group
<1>5. SocketGroup' = SocketGroup BY <1>1 DEF SocketGroup
<1>6. OutcomesOK(outcome') => OutcomesOK(outcome)' BY <1>1, <1>2 DEF OutcomesOK
<1>7. \A c : Served(outcome, c)' <=> Served(outcome', c) BY <1>1 DEF Served
<1>8. ASSUME NEW t \in DOMAIN groups', Fits(t, groups'[t], outcome') PROVE Fits(t, groups[t], outcome)'
  BY <1>1, <1>3, <1>4, <1>7, <1>8 DEF Fits, Waiting, Kept
<1>9. ASSUME NEW t \in DOMAIN groups', Identified(t, groups'[t], mSessionID'[t])
      PROVE  Identified(t, groups[t], mSessionID[t])'
  BY <1>9 DEF Identified
<1>10. ListOK(unclaimed', groups') => ListOK(unclaimed, groups)' BY <1>1 DEF ListOK
<1>11. OneOfEach(socketGroups') => OneOfEach(socketGroups)' BY <1>5 DEF OneOfEach, KeyOf
<1>12. ASSUME NEW sg, SocketsFit(sg, groups', outcome') PROVE SocketsFit(sg, groups, outcome)'
  BY <1>1, <1>7, <1>12 DEF SocketsFit, KeyOf
<1>13. ASSUME NEW c, Placed(groups, socketGroups, outcome, c)' PROVE Placed(groups', socketGroups', outcome', c)
  BY <1>7, <1>13 DEF Placed, Kept
<1>. QED BY <1>1, <1>6, <1>8, <1>9, <1>10, <1>11, <1>12, <1>13 DEF BookInv, Book, Waiting

(* The group of session s becomes h, or goes: sockets C have come to it,    *)
(* the outcomes are to, and the other groups stay.                          *)
Becomes(gs, s, h, gs2) ==
  /\ \A t \in DOMAIN gs2 : t \in DOMAIN gs /\ (t = s => gs2[t] = h) /\ (t # s => gs2[t] = gs[t])
  /\ \A t \in DOMAIN gs : t # s => t \in DOMAIN gs2

(* The other groups keep their outcomes, sockets C are new to group s and   *)
(* of the remote session it is paired with, and nobody else is.             *)
Others(s, out, to) == \A a \in Channel : a[1] # s => to[a] = out[a]

Brings(g, h, out, to, C) ==
  \A d \in Connection : d \in Kept(h) \/ Served(to, d) => d \in Kept(g) \/ Served(out, d) \/ d \in C

AllGone(C, key, ph) == \A c \in C : Remote(c) = key /\ ph[c] = "gone"

StayGone(ph, ph2) == \A c \in Connection : ph[c] = "gone" => ph2[c] = "gone"

Pairs(gs, s, key) ==
  /\ gs[s].key # None => gs[s].key = key
  /\ key # None => \A t \in DOMAIN gs : t # s => gs[t].key # key

Without(sgs, key, sgs2) == OneOfEach(sgs2) /\ ToSet(sgs2) = {sg \in ToSet(sgs) : KeyOf(sg) # key}

Identify(s, h, ids, ids2) ==
  /\ ids2 \in [Used -> Nat] /\ \A t \in Used : t # s => ids2[t] = ids[t]
  /\ Identified(s, h, ids2[s])

NoOffers(h, sgs) == h.key = None => \A ch \in Waiting(h) : \A sg \in ToSet(sgs) : ~Offers(sg, ch)

LEMMA BookBecomes ==
  ASSUME work \in Cases,
         NEW gs, NEW un, NEW sgs, NEW ids, NEW out, NEW ph, Book(gs, un, sgs, ids, out, ph),
         NEW s \in DOMAIN gs, NEW h, NEW to, NEW C \in SUBSET Connection,
         NEW gs2, NEW un2, NEW sgs2, NEW ids2, NEW ph2,
         Becomes(gs, s, h, gs2), Fits(s, h, to), OutcomesOK(to),
         Others(s, out, to), Brings(gs[s], h, out, to, C), AllGone(C, h.key, ph2), StayGone(ph, ph2),
         Pairs(gs, s, h.key), ListOK(un2, gs2), Without(sgs, h.key, sgs2), Identify(s, h, ids, ids2),
         NoOffers(h, sgs2)
  PROVE  Book(gs2, un2, sgs2, ids2, to, ph2)
<1>1. /\ DOMAIN gs \subseteq Used /\ OutcomesOK(out)
      /\ \A t \in DOMAIN gs : Fits(t, gs[t], out) /\ Identified(t, gs[t], ids[t])
      /\ \A t, u \in DOMAIN gs : gs[t].key = gs[u].key /\ gs[t].key # None => t = u
      /\ OneOfEach(sgs)
      /\ \A sg \in ToSet(sgs) : SocketsFit(sg, gs, out)
      /\ \A t \in DOMAIN gs : gs[t].key = None =>
           \A ch \in Waiting(gs[t]) : \A sg \in ToSet(sgs) : ~Offers(sg, ch)
      /\ \A c \in Connection : Placed(gs, sgs, out, c) => ph[c] = "gone"
  BY DEF Book
<1>2. /\ \A t \in DOMAIN gs2 : t \in DOMAIN gs /\ (t = s => gs2[t] = h) /\ (t # s => gs2[t] = gs[t])
      /\ DOMAIN gs2 \subseteq DOMAIN gs
  BY DEF Becomes
<1>3. /\ \A a \in Channel : a[1] # s => to[a] = out[a]
      /\ \A d \in Connection : d \in Kept(h) \/ Served(to, d)
                               => d \in Kept(gs[s]) \/ Served(out, d) \/ d \in C
      /\ \A c \in C : Remote(c) = h.key /\ ph2[c] = "gone"
      /\ \A c \in Connection : ph[c] = "gone" => ph2[c] = "gone"
      /\ gs[s].key # None => gs[s].key = h.key
      /\ h.key # None => \A t \in DOMAIN gs : t # s => gs[t].key # h.key
      /\ OneOfEach(sgs2) /\ ToSet(sgs2) = {sg \in ToSet(sgs) : KeyOf(sg) # h.key}
      /\ ids2 \in [Used -> Nat] /\ (\A t \in Used : t # s => ids2[t] = ids[t]) /\ Identified(s, h, ids2[s])
      /\ h.key = None => \A ch \in Waiting(h) : \A sg \in ToSet(sgs2) : ~Offers(sg, ch)
  BY DEF Others, Brings, AllGone, StayGone, Pairs, Without, Identify, NoOffers
<1>4. ASSUME NEW d \in Connection, Served(to, d), ~Served(out, d)
      PROVE  Remote(d) = h.key
  <2>1. CASE d \in Kept(gs[s])
    <3>1. Remote(d) = gs[s].key BY <1>1, <2>1 DEF Fits
    <3>. QED BY <1>3, <3>1, RemoteIs
  <2>. QED BY <1>4, <1>3, <2>1
<1>5. ASSUME NEW t \in DOMAIN gs2, t # s PROVE Fits(t, gs2[t], to) /\ Identified(t, gs2[t], ids2[t])
  <2>. DEFINE g == gs[t]
  <2>1. Fits(t, g, out) /\ Identified(t, g, ids[t]) /\ gs2[t] = g /\ ids2[t] = ids[t]
    BY <1>1, <1>2, <1>5, <1>3
  <2>2. g.key # h.key \/ g.key = None BY <1>2, <1>5, <1>3
  <2>. HIDE DEF g
  <2>3. g \in Group(t) BY <2>1 DEF Fits
  <2>4. /\ Waiting(g) \subseteq ChannelsOf(t) /\ Kept(g) \subseteq Connection /\ ChannelsOf(t) \subseteq Channel
    BY <2>3, GroupIs
  <2>5. \A a \in ChannelsOf(t) : to[a] = out[a] BY <1>5, <1>3, <2>4 DEF ChannelsOf
  <2>6. ASSUME NEW c \in Kept(g) PROVE ~Served(to, c)
    <3>1. Remote(c) = g.key /\ ~Served(out, c) /\ c \in Connection BY <2>1, <2>4 DEF Fits
    <3>2. Remote(c) # h.key BY <2>2, <3>1, RemoteIs
    <3>. QED BY <1>4, <3>1, <3>2
  <2>7. Fits(t, g, to) BY <2>1, <2>4, <2>5, <2>6 DEF Fits
  <2>. QED BY <2>1, <2>7
<1>6. ASSUME NEW t \in DOMAIN gs2 PROVE Fits(t, gs2[t], to) /\ Identified(t, gs2[t], ids2[t])
  BY <1>2, <1>5, <1>6, <1>3
<1>7. ASSUME NEW t \in DOMAIN gs2, NEW u \in DOMAIN gs2, gs2[t].key = gs2[u].key, gs2[t].key # None
      PROVE  t = u
  <2>1. CASE t = s BY <1>2, <1>7, <1>3, <2>1
  <2>2. CASE u = s BY <1>2, <1>7, <1>3, <2>2
  <2>3. CASE t # s /\ u # s BY <1>1, <1>2, <1>7, <2>3
  <2>. QED BY <2>1, <2>2, <2>3
<1>8. ASSUME NEW sg \in ToSet(sgs2) PROVE SocketsFit(sg, gs2, to)
  <2>1. sg \in ToSet(sgs) /\ KeyOf(sg) # h.key /\ SocketsFit(sg, gs, out) BY <1>1, <1>8, <1>3
  <2>2. ToSet(sg.sockets) \subseteq Connection BY <1>1, <2>1, SocketGroupIs
  <2>3. \A c \in ToSet(sg.sockets) : Remote(c) = KeyOf(sg) /\ ~Served(to, c)
    BY <1>4, <2>1, <2>2 DEF SocketsFit
  <2>4. \A t \in DOMAIN gs2 : gs2[t].key # KeyOf(sg) BY <1>2, <1>3, <2>1 DEF SocketsFit
  <2>. QED BY <2>1, <2>3, <2>4 DEF SocketsFit
<1>9. ASSUME NEW t \in DOMAIN gs2, gs2[t].key = None, NEW ch \in Waiting(gs2[t]), NEW sg \in ToSet(sgs2)
      PROVE  ~Offers(sg, ch)
  <2>1. CASE t = s BY <1>2, <1>9, <1>3, <2>1
  <2>2. CASE t # s BY <1>1, <1>2, <1>9, <1>3, <2>2
  <2>. QED BY <2>1, <2>2
<1>10. ASSUME NEW c \in Connection, Placed(gs2, sgs2, to, c) PROVE ph2[c] = "gone"
  <2>1. Placed(gs, sgs, out, c) \/ c \in C
    <3>1. ASSUME NEW t \in DOMAIN gs2, c \in Kept(gs2[t]) PROVE Placed(gs, sgs, out, c) \/ c \in C
      <4>1. CASE t = s BY <1>2, <1>10, <1>3, <3>1, <4>1 DEF Placed
      <4>2. CASE t # s BY <1>2, <3>1, <4>2 DEF Placed
      <4>. QED BY <4>1, <4>2
    <3>2. ASSUME Served(to, c) PROVE Placed(gs, sgs, out, c) \/ c \in C
      BY <1>10, <1>3, <3>2 DEF Placed
    <3>3. ASSUME NEW sg \in ToSet(sgs2), c \in ToSet(sg.sockets) PROVE Placed(gs, sgs, out, c) \/ c \in C
      BY <1>3, <3>3 DEF Placed
    <3>. QED BY <1>10, <3>1, <3>2, <3>3 DEF Placed
  <2>. QED BY <1>1, <1>10, <1>3, <2>1
<1>. QED BY <1>1, <1>2, <1>3, <1>6, <1>7, <1>8, <1>9, <1>10 DEF Book

(* The list of the groups that are not paired.                              *)
LEMMA ListBecomes ==
  ASSUME NEW gs, NEW un, ListOK(un, gs), NEW s \in DOMAIN gs, NEW h, NEW gs2, Becomes(gs, s, h, gs2),
         gs[s].key # None => gs[s].key = h.key, NEW un2, NEW b \in BOOLEAN, b => s \in DOMAIN gs2,
         s \in DOMAIN gs2 => b,
         b /\ h.key = None => un2 = un, ~(b /\ h.key = None) => un2 = RemoveFirst(un, s)
  PROVE  ListOK(un2, gs2)
<1>1. /\ un \in Seq(Used) /\ IsInjective(un) /\ ToSet(un) = {t \in DOMAIN gs : gs[t].key = None}
      /\ \A t \in DOMAIN gs2 : t \in DOMAIN gs /\ (t = s => gs2[t] = h) /\ (t # s => gs2[t] = gs[t])
      /\ \A t \in DOMAIN gs : t # s => t \in DOMAIN gs2
  BY DEF ListOK, Becomes
<1>2. CASE b /\ h.key = None
  <2>1. {t \in DOMAIN gs2 : gs2[t].key = None} = {t \in DOMAIN gs : gs[t].key = None}
    <3>1. ASSUME NEW t \in DOMAIN gs2, gs2[t].key = None PROVE gs[t].key = None
      BY <1>1, <1>2, <3>1
    <3>2. ASSUME NEW t \in DOMAIN gs, gs[t].key = None PROVE t \in DOMAIN gs2 /\ gs2[t].key = None
      BY <1>1, <1>2, <3>2
    <3>. QED BY <1>1, <3>1, <3>2
  <2>. QED BY <1>1, <1>2, <2>1 DEF ListOK
<1>3. CASE ~(b /\ h.key = None)
  <2>1. /\ un2 \in Seq(Used) /\ ToSet(un2) = ToSet(un) \ {s} /\ IsInjective(un2)
    BY <1>1, <1>3, RemovedFirst
  <2>2. {t \in DOMAIN gs2 : gs2[t].key = None} = {t \in DOMAIN gs : gs[t].key = None} \ {s}
    <3>1. ASSUME NEW t \in DOMAIN gs2, gs2[t].key = None PROVE gs[t].key = None /\ t # s
      BY <1>1, <1>3, <3>1
    <3>2. ASSUME NEW t \in DOMAIN gs, gs[t].key = None, t # s PROVE t \in DOMAIN gs2 /\ gs2[t].key = None
      BY <1>1, <3>2
    <3>. QED BY <1>1, <3>1, <3>2
  <2>. QED BY <1>1, <2>1, <2>2 DEF ListOK
<1>. QED BY <1>2, <1>3

(* What Settle does to the book.                                            *)
LEMMA Settled ==
  ASSUME GroupsOK, ListOK(unclaimed, groups), NEW s \in DOMAIN groups, NEW h, Settle(s, h),
         groups[s].key # None => groups[s].key = h.key
  PROVE  /\ Becomes(groups, s, h, groups') /\ ListOK(unclaimed', groups')
         /\ s \notin DOMAIN groups' <=> ~HasSubscriptions(h)
<1>. DEFINE b == HasSubscriptions(h)
<1>1. groups' = Left(s, h) BY SettleShrinks
<1>2. /\ b => DOMAIN Left(s, h) = DOMAIN groups
      /\ ~b => DOMAIN Left(s, h) = DOMAIN groups \ {s}
      /\ s \in DOMAIN Left(s, h) => Left(s, h)[s] = h
      /\ \A t \in DOMAIN Left(s, h) : t # s => Left(s, h)[t] = groups[t]
  BY WhatIsLeft
<1>3. b \in BOOLEAN BY DEF HasSubscriptions
<1>4. (b /\ h.key = None => unclaimed' = unclaimed) /\ (~(b /\ h.key = None) => unclaimed' = RemoveFirst(unclaimed, s))
  BY DEF Settle
<1>. HIDE DEF b
<1>5. /\ b => DOMAIN groups' = DOMAIN groups
      /\ ~b => DOMAIN groups' = DOMAIN groups \ {s}
      /\ s \in DOMAIN groups' => groups'[s] = h
      /\ \A t \in DOMAIN groups' : t # s => groups'[t] = groups[t]
  BY <1>1, <1>2
<1>6. Becomes(groups, s, h, groups') /\ (b => s \in DOMAIN groups') /\ (s \in DOMAIN groups' => b)
  BY <1>3, <1>5 DEF Becomes
<1>7. ListOK(unclaimed', groups') BY <1>3, <1>4, <1>6, ListBecomes
<1>. QED BY <1>6, <1>7 DEF b

(* The socket groups without the one of a remote session.                   *)
LEMMA DroppedGroup ==
  ASSUME NEW sgs, OneOfEach(sgs), NEW i \in DOMAIN sgs
  PROVE  /\ OneOfEach(RemoveAt(sgs, i))
         /\ ToSet(RemoveAt(sgs, i)) = {sg \in ToSet(sgs) : KeyOf(sg) # KeyOf(sgs[i])}
<1>. DEFINE f == [x \in SocketGroup |-> KeyOf(x)]
            r == RemoveAt(sgs, i)
<1>1. sgs \in Seq(SocketGroup) /\ \A j, k \in DOMAIN sgs : KeyOf(sgs[j]) = KeyOf(sgs[k]) => j = k
  BY DEF OneOfEach
<1>2. \A x \in SocketGroup : f[x] = KeyOf(x) OBVIOUS
<1>. HIDE DEF f
<1>3. \A k \in DOMAIN sgs : sgs[k] \in SocketGroup /\ f[sgs[k]] = KeyOf(sgs[k]) BY <1>1, <1>2
<1>4. \A j, k \in DOMAIN sgs : f[sgs[j]] = f[sgs[k]] => j = k BY <1>1, <1>3
<1>5. /\ r \in Seq(SocketGroup)
      /\ ToSet(r) = {x \in ToSet(sgs) : f[x] # f[sgs[i]]}
      /\ \A j, k \in DOMAIN r : f[r[j]] = f[r[k]] => j = k
  BY <1>1, <1>4, Dropped
<1>. HIDE DEF r
<1>6. \A x \in ToSet(sgs) : f[x] = KeyOf(x) BY <1>3 DEF ToSet
<1>7. ToSet(r) = {x \in ToSet(sgs) : KeyOf(x) # KeyOf(sgs[i])} BY <1>3, <1>5, <1>6
<1>8. \A j \in DOMAIN r : f[r[j]] = KeyOf(r[j]) BY <1>2, <1>5
<1>9. OneOfEach(r) BY <1>5, <1>8 DEF OneOfEach
<1>. QED BY <1>7, <1>9 DEF r

LEMMA RemovedMatch ==
  ASSUME NEW sgs, OneOfEach(sgs), NEW key, NEW r, NEW I, I = {k \in 1 .. Len(sgs) : KeyOf(sgs[k]) = key},
         I # {} => r = RemoveAt(sgs, Min(I)), I = {} => r = sgs
  PROVE  Without(sgs, key, r)
<1>. DEFINE i == Min(I)
<1>1. sgs \in Seq(SocketGroup) BY DEF OneOfEach
<1>4. I \in SUBSET Nat /\ DOMAIN sgs = 1 .. Len(sgs) BY <1>1
<1>5. CASE I # {}
  <2>1. i \in I BY <1>4, <1>5, MinIs
  <2>2. i \in DOMAIN sgs /\ KeyOf(sgs[i]) = key BY <1>4, <2>1
  <2>3. r = RemoveAt(sgs, i) BY <1>5
  <2>. HIDE DEF i
  <2>. QED BY <2>2, <2>3, DroppedGroup DEF Without
<1>6. CASE I = {}
  <2>1. r = sgs BY <1>6
  <2>2. \A k \in DOMAIN sgs : KeyOf(sgs[k]) # key BY <1>4, <1>6
  <2>3. ToSet(sgs) = {sg \in ToSet(sgs) : KeyOf(sg) # key} BY <2>2 DEF ToSet
  <2>. QED BY <2>1, <2>3 DEF Without
<1>. QED BY <1>5, <1>6

(* A group is paired with a remote session, and gets its sockets.           *)
Free(q, key, out) == \A c \in ToSet(q) : Remote(c) = key /\ ~Served(out, c)

(* A group g becomes k by being paired, and h by getting sockets q.         *)
Merged(s, g, out, key, q, k, h, to) ==
  /\ Fits(s, h, to) /\ OutcomesOK(to) /\ h.live = g.live /\ h.key = key /\ k.key = key
  /\ Waiting(h) \subseteq Waiting(g)
  /\ \A a \in Channel : a \notin Waiting(g) => to[a] = out[a]
  /\ \A a \in Waiting(g) : a \in Waiting(h) \/ to[a] # None
  /\ \A d \in Connection : d \in Kept(h) \/ Served(to, d) => Served(out, d) \/ d \in ToSet(q)

LEMMA MergeFits ==
  ASSUME work \in Cases, NEW s \in Used, NEW g, NEW out, Fits(s, g, out), OutcomesOK(out), g.key = None,
         NEW key \in Keys, key[1] = work.name[s], NEW q \in Seq(Connection), IsInjective(q), Free(q, key, out),
         NEW k \in Group(s), k.channels = g.channels, k.sockets = g.sockets, k.live = g.live, k.key = key,
         NEW h, NEW to, h = AddSockets(<<k, out>>, q)[1], to = AddSockets(<<k, out>>, q)[2]
  PROVE  Merged(s, g, out, key, q, k, h, to)
<1>1. /\ Kept(g) = {} /\ g.sockets = <<>>
      /\ \A ch \in ChannelsOf(s) : \A c \in Connection : out[ch] # Socket(c)
  BY UnpairedKeepsNothing
<1>2. /\ g \in Group(s) /\ IsInjective(g.channels) /\ IsInjective(g.sockets)
      /\ \A ch \in Waiting(g) : out[ch] = None
  BY DEF Fits
<1>5. Waiting(k) = Waiting(g) /\ Kept(k) = {} BY <1>1 DEF Waiting, Kept
<1>6. Fits(s, k, out) BY <1>1, <1>2, <1>5 DEF Fits
<1>7. \A c \in ToSet(q) : Remote(c) = k.key /\ ~Served(out, c) /\ c \notin Kept(k) BY <1>5 DEF Free
<1>8. Fits(s, h, to) /\ OutcomesOK(to) /\ Serves(k, out, h, to, ToSet(q))
  BY <1>6, <1>7, AddSocketsFits
<1>. QED BY <1>5, <1>8 DEF Serves, Merged

-----------------------------------------------------------------------------
(* What the threads see of the book: whether a group is alive, and whether  *)
(* a channel is known, as one that waits or one that got something.         *)

Live(s) == s \in DOMAIN groups /\ groups[s].live

Known(ch) == outcome[ch] # None \/ (ch[1] \in DOMAIN groups /\ ch \in Waiting(groups[ch[1]]))

SameGroups == DOMAIN groups' \subseteq DOMAIN groups /\ \A t \in Used : (Live(t))' <=> Live(t)

SameKnown == \A a \in Channel : (Known(a))' <=> Known(a)

LEMMA LiveAfter ==
  ASSUME NEW s \in DOMAIN groups, NEW h, Becomes(groups, s, h, groups'), h.live \in BOOLEAN,
         s \notin DOMAIN groups' <=> ~HasSubscriptions(h)
  PROVE  /\ DOMAIN groups' \subseteq DOMAIN groups
         /\ \A t : t # s => ((Live(t))' <=> Live(t))
         /\ (Live(s))' <=> h.live
<1>1. /\ \A t \in DOMAIN groups' : t \in DOMAIN groups /\ (t = s => groups'[t] = h) /\ (t # s => groups'[t] = groups[t])
      /\ \A t \in DOMAIN groups : t # s => t \in DOMAIN groups'
  BY DEF Becomes
<1>2. s \notin DOMAIN groups' => ~h.live BY DEF HasSubscriptions
<1>3. \A t : t # s => ((Live(t))' <=> Live(t)) BY <1>1 DEF Live
<1>4. (Live(s))' <=> h.live BY <1>1, <1>2 DEF Live
<1>. QED BY <1>1, <1>3, <1>4

LEMMA KnownAfter ==
  ASSUME NEW s \in DOMAIN groups, NEW h, Becomes(groups, s, h, groups'),
         s \notin DOMAIN groups' <=> ~HasSubscriptions(h),
         \A a \in Channel : a[1] # s => outcome'[a] = outcome[a]
  PROVE  \A a \in Channel :
           /\ a[1] # s => ((Known(a))' <=> Known(a))
           /\ a[1] = s => ((Known(a))' <=> a \in Waiting(h) \/ outcome'[a] # None)
           /\ a[1] = s => (Known(a) <=> a \in Waiting(groups[s]) \/ outcome[a] # None)
<1>1. /\ \A t \in DOMAIN groups' : t \in DOMAIN groups /\ (t = s => groups'[t] = h) /\ (t # s => groups'[t] = groups[t])
      /\ \A t \in DOMAIN groups : t # s => t \in DOMAIN groups'
  BY DEF Becomes
<1>2. s \notin DOMAIN groups' => Waiting(h) = {}
  <2>1. ASSUME s \notin DOMAIN groups' PROVE h.channels = <<>> BY <2>1 DEF HasSubscriptions
  <2>. QED BY <2>1 DEF Waiting, ToSet
<1>3. ASSUME NEW a \in Channel
      PROVE  /\ a[1] # s => ((Known(a))' <=> Known(a))
             /\ a[1] = s => ((Known(a))' <=> a \in Waiting(h) \/ outcome'[a] # None)
  <2>1. ASSUME a[1] = s PROVE (Known(a))' <=> a \in Waiting(h) \/ outcome'[a] # None
    BY <1>1, <1>2, <2>1 DEF Known, Waiting
  <2>2. ASSUME a[1] # s PROVE (Known(a))' <=> Known(a) BY <1>1, <1>3, <2>2 DEF Known, Waiting
  <2>. QED BY <2>1, <2>2
<1>4. \A a \in Channel : a[1] = s => (Known(a) <=> a \in Waiting(groups[s]) \/ outcome[a] # None)
  BY DEF Known
<1>. QED BY <1>3, <1>4

LEMMA BookStays ==
  ASSUME BookInv, work' = work, UNCHANGED <<groups, unclaimed, socketGroups, mSessionID, outcome>>,
         \A c \in Connection : phase[c] = "gone" => phase'[c] = "gone"
  PROVE  BookInv' /\ SameGroups /\ SameKnown
<1>1. Book(groups', unclaimed', socketGroups', mSessionID', outcome', phase')
  BY DEF BookInv, Book
<1>. QED BY <1>1, SameBook DEF SameGroups, Live, SameKnown, Known

-----------------------------------------------------------------------------
(* The book, handler by handler: a group that settles.                      *)

LEMMA SettledBook ==
  ASSUME work \in Cases, work' = work, GroupsOK, BookInv, NEW s \in DOMAIN groups, NEW h,
         NEW C \in SUBSET Connection, Settle(s, h), UNCHANGED <<socketGroups, mSessionID>>,
         Fits(s, h, outcome'), OutcomesOK(outcome'), h.key = groups[s].key,
         Others(s, outcome, outcome'), Brings(groups[s], h, outcome, outcome', C),
         AllGone(C, h.key, phase'), StayGone(phase, phase'), Identified(s, h, mSessionID[s]),
         NoOffers(h, socketGroups)
  PROVE  /\ BookInv'
         /\ DOMAIN groups' \subseteq DOMAIN groups
         /\ \A t : t # s => ((Live(t))' <=> Live(t))
         /\ (Live(s))' <=> h.live
         /\ \A a \in Channel :
              /\ a[1] # s => ((Known(a))' <=> Known(a))
              /\ a[1] = s => ((Known(a))' <=> a \in Waiting(h) \/ outcome'[a] # None)
              /\ a[1] = s => (Known(a) <=> a \in Waiting(groups[s]) \/ outcome[a] # None)
<1>1. /\ Book(groups, unclaimed, socketGroups, mSessionID, outcome, phase)
      /\ ListOK(unclaimed, groups) /\ OneOfEach(socketGroups) /\ mSessionID \in [Used -> Nat]
      /\ \A sg \in ToSet(socketGroups) : SocketsFit(sg, groups, outcome)
      /\ \A t, u \in DOMAIN groups : groups[t].key = groups[u].key /\ groups[t].key # None => t = u
  BY DEF BookInv, Book
<1>2. /\ Becomes(groups, s, h, groups') /\ ListOK(unclaimed', groups')
      /\ s \notin DOMAIN groups' <=> ~HasSubscriptions(h)
  BY <1>1, Settled
<1>3. Without(socketGroups, h.key, socketGroups')
  BY <1>1 DEF SocketsFit, Without
<1>4. Pairs(groups, s, h.key) BY <1>1 DEF Pairs
<1>5. Identify(s, h, mSessionID, mSessionID') BY <1>1 DEF Identify
<1>6. Book(groups', unclaimed', socketGroups', mSessionID', outcome', phase')
  BY <1>1, <1>2, <1>3, <1>4, <1>5, BookBecomes
<1>7. BookInv' BY <1>6, SameBook
<1>8. h.live \in BOOLEAN
  <2>1. h \in Group(s) BY DEF Fits
  <2>. QED BY <2>1, GroupIs
<1>. QED BY <1>2, <1>7, <1>8, LiveAfter, KnownAfter DEF Others

LEMMA MergedBook ==
  ASSUME work \in Cases, work' = work, GroupsOK, BookInv, NEW s \in DOMAIN groups, groups[s].key = None,
         NEW g, Fits(s, g, outcome), g.key = None, g.live = groups[s].live,
         NEW sg \in SocketGroup, sg.name = work.name[s], SocketsFit(sg, groups, outcome),
         Merge(s, <<g, outcome>>, sg),
         \A c \in ToSet(sg.sockets) : phase'[c] = "gone", StayGone(phase, phase')
  PROVE  /\ BookInv' /\ SameGroups
         /\ \A a \in Channel :
              /\ a[1] # s => ((Known(a))' <=> Known(a))
              /\ a[1] = s => ((Known(a))' <=> a \in Waiting(g) \/ outcome[a] # None)
<1>. DEFINE q == sg.sockets
            key == KeyOf(sg)
            k == [g EXCEPT !.key = key]
            h == AddSockets(<<k, outcome>>, q)[1]
            to == AddSockets(<<k, outcome>>, q)[2]
<1>1. /\ Book(groups, unclaimed, socketGroups, mSessionID, outcome, phase)
      /\ ListOK(unclaimed, groups) /\ OneOfEach(socketGroups) /\ mSessionID \in [Used -> Nat]
      /\ OutcomesOK(outcome) /\ DOMAIN groups \subseteq Used
      /\ Identified(s, groups[s], mSessionID[s])
  BY DEF BookInv, Book
<1>2. /\ sg.name \in STRING /\ sg.id \in Numbers /\ q \in Seq(Connection)
      /\ key \in Keys /\ key # None /\ key[1] = work.name[s] /\ key = <<work.name[s], sg.id>>
  BY DEF SocketGroup, KeyOf, Keys, None
<1>3. /\ IsInjective(q) /\ \A c \in ToSet(q) : Remote(c) = key /\ ~Served(outcome, c)
      /\ \A t \in DOMAIN groups : groups[t].key # key
  BY DEF SocketsFit
<1>4. /\ Settle(s, h) /\ outcome' = to
      /\ mSessionID' = IF g.live THEN [mSessionID EXCEPT ![s] = sg.id] ELSE mSessionID
      /\ socketGroups' = RemoveFirstMatch(socketGroups, LAMBDA other : <<other.name, other.id>> = key)
  BY DEF Merge, KeyOf
<1>5. Without(socketGroups, key, socketGroups')
  <2>. DEFINE I == {j \in 1 .. Len(socketGroups) : KeyOf(socketGroups[j]) = key}
  <2>1. I # {} => socketGroups' = RemoveAt(socketGroups, Min(I))
    BY <1>4 DEF RemoveFirstMatch, SelectInSeq, KeyOf
  <2>2. I = {} => socketGroups' = socketGroups BY <1>4 DEF RemoveFirstMatch, KeyOf
  <2>3. \E J : J = I OBVIOUS
  <2>. HIDE DEF key
  <2>4. PICK J : J = I BY <2>3
  <2>. QED BY <1>1, <2>1, <2>2, <2>4, RemovedMatch
<1>6. /\ Fits(s, h, to) /\ OutcomesOK(to) /\ h.live = g.live /\ h.key = key
      /\ Waiting(h) \subseteq Waiting(g)
      /\ \A a \in Channel : a \notin Waiting(g) => to[a] = outcome[a]
      /\ \A a \in Waiting(g) : a \in Waiting(h) \/ to[a] # None
      /\ \A d \in Connection : d \in Kept(h) \/ Served(to, d) => Served(outcome, d) \/ d \in ToSet(q)
  <2>1. /\ g \in Group(s) /\ k \in Group(s) /\ k.channels = g.channels /\ k.sockets = g.sockets
        /\ k.live = g.live /\ k.key = key
    BY <1>2 DEF Fits, Group
  <2>2. Free(q, key, outcome) BY <1>3 DEF Free
  <2>3. h = AddSockets(<<k, outcome>>, q)[1] /\ to = AddSockets(<<k, outcome>>, q)[2] OBVIOUS
  <2>4. s \in Used BY <1>1
  <2>. HIDE DEF q, key, k, h, to
  <2>5. Merged(s, g, outcome, key, q, k, h, to)
    BY <1>1, <1>2, <1>3, <2>1, <2>2, <2>3, <2>4, MergeFits
  <2>. QED BY <2>5 DEF Merged
<1>7. ToSet(q) \subseteq Connection
  <2>. HIDE DEF q
  <2>. QED BY <1>2 DEF ToSet
<1>8. g \in Group(s) /\ Waiting(g) \subseteq ChannelsOf(s) /\ g.live \in BOOLEAN
  <2>1. g \in Group(s) BY DEF Fits
  <2>. QED BY <2>1, GroupIs
<1>9. /\ mSessionID' \in [Used -> Nat] /\ \A t \in Used : t # s => mSessionID'[t] = mSessionID[t]
      /\ g.live => mSessionID'[s] = sg.id
      /\ ~g.live => mSessionID'[s] = mSessionID[s]
  BY <1>1, <1>2, <1>4 DEF Numbers
<1>10. mSessionID[s] = 0
  <2>1. mSessionID[s] # 0 => groups[s].key = <<work.name[s], mSessionID[s]>> BY <1>1 DEF Identified
  <2>. QED BY <2>1 DEF None
<1>11. \A c \in ToSet(q) : phase'[c] = "gone" OBVIOUS
<1>. HIDE DEF q, key, k, h, to
<1>12. Identified(s, h, mSessionID'[s])
  <2>1. CASE g.live BY <1>2, <1>6, <1>9, <2>1 DEF Identified, Numbers
  <2>2. CASE ~g.live BY <1>6, <1>9, <1>10, <2>2 DEF Identified
  <2>. QED BY <1>8, <2>1, <2>2
<1>13. Others(s, outcome, to) BY <1>6, <1>8 DEF ChannelsOf, Others
<1>14. /\ Becomes(groups, s, h, groups') /\ ListOK(unclaimed', groups')
       /\ s \notin DOMAIN groups' <=> ~HasSubscriptions(h)
  BY <1>1, <1>4, Settled
<1>15. Book(groups', unclaimed', socketGroups', mSessionID', to, phase')
  <2>1. Brings(groups[s], h, outcome, to, ToSet(q)) BY <1>6 DEF Brings
  <2>2. AllGone(ToSet(q), h.key, phase') BY <1>3, <1>6, <1>11 DEF AllGone
  <2>3. Pairs(groups, s, h.key) BY <1>3, <1>6 DEF Pairs
  <2>4. Identify(s, h, mSessionID, mSessionID') BY <1>9, <1>12 DEF Identify
  <2>5. NoOffers(h, socketGroups') BY <1>2, <1>6 DEF NoOffers
  <2>. QED BY <1>1, <1>5, <1>6, <1>7, <1>13, <1>14, <2>1, <2>2, <2>3, <2>4, <2>5, BookBecomes
<1>16. BookInv' BY <1>4, <1>15, SameBook
<1>17. SameGroups
  <2>1. /\ DOMAIN groups' \subseteq DOMAIN groups
        /\ \A t : t # s => ((Live(t))' <=> Live(t))
        /\ (Live(s))' <=> h.live
    BY <1>6, <1>8, <1>14, LiveAfter
  <2>2. Live(s) <=> h.live BY <1>6 DEF Live
  <2>. QED BY <2>1, <2>2 DEF SameGroups
<1>18. \A a \in Channel :
         /\ a[1] # s => ((Known(a))' <=> Known(a))
         /\ a[1] = s => ((Known(a))' <=> a \in Waiting(h) \/ to[a] # None)
  BY <1>4, <1>13, <1>14, KnownAfter DEF Others
<1>19. \A a \in Channel : a \in Waiting(h) \/ to[a] # None <=> a \in Waiting(g) \/ outcome[a] # None
  BY <1>6
<1>. QED BY <1>16, <1>17, <1>18, <1>19

-----------------------------------------------------------------------------
(* The book, handler by handler: channels cancelled, sessions gone or come. *)

LEMMA InBook ==
  ASSUME BookInv, NEW s \in DOMAIN groups
  PROVE  /\ s \in Used /\ OutcomesOK(outcome) /\ Fits(s, groups[s], outcome)
         /\ Identified(s, groups[s], mSessionID[s]) /\ NoOffers(groups[s], socketGroups)
BY DEF BookInv, Book, NoOffers

LEMMA Stays ==
  ASSUME NEW out, NEW g, NEW s
  PROVE  /\ Others(s, out, out) /\ Brings(g, g, out, out, {}) /\ StayGone(phase, phase)
         /\ \A key, ph : AllGone({}, key, ph)
BY DEF Others, Brings, StayGone, AllGone

LEMMA Refusing ==
  ASSUME NEW out, OutcomesOK(out), NEW ch \in Channel, out[ch] = None,
         NEW to \in [Channel -> Outcomes], to[ch] = Refused, \A a \in Channel : a # ch => to[a] = out[a]
  PROVE  /\ OutcomesOK(to)
         /\ \A a \in Channel : \A c \in Connection : to[a] = Socket(c) <=> out[a] = Socket(c)
<1>1. \A a \in Channel : \A c \in Connection : to[a] = Socket(c) <=> out[a] = Socket(c)
  BY OutcomesDiffer
<1>2. OutcomesOK(to) BY <1>1 DEF OutcomesOK
<1>. QED BY <1>1, <1>2

LEMMA BookCancel ==
  ASSUME FlowInv, BookInv, NEW ch \in Channel, HandleCancel(ch)
  PROVE  BookInv' /\ SameGroups /\ SameKnown
<1>. DEFINE s == ch[1]
            g == groups[s]
            I == {k \in 1 .. Len(g.channels) : g.channels[k] = ch}
            i == IF I # {} THEN Min(I) ELSE 0
            h == [g EXCEPT !.channels = RemoveAt(g.channels, i)]
            to == [outcome EXCEPT ![ch] = Refused]
<1>1. work \in Cases /\ work' = work /\ GroupsOK /\ s \in DOMAIN groups
  BY FlowGroups DEF FlowInv, FlowTyped, HandleCancel
<1>2. UNCHANGED <<phase, socketGroups, mSessionID>> BY DEF HandleCancel
<1>3. /\ i = 0 => UNCHANGED <<groups, unclaimed, outcome>>
      /\ i # 0 => Settle(s, h) /\ outcome' = to
  BY DEF HandleCancel, SelectInSeq
<1>4. /\ s \in Used /\ OutcomesOK(outcome) /\ Fits(s, g, outcome)
      /\ Identified(s, g, mSessionID[s]) /\ NoOffers(g, socketGroups)
  BY <1>1, InBook
<1>5. g \in Group(s) BY <1>4 DEF Fits
<1>6. /\ g.channels \in Seq(ChannelsOf(s)) /\ Waiting(g) \subseteq ChannelsOf(s) /\ Kept(g) \subseteq Connection
      /\ ChannelsOf(s) \subseteq Channel
  BY <1>5, GroupIs
<1>7. (i = 0 => I = {}) /\ (i # 0 => i \in I /\ i \in DOMAIN g.channels)
  <2>. DEFINE seq == g.channels
  <2>1. seq \in Seq(ChannelsOf(s)) /\ I \subseteq 1 .. Len(seq) BY <1>6
  <2>. HIDE DEF I, seq
  <2>2. (i = 0 => I = {}) /\ (i # 0 => i \in I /\ i \in DOMAIN seq) BY <2>1, Selected
  <2>. QED BY <2>2 DEF seq
<1>8. CASE i = 0
  <2>1. UNCHANGED <<groups, unclaimed, socketGroups, mSessionID, outcome>> BY <1>2, <1>3, <1>8
  <2>2. \A c \in Connection : phase[c] = "gone" => phase'[c] = "gone" BY <1>2
  <2>. QED BY <1>1, <2>1, <2>2, BookStays
<1>9. CASE i # 0
  <2>1. i \in DOMAIN g.channels /\ g.channels[i] = ch BY <1>7, <1>9
  <2>2. Settle(s, h) /\ outcome' = to BY <1>3, <1>9
  <2>3. ch \in Waiting(g) BY <2>1 DEF Waiting, ToSet
  <2>4. outcome[ch] = None BY <1>4, <2>3 DEF Fits
  <2>5. /\ OutcomesOK(to) /\ to[ch] = Refused /\ \A a \in Channel : a # ch => to[a] = outcome[a]
        /\ \A a \in Channel : \A c \in Connection : to[a] = Socket(c) <=> outcome[a] = Socket(c)
    <3>1. /\ to \in [Channel -> Outcomes] /\ to[ch] = Refused
          /\ \A a \in Channel : a # ch => to[a] = outcome[a]
      BY <1>4, OutcomesDiffer DEF OutcomesOK
    <3>. HIDE DEF to
    <3>. QED BY <1>4, <2>4, <3>1, Refusing
  <2>6. \A c \in Connection : Served(to, c) <=> Served(outcome, c) BY <2>5 DEF Served
  <2>7. /\ h \in Group(s) /\ h.sockets = g.sockets /\ h.key = g.key /\ h.live = g.live
        /\ Waiting(h) = Waiting(g) \ {ch} /\ IsInjective(h.channels)
    <3>. DEFINE q == g.channels
                r == RemoveAt(q, i)
    <3>1. IsInjective(q) /\ q \in Seq(ChannelsOf(s)) /\ i \in DOMAIN q /\ q[i] = ch
      BY <1>4, <1>6, <2>1 DEF Fits
    <3>. HIDE DEF i, q
    <3>2. /\ r \in Seq(ChannelsOf(s)) /\ ToSet(r) = ToSet(q) \ {ch} /\ IsInjective(r)
      BY <3>1, DroppedOne
    <3>. HIDE DEF r
    <3>3. h = [g EXCEPT !.channels = r] BY DEF r, q
    <3>. HIDE DEF h
    <3>4. /\ h \in Group(s) /\ h.sockets = g.sockets /\ h.key = g.key /\ h.live = g.live /\ h.channels = r
      BY <1>5, <3>2, <3>3 DEF Group
    <3>. QED BY <3>2, <3>4 DEF Waiting, q
  <2>. HIDE DEF h, to, I, i
  <2>8. Kept(h) = Kept(g) BY <2>7 DEF Kept
  <2>9. Fits(s, h, to)
    BY <1>4, <1>6, <2>5, <2>6, <2>7, <2>8 DEF Fits
  <2>10. Others(s, outcome, outcome') BY <2>2, <2>5 DEF Others
  <2>11. Brings(g, h, outcome, outcome', {}) BY <2>2, <2>6, <2>8 DEF Brings
  <2>12. AllGone({}, h.key, phase') /\ StayGone(phase, phase') BY <1>2 DEF AllGone, StayGone
  <2>13. Identified(s, h, mSessionID[s]) /\ NoOffers(h, socketGroups)
    BY <1>4, <2>7 DEF Identified, NoOffers
  <2>14. /\ BookInv'
         /\ DOMAIN groups' \subseteq DOMAIN groups
         /\ \A t : t # s => ((Live(t))' <=> Live(t))
         /\ (Live(s))' <=> h.live
         /\ \A a \in Channel :
              /\ a[1] # s => ((Known(a))' <=> Known(a))
              /\ a[1] = s => ((Known(a))' <=> a \in Waiting(h) \/ outcome'[a] # None)
              /\ a[1] = s => (Known(a) <=> a \in Waiting(g) \/ outcome[a] # None)
    BY <1>1, <1>2, <2>2, <2>5, <2>7, <2>9, <2>10, <2>11, <2>12, <2>13, SettledBook
  <2>15. SameGroups BY <1>1, <2>7, <2>14 DEF SameGroups, Live
  <2>16. \A a \in Channel : a \in Waiting(h) \/ outcome'[a] # None <=> a \in Waiting(g) \/ outcome[a] # None
    BY <2>2, <2>3, <2>5, <2>7, OutcomesDiffer
  <2>17. SameKnown BY <2>14, <2>16 DEF SameKnown
  <2>. QED BY <2>14, <2>15, <2>17
<1>. QED BY <1>8, <1>9

LEMMA BookUnsubscribe ==
  ASSUME FlowInv, BookInv, NEW s \in Used, HandleUnsubscribe(s)
  PROVE  /\ BookInv' /\ SameKnown
         /\ DOMAIN groups' \subseteq DOMAIN groups
         /\ \A t : t # s => ((Live(t))' <=> Live(t))
         /\ ~(Live(s))'
<1>. DEFINE g == groups[s]
            h == [g EXCEPT !.live = FALSE]
<1>1. /\ work \in Cases /\ work' = work /\ GroupsOK /\ s \in DOMAIN groups
      /\ UNCHANGED <<phase, socketGroups, mSessionID, outcome>> /\ Settle(s, h)
  BY FlowGroups DEF FlowInv, FlowTyped, HandleUnsubscribe
<1>2. /\ OutcomesOK(outcome) /\ Fits(s, g, outcome)
      /\ Identified(s, g, mSessionID[s]) /\ NoOffers(g, socketGroups)
  BY <1>1, InBook
<1>3. g \in Group(s) BY <1>2 DEF Fits
<1>4. /\ h \in Group(s) /\ h.sockets = g.sockets /\ h.key = g.key /\ h.live = FALSE /\ h.channels = g.channels
  BY <1>3 DEF Group
<1>. HIDE DEF h
<1>5. Kept(h) = Kept(g) /\ Waiting(h) = Waiting(g) BY <1>4 DEF Kept, Waiting
<1>6. Fits(s, h, outcome) BY <1>2, <1>4, <1>5 DEF Fits
<1>7. Others(s, outcome, outcome') /\ Brings(g, h, outcome, outcome', {}) BY <1>1, <1>5 DEF Others, Brings
<1>8. AllGone({}, h.key, phase') /\ StayGone(phase, phase') BY <1>1 DEF AllGone, StayGone
<1>9. Identified(s, h, mSessionID[s]) /\ NoOffers(h, socketGroups)
  BY <1>2, <1>4, <1>5 DEF Identified, NoOffers
<1>10. /\ BookInv'
       /\ DOMAIN groups' \subseteq DOMAIN groups
       /\ \A t : t # s => ((Live(t))' <=> Live(t))
       /\ (Live(s))' <=> h.live
       /\ \A a \in Channel :
            /\ a[1] # s => ((Known(a))' <=> Known(a))
            /\ a[1] = s => ((Known(a))' <=> a \in Waiting(h) \/ outcome'[a] # None)
            /\ a[1] = s => (Known(a) <=> a \in Waiting(g) \/ outcome[a] # None)
  BY <1>1, <1>2, <1>4, <1>6, <1>7, <1>8, <1>9, SettledBook
<1>11. SameKnown BY <1>1, <1>5, <1>10 DEF SameKnown
<1>. QED BY <1>4, <1>10, <1>11

(* A session that has no group yet, is not paired and has no channels gets  *)
(* one; or it is refused.                                                   *)
LEMMA BookSubscribe ==
  ASSUME FlowInv, BookInv, NEW s \in Used, HandleSubscribe(s), s \notin DOMAIN groups, mSessionID[s] = 0,
         \A ch \in ChannelsOf(s) : outcome[ch] = None
  PROVE  /\ BookInv' /\ SameKnown
         /\ DOMAIN groups' \subseteq DOMAIN groups \cup {s}
         /\ \A t : t # s => ((Live(t))' <=> Live(t))
         /\ (Live(s))' <=> ~mStopped
         /\ mStopped => s \notin DOMAIN groups'
<1>1. /\ work \in Cases /\ work' = work /\ UNCHANGED <<phase, socketGroups, mSessionID, outcome>>
      /\ mStopped \in BOOLEAN
  BY DEF FlowInv, FlowTyped, HandleSubscribe
<1>2. CASE mStopped
  <2>1. UNCHANGED <<groups, unclaimed>> BY <1>2 DEF HandleSubscribe
  <2>2. \A c \in Connection : phase[c] = "gone" => phase'[c] = "gone" BY <1>1
  <2>3. BookInv' /\ SameGroups /\ SameKnown BY <1>1, <2>1, <2>2, BookStays
  <2>. QED BY <1>2, <2>1, <2>3 DEF Live
<1>3. CASE ~mStopped
  <2>. DEFINE g == NewGroup
  <2>1. /\ groups' = [t \in DOMAIN groups \cup {s} |-> IF t = s THEN g ELSE groups[t]]
        /\ unclaimed' = Append(unclaimed, s)
    BY <1>3 DEF HandleSubscribe
  <2>2. /\ DOMAIN groups' = DOMAIN groups \cup {s} /\ groups'[s] = g
        /\ \A t \in DOMAIN groups : groups'[t] = groups[t]
    BY <2>1
  <2>3. g \in Group(s) /\ g.channels = <<>> /\ g.sockets = <<>> /\ g.live = TRUE /\ g.key = None
    BY DEF NewGroup, Group
  <2>4. Waiting(g) = {} /\ Kept(g) = {} BY <2>3 DEF Waiting, Kept, ToSet
  <2>5. IsInjective(g.channels) /\ IsInjective(g.sockets) BY <2>3 DEF IsInjective
  <2>. HIDE DEF g
  <2>6. /\ DOMAIN groups \subseteq Used /\ mSessionID \in [Used -> Nat] /\ OutcomesOK(outcome)
        /\ \A t \in DOMAIN groups : Fits(t, groups[t], outcome) /\ Identified(t, groups[t], mSessionID[t])
        /\ \A t, u \in DOMAIN groups : groups[t].key = groups[u].key /\ groups[t].key # None => t = u
        /\ ListOK(unclaimed, groups) /\ OneOfEach(socketGroups)
        /\ \A sg \in ToSet(socketGroups) : SocketsFit(sg, groups, outcome)
        /\ \A t \in DOMAIN groups : groups[t].key = None =>
             \A ch \in Waiting(groups[t]) : \A sg \in ToSet(socketGroups) : ~Offers(sg, ch)
        /\ \A c \in Connection : Placed(groups, socketGroups, outcome, c) => phase[c] = "gone"
    BY DEF BookInv, Book
  <2>7. Fits(s, g, outcome)
    <3>1. \A ch \in ChannelsOf(s) : \A c \in Connection : outcome[ch] # Socket(c) BY OutcomesDiffer
    <3>. QED BY <2>3, <2>4, <2>5, <3>1 DEF Fits
  <2>8. Identified(s, g, mSessionID[s]) BY <2>3 DEF Identified
  <2>9. ListOK(unclaimed', groups')
    <3>1. /\ unclaimed \in Seq(Used) /\ IsInjective(unclaimed)
          /\ ToSet(unclaimed) = {t \in DOMAIN groups : groups[t].key = None}
      BY <2>6 DEF ListOK
    <3>2. /\ unclaimed' \in Seq(Used) /\ ToSet(unclaimed') = ToSet(unclaimed) \cup {s}
          /\ IsInjective(unclaimed')
      BY <2>1, <3>1, Appended
    <3>3. {t \in DOMAIN groups' : groups'[t].key = None} = {t \in DOMAIN groups : groups[t].key = None} \cup {s}
      BY <2>2, <2>3
    <3>. QED BY <3>1, <3>2, <3>3 DEF ListOK
  <2>10. \A t \in DOMAIN groups' : Fits(t, groups'[t], outcome) /\ Identified(t, groups'[t], mSessionID[t])
    BY <2>2, <2>6, <2>7, <2>8
  <2>11. \A t, u \in DOMAIN groups' : groups'[t].key = groups'[u].key /\ groups'[t].key # None => t = u
    BY <2>2, <2>3, <2>6
  <2>12. ASSUME NEW sg \in ToSet(socketGroups) PROVE SocketsFit(sg, groups', outcome)
    <3>1. KeyOf(sg) # None BY <2>6, SocketGroupIs
    <3>2. SocketsFit(sg, groups, outcome) BY <2>6
    <3>. QED BY <2>2, <2>3, <3>1, <3>2 DEF SocketsFit
  <2>13. \A t \in DOMAIN groups' : groups'[t].key = None =>
             \A ch \in Waiting(groups'[t]) : \A sg \in ToSet(socketGroups) : ~Offers(sg, ch)
    BY <2>2, <2>4, <2>6
  <2>14. \A c \in Connection : Placed(groups', socketGroups, outcome, c) => phase[c] = "gone"
    BY <2>2, <2>4, <2>6 DEF Placed
  <2>15. Book(groups', unclaimed', socketGroups', mSessionID', outcome', phase')
    BY <1>1, <2>2, <2>6, <2>9, <2>10, <2>11, <2>12, <2>13, <2>14 DEF Book
  <2>16. BookInv' BY <1>1, <2>15, SameBook
  <2>17. SameKnown BY <1>1, <2>2, <2>4 DEF SameKnown, Known, Waiting
  <2>18. (\A t : t # s => ((Live(t))' <=> Live(t))) /\ (Live(s))' BY <2>2, <2>3 DEF Live
  <2>. QED BY <1>3, <2>2, <2>16, <2>17, <2>18
<1>. QED BY <1>1, <1>2, <1>3

-----------------------------------------------------------------------------
(* The book, handler by handler: the end of a handshake.                    *)

LEMMA NamedGoes ==
  ASSUME FlowInv, BookInv, NEW c \in Connection, HandleNamed(c)
  PROVE  /\ work \in Cases /\ work' = work /\ GroupsOK
         /\ phase'[c] = "gone" /\ StayGone(phase, phase')
         /\ ~Placed(groups, socketGroups, outcome, c)
<1>1. /\ work \in Cases /\ work' = work /\ GroupsOK /\ phase \in [Connection -> Phases]
      /\ strand \in Seq(Handlers)
  BY FlowGroups DEF FlowInv, FlowTyped, HandleNamed
<1>2. Runs(Handler("named", Of(c))) /\ Finish /\ phase' = [phase EXCEPT ![c] = "gone"]
  BY DEF HandleNamed, Handler, Of
<1>3. phase'[c] = "gone" /\ StayGone(phase, phase') BY <1>1, <1>2 DEF StayGone
<1>4. InStrand("named", Of(c)) BY <1>1, <1>2, RanOne
<1>5. phase[c] = "named" BY <1>4 DEF FlowInv, Answering
<1>6. ~Placed(groups, socketGroups, outcome, c) BY <1>5 DEF BookInv, Book
<1>. QED BY <1>1, <1>3, <1>6

(* The socket group of a connection that has just said its name.            *)
LEMMA SocketGroupGets ==
  ASSUME work \in Cases, BookInv, NEW c \in Connection, ~Placed(groups, socketGroups, outcome, c)
  PROVE  /\ SocketGroupOf(c) \in SocketGroup /\ KeyOf(SocketGroupOf(c)) = Remote(c)
         /\ IsInjective(SocketGroupOf(c).sockets)
         /\ \A d \in ToSet(SocketGroupOf(c).sockets) :
              /\ d \in Connection /\ Remote(d) = Remote(c) /\ ~Served(outcome, d)
              /\ \/ d = c
                 \/ \E x \in ToSet(socketGroups) : KeyOf(x) = Remote(c) /\ d \in ToSet(x.sockets)
         /\ OneOfEach(WithSocket(c))
         /\ \A x \in ToSet(WithSocket(c)) : x \in ToSet(socketGroups) \/ x = SocketGroupOf(c)
<1>. DEFINE I == {k \in 1 .. Len(socketGroups) : KeyOf(socketGroups[k]) = Remote(c)}
            i == IF I # {} THEN Min(I) ELSE 0
            old == socketGroups[i]
            sg == SocketGroupOf(c)
            sgs == WithSocket(c)
<1>1. /\ i # 0 => sg = [old EXCEPT !.sockets = Append(old.sockets, c)]
      /\ i = 0 => sg = [name |-> Remote(c)[1], id |-> Remote(c)[2], sockets |-> <<c>>]
  BY DEF SocketGroupOf, SelectInSeq, KeyOf
<1>2. /\ i # 0 => sgs = [socketGroups EXCEPT ![i] = sg]
      /\ i = 0 => sgs = Append(socketGroups, sg)
  BY DEF WithSocket, SelectInSeq, KeyOf
<1>3. /\ OneOfEach(socketGroups) /\ socketGroups \in Seq(SocketGroup)
      /\ \A x \in ToSet(socketGroups) : SocketsFit(x, groups, outcome)
  BY DEF BookInv, Book, OneOfEach
<1>4. (i = 0 => I = {}) /\ (i # 0 => i \in I /\ i \in DOMAIN socketGroups)
  <2>1. I \subseteq 1 .. Len(socketGroups) OBVIOUS
  <2>. HIDE DEF I
  <2>. QED BY <1>3, <2>1, Selected
<1>5. Remote(c) \in Keys /\ ~Served(outcome, c) BY RemoteIs DEF Placed
<1>. HIDE DEF i, sg, sgs
<1>6. /\ sg \in SocketGroup /\ KeyOf(sg) = Remote(c) /\ IsInjective(sg.sockets)
      /\ \A d \in ToSet(sg.sockets) :
           /\ d \in Connection /\ Remote(d) = Remote(c) /\ ~Served(outcome, d)
           /\ d = c \/ \E x \in ToSet(socketGroups) : KeyOf(x) = Remote(c) /\ d \in ToSet(x.sockets)
  <2>1. CASE i = 0
    <3>. DEFINE one == <<c>>
    <3>1. one \in Seq(Connection) /\ IsInjective(one) /\ ToSet(one) = {c} BY DEF IsInjective, ToSet
    <3>2. sg = [name |-> Remote(c)[1], id |-> Remote(c)[2], sockets |-> one] BY <1>1, <2>1
    <3>. HIDE DEF one
    <3>3. /\ sg \in SocketGroup /\ sg.sockets = one /\ sg.name = Remote(c)[1] /\ sg.id = Remote(c)[2]
      BY <1>5, <3>1, <3>2 DEF SocketGroup, Keys
    <3>4. KeyOf(sg) = Remote(c) BY <1>5, <3>3 DEF KeyOf, Keys
    <3>. QED BY <1>5, <3>1, <3>3, <3>4
  <2>2. CASE i # 0
    <3>1. i \in DOMAIN socketGroups /\ KeyOf(old) = Remote(c) BY <1>4, <2>2
    <3>2. old \in ToSet(socketGroups) BY <3>1 DEF ToSet
    <3>3. sg = [old EXCEPT !.sockets = Append(old.sockets, c)] BY <1>1, <2>2
    <3>. HIDE DEF old
    <3>. DEFINE q == old.sockets
                r == Append(q, c)
    <3>4. /\ old \in SocketGroup /\ q \in Seq(Connection) /\ ToSet(q) \subseteq Connection
      BY <1>3, <3>2, SocketGroupIs
    <3>5. /\ IsInjective(q) /\ \A d \in ToSet(q) : Remote(d) = Remote(c) /\ ~Served(outcome, d)
      BY <1>3, <3>1, <3>2 DEF SocketsFit
    <3>6. c \notin ToSet(q) BY <3>2 DEF Placed
    <3>7. sg.sockets = r /\ sg.name = old.name /\ sg.id = old.id BY <3>3, <3>4 DEF SocketGroup
    <3>. HIDE DEF q
    <3>8. r \in Seq(Connection) /\ ToSet(r) = ToSet(q) \cup {c} /\ IsInjective(r)
      BY <3>4, <3>5, <3>6, Appended
    <3>. HIDE DEF r
    <3>9. sg \in SocketGroup
      <4>1. sg = [old EXCEPT !.sockets = r] BY <3>3 DEF r, q
      <4>. QED BY <3>4, <3>8, <4>1 DEF SocketGroup
    <3>10. KeyOf(sg) = Remote(c) BY <3>1, <3>7 DEF KeyOf
    <3>11. \A d \in ToSet(q) : \E x \in ToSet(socketGroups) : KeyOf(x) = Remote(c) /\ d \in ToSet(x.sockets)
      BY <3>1, <3>2 DEF q
    <3>. QED BY <1>5, <3>4, <3>5, <3>7, <3>8, <3>9, <3>10, <3>11
  <2>. QED BY <2>1, <2>2
<1>7. OneOfEach(sgs) /\ \A x \in ToSet(sgs) : x \in ToSet(socketGroups) \/ x = sg
  <2>. DEFINE n == Len(socketGroups)
  <2>1. n \in Nat /\ DOMAIN socketGroups = 1 .. n /\ \A j \in 1 .. n : socketGroups[j] \in SocketGroup
    BY <1>3
  <2>2. \A j, k \in 1 .. n : KeyOf(socketGroups[j]) = KeyOf(socketGroups[k]) => j = k
    BY <1>3, <2>1 DEF OneOfEach
  <2>3. CASE i = 0
    <3>1. /\ sgs \in Seq(SocketGroup) /\ DOMAIN sgs = 1 .. n + 1 /\ sgs[n + 1] = sg
          /\ \A j \in 1 .. n : sgs[j] = socketGroups[j]
      BY <1>2, <1>3, <1>6, <2>3
    <3>2. \A j \in 1 .. n : KeyOf(socketGroups[j]) # KeyOf(sg) BY <1>4, <1>6, <2>3
    <3>3. \A j \in 1 .. n + 1 : j \in 1 .. n \/ j = n + 1 BY <2>1
    <3>4. OneOfEach(sgs) BY <2>2, <3>1, <3>2, <3>3 DEF OneOfEach
    <3>5. \A x \in ToSet(sgs) : x \in ToSet(socketGroups) \/ x = sg BY <2>1, <3>1, <3>3 DEF ToSet
    <3>. QED BY <3>4, <3>5
  <2>4. CASE i # 0
    <3>1. i \in 1 .. n /\ KeyOf(socketGroups[i]) = KeyOf(sg) BY <1>4, <1>6, <2>1, <2>4
    <3>2. /\ sgs \in Seq(SocketGroup) /\ DOMAIN sgs = 1 .. n /\ sgs[i] = sg
          /\ \A j \in 1 .. n : j # i => sgs[j] = socketGroups[j]
      BY <1>2, <1>3, <1>6, <2>4, <3>1
    <3>3. OneOfEach(sgs) BY <2>2, <3>1, <3>2 DEF OneOfEach
    <3>4. \A x \in ToSet(sgs) : x \in ToSet(socketGroups) \/ x = sg BY <2>1, <3>2 DEF ToSet
    <3>. QED BY <3>3, <3>4
  <2>. QED BY <2>3, <2>4
<1>. QED BY <1>6, <1>7 DEF sg, sgs

LEMMA NamedToItsGroup ==
  ASSUME FlowInv, BookInv, NEW c \in Connection, HandleNamed(c), NEW s \in ClaimedBy(c),
         NEW h, NEW to, h = AddSocket(<<groups[s], outcome>>, c)[1], to = AddSocket(<<groups[s], outcome>>, c)[2],
         Settle(s, h), outcome' = to, UNCHANGED <<socketGroups, mSessionID>>
  PROVE  BookInv' /\ SameGroups /\ SameKnown
<1>. DEFINE g == groups[s]
            C == {c}
<1>1. /\ work \in Cases /\ work' = work /\ GroupsOK /\ phase'[c] = "gone" /\ StayGone(phase, phase')
      /\ ~Placed(groups, socketGroups, outcome, c)
  BY NamedGoes
<1>2. s \in DOMAIN groups /\ g.key = Remote(c) BY DEF ClaimedBy
<1>3. /\ s \in Used /\ OutcomesOK(outcome) /\ Fits(s, g, outcome) /\ Identified(s, g, mSessionID[s])
  BY <1>2, InBook
<1>4. ~Served(outcome, c) /\ c \notin Kept(g) BY <1>1, <1>2 DEF Placed
<1>5. h = AddSocket(<<g, outcome>>, c)[1] /\ to = AddSocket(<<g, outcome>>, c)[2] OBVIOUS
<1>. HIDE DEF g, C
<1>6. Fits(s, h, to) /\ OutcomesOK(to) /\ Serves(g, outcome, h, to, {c})
  BY <1>1, <1>2, <1>3, <1>4, <1>5, AddSocketFits
<1>7. /\ h.live = g.live /\ h.key = g.key
      /\ Waiting(h) \subseteq Waiting(g)
      /\ \A a \in Channel : a \notin Waiting(g) => to[a] = outcome[a]
      /\ \A a \in Waiting(g) : a \in Waiting(h) \/ to[a] # None
      /\ \A d \in Connection : d \in Kept(h) \/ Served(to, d) => d \in Kept(g) \/ Served(outcome, d) \/ d \in C
  BY <1>6 DEF Serves, C
<1>8. Waiting(g) \subseteq ChannelsOf(s)
  <2>1. g \in Group(s) BY <1>3 DEF Fits
  <2>. QED BY <2>1, GroupIs
<1>9. Others(s, outcome, outcome') BY <1>7, <1>8 DEF Others, ChannelsOf
<1>10. Brings(groups[s], h, outcome, outcome', C) BY <1>7 DEF Brings, g
<1>11. AllGone(C, h.key, phase') /\ C \in SUBSET Connection BY <1>1, <1>2, <1>7 DEF AllGone, C
<1>12. Identified(s, h, mSessionID[s]) BY <1>3, <1>7 DEF Identified
<1>13. NoOffers(h, socketGroups)
  <2>1. h.key # None BY <1>1, <1>2, <1>7, RemoteIs
  <2>. QED BY <2>1 DEF NoOffers
<1>14. Fits(s, h, outcome') /\ OutcomesOK(outcome') /\ h.key = groups[s].key BY <1>6, <1>7 DEF g
<1>15. /\ BookInv'
       /\ DOMAIN groups' \subseteq DOMAIN groups
       /\ \A t : t # s => ((Live(t))' <=> Live(t))
       /\ (Live(s))' <=> h.live
       /\ \A a \in Channel :
            /\ a[1] # s => ((Known(a))' <=> Known(a))
            /\ a[1] = s => ((Known(a))' <=> a \in Waiting(h) \/ outcome'[a] # None)
            /\ a[1] = s => (Known(a) <=> a \in Waiting(groups[s]) \/ outcome[a] # None)
  BY <1>1, <1>2, <1>9, <1>10, <1>11, <1>12, <1>13, <1>14, SettledBook
<1>16. SameGroups BY <1>2, <1>7, <1>15 DEF SameGroups, Live, g
<1>17. \A a \in Channel : a \in Waiting(h) \/ to[a] # None <=> a \in Waiting(g) \/ outcome[a] # None
  BY <1>7
<1>18. SameKnown BY <1>15, <1>17 DEF SameKnown, g
<1>. QED BY <1>15, <1>16, <1>18

(* The first unpaired session that waits for the connection.                *)
LEMMA TheWaiting ==
  ASSUME BookInv, NEW c, NEW i,
         i = SelectInSeq(unclaimed, LAMBDA s : WaitsFor(s, c))
  PROVE  /\ i # 0 => /\ unclaimed[i] \in DOMAIN groups /\ groups[unclaimed[i]].key = None
                     /\ WaitsFor(unclaimed[i], c)
         /\ i = 0 => \A t \in DOMAIN groups : groups[t].key = None => ~WaitsFor(t, c)
<1>. DEFINE I == {k \in 1 .. Len(unclaimed) : WaitsFor(unclaimed[k], c)}
<1>1. i = IF I # {} THEN Min(I) ELSE 0 BY DEF SelectInSeq
<1>2. /\ unclaimed \in Seq(Used) /\ ToSet(unclaimed) = {t \in DOMAIN groups : groups[t].key = None}
  BY DEF BookInv, Book, ListOK
<1>3. I \subseteq 1 .. Len(unclaimed) OBVIOUS
<1>4. (i = 0 => I = {}) /\ (i # 0 => i \in I /\ i \in DOMAIN unclaimed)
  <2>. HIDE DEF I
  <2>. QED BY <1>1, <1>2, <1>3, Selected
<1>5. ASSUME i # 0
      PROVE  /\ unclaimed[i] \in DOMAIN groups /\ groups[unclaimed[i]].key = None
             /\ WaitsFor(unclaimed[i], c)
  <2>1. WaitsFor(unclaimed[i], c) /\ unclaimed[i] \in ToSet(unclaimed) BY <1>4, <1>5 DEF ToSet
  <2>. QED BY <1>2, <2>1
<1>6. ASSUME i = 0, NEW t \in DOMAIN groups, groups[t].key = None PROVE ~WaitsFor(t, c)
  <2>1. t \in ToSet(unclaimed) BY <1>2, <1>6
  <2>2. PICK k \in DOMAIN unclaimed : unclaimed[k] = t BY <2>1 DEF ToSet
  <2>3. k \in 1 .. Len(unclaimed) BY <1>2
  <2>. QED BY <1>4, <1>6, <2>2, <2>3
<1>. QED BY <1>5, <1>6

LEMMA UnpairedCanMerge ==
  ASSUME work \in Cases, BookInv, NEW s \in DOMAIN groups, groups[s].key = None,
         NEW g, g.live = groups[s].live, g.sockets = <<>>,
         NEW sg, \A t \in DOMAIN groups : groups[t].key # KeyOf(sg)
  PROVE  ~MergeThrows(s, g, sg) /\ mSessionID[s] = 0
<1>1. Identified(s, groups[s], mSessionID[s]) BY InBook
<1>2. mSessionID[s] = 0 BY <1>1 DEF Identified, None
<1>. QED BY <1>2 DEF MergeThrows, KeyOf

LEMMA NamedToTheWaiting ==
  ASSUME FlowInv, BookInv, NEW c \in Connection, HandleNamed(c), ClaimedBy(c) = {},
         NEW u \in DOMAIN groups, groups[u].key = None, WaitsFor(u, c),
         Merge(u, <<groups[u], outcome>>, SocketGroupOf(c))
  PROVE  BookInv' /\ SameGroups /\ SameKnown /\ ~MergeThrows(u, groups[u], SocketGroupOf(c))
<1>. DEFINE g == groups[u]
            sg == SocketGroupOf(c)
<1>1. /\ work \in Cases /\ work' = work /\ GroupsOK /\ phase'[c] = "gone" /\ StayGone(phase, phase')
      /\ ~Placed(groups, socketGroups, outcome, c)
  BY NamedGoes
<1>2. /\ sg \in SocketGroup /\ KeyOf(sg) = Remote(c) /\ IsInjective(sg.sockets)
      /\ \A d \in ToSet(sg.sockets) :
           /\ d \in Connection /\ Remote(d) = Remote(c) /\ ~Served(outcome, d)
           /\ d = c \/ \E x \in ToSet(socketGroups) : KeyOf(x) = Remote(c) /\ d \in ToSet(x.sockets)
  BY <1>1, SocketGroupGets
<1>3. u \in Used /\ Fits(u, g, outcome) /\ g.key = None BY InBook
<1>4. \A t \in DOMAIN groups : groups[t].key # KeyOf(sg) BY <1>2 DEF ClaimedBy
<1>5. sg.name = work.name[u]
  <2>1. sg.name = Remote(c)[1] BY <1>2 DEF KeyOf
  <2>. QED BY <2>1 DEF WaitsFor
<1>6. Merge(u, <<g, outcome>>, sg) OBVIOUS
<1>7. g.live = groups[u].live OBVIOUS
<1>. HIDE DEF sg
<1>8. SocketsFit(sg, groups, outcome) BY <1>2, <1>4 DEF SocketsFit
<1>9. \A d \in ToSet(sg.sockets) : phase'[d] = "gone"
  <2>1. ASSUME NEW d \in ToSet(sg.sockets), d # c PROVE phase[d] = "gone"
    <3>1. PICK x \in ToSet(socketGroups) : d \in ToSet(x.sockets) BY <1>2, <2>1
    <3>2. d \in Connection /\ Placed(groups, socketGroups, outcome, d) BY <1>2, <3>1 DEF Placed
    <3>. QED BY <3>2 DEF BookInv, Book
  <2>. QED BY <1>1, <1>2, <2>1 DEF StayGone
<1>10. g.sockets = <<>> BY <1>1, <1>3, UnpairedKeepsNothing
<1>11. ~MergeThrows(u, g, sg) BY <1>1, <1>3, <1>4, <1>10, UnpairedCanMerge
<1>. HIDE DEF g
<1>12. /\ BookInv' /\ SameGroups
       /\ \A a \in Channel :
            /\ a[1] # u => ((Known(a))' <=> Known(a))
            /\ a[1] = u => ((Known(a))' <=> a \in Waiting(g) \/ outcome[a] # None)
  BY <1>1, <1>2, <1>3, <1>5, <1>6, <1>7, <1>8, <1>9, MergedBook
<1>13. SameKnown BY <1>12 DEF SameKnown, Known, g
<1>. QED BY <1>11, <1>12, <1>13 DEF g, sg

LEMMA NamedToItsSocketGroup ==
  ASSUME FlowInv, BookInv, NEW c \in Connection, HandleNamed(c), ClaimedBy(c) = {},
         \A t \in DOMAIN groups : groups[t].key = None => ~WaitsFor(t, c),
         socketGroups' = WithSocket(c), UNCHANGED <<groups, unclaimed, mSessionID, outcome>>
  PROVE  BookInv' /\ SameGroups /\ SameKnown
<1>. DEFINE sg == SocketGroupOf(c)
            sgs == WithSocket(c)
<1>1. /\ work \in Cases /\ work' = work /\ GroupsOK /\ phase'[c] = "gone" /\ StayGone(phase, phase')
      /\ ~Placed(groups, socketGroups, outcome, c)
  BY NamedGoes
<1>2. /\ sg \in SocketGroup /\ KeyOf(sg) = Remote(c) /\ IsInjective(sg.sockets)
      /\ \A d \in ToSet(sg.sockets) :
           /\ d \in Connection /\ Remote(d) = Remote(c) /\ ~Served(outcome, d)
           /\ d = c \/ \E x \in ToSet(socketGroups) : KeyOf(x) = Remote(c) /\ d \in ToSet(x.sockets)
      /\ OneOfEach(sgs)
      /\ \A x \in ToSet(sgs) : x \in ToSet(socketGroups) \/ x = sg
  BY <1>1, SocketGroupGets
<1>. HIDE DEF sg
<1>3. /\ DOMAIN groups \subseteq Used /\ mSessionID \in [Used -> Nat] /\ OutcomesOK(outcome)
      /\ \A t \in DOMAIN groups : Fits(t, groups[t], outcome) /\ Identified(t, groups[t], mSessionID[t])
      /\ \A t, u \in DOMAIN groups : groups[t].key = groups[u].key /\ groups[t].key # None => t = u
      /\ ListOK(unclaimed, groups)
      /\ \A x \in ToSet(socketGroups) : SocketsFit(x, groups, outcome)
      /\ \A t \in DOMAIN groups : groups[t].key = None =>
           \A ch \in Waiting(groups[t]) : \A x \in ToSet(socketGroups) : ~Offers(x, ch)
      /\ \A d \in Connection : Placed(groups, socketGroups, outcome, d) => phase[d] = "gone"
  BY DEF BookInv, Book
<1>4. SocketsFit(sg, groups, outcome) BY <1>2 DEF SocketsFit, ClaimedBy
<1>5. ASSUME NEW t \in DOMAIN groups, groups[t].key = None, NEW ch \in Waiting(groups[t])
      PROVE  ~Offers(sg, ch)
  <2>1. SUFFICES ASSUME Offers(sg, ch) PROVE FALSE OBVIOUS
  <2>2. PICK i \in DOMAIN sg.sockets : Match(ch, sg.sockets[i]) BY <2>1 DEF Offers
  <2>3. PICK d \in ToSet(sg.sockets) : Match(ch, d) BY <2>2 DEF ToSet
  <2>4. ch[1] = t /\ ch \in Channel
    <3>1. groups[t] \in Group(t) BY <1>3 DEF Fits
    <3>. QED BY <1>5, <3>1, GroupIs DEF ChannelsOf
  <2>5. sg.name = work.name[t] /\ sg.name = Remote(c)[1] BY <1>2, <2>1, <2>4 DEF Offers, KeyOf
  <2>6. CASE d = c
    <3>1. PICK k \in DOMAIN groups[t].channels : groups[t].channels[k] = ch BY <1>5 DEF Waiting, ToSet
    <3>2. WaitsFor(t, c) BY <2>3, <2>5, <2>6, <3>1 DEF WaitsFor
    <3>. QED BY <1>5, <3>2
  <2>7. CASE d # c
    <3>1. PICK x \in ToSet(socketGroups) : KeyOf(x) = Remote(c) /\ d \in ToSet(x.sockets)
      BY <1>2, <2>3, <2>7
    <3>2. x.name = work.name[ch[1]] BY <2>4, <2>5, <3>1 DEF KeyOf
    <3>3. Offers(x, ch) BY <2>3, <3>1, <3>2 DEF Offers, ToSet
    <3>. QED BY <1>3, <1>5, <3>3
  <2>. QED BY <2>6, <2>7
<1>6. ASSUME NEW d \in Connection, Placed(groups, sgs, outcome, d) PROVE phase'[d] = "gone"
  <2>1. Placed(groups, socketGroups, outcome, d) \/ d = c BY <1>2, <1>6 DEF Placed
  <2>. QED BY <1>1, <1>3, <2>1 DEF StayGone
<1>. HIDE DEF sgs
<1>7. Book(groups, unclaimed, sgs, mSessionID, outcome, phase')
  BY <1>2, <1>3, <1>4, <1>5, <1>6 DEF Book
<1>8. Book(groups', unclaimed', socketGroups', mSessionID', outcome', phase') BY <1>7 DEF sgs
<1>. QED BY <1>1, <1>8, SameBook DEF SameGroups, SameKnown, Live, Known

LEMMA BookNamed ==
  ASSUME FlowInv, BookInv, NEW c \in Connection, HandleNamed(c)
  PROVE  BookInv' /\ SameGroups /\ SameKnown /\ ~SetSocketThrows(c)
<1>. DEFINE i == SelectInSeq(unclaimed, LAMBDA s : WaitsFor(s, c))
<1>1. SetSocket(c) BY DEF HandleNamed
<1>2. CASE ClaimedBy(c) # {}
  <2>1. PICK s \in ClaimedBy(c) : \E book \in {AddSocket(<<groups[s], outcome>>, c)} :
          Settle(s, book[1]) /\ outcome' = book[2] /\ UNCHANGED <<socketGroups, mSessionID>>
    BY <1>1, <1>2 DEF SetSocket
  <2>2. \E h, to : /\ h = AddSocket(<<groups[s], outcome>>, c)[1] /\ to = AddSocket(<<groups[s], outcome>>, c)[2]
                   /\ Settle(s, h) /\ outcome' = to /\ UNCHANGED <<socketGroups, mSessionID>>
    BY <2>1
  <2>3. BookInv' /\ SameGroups /\ SameKnown BY <2>2, NamedToItsGroup
  <2>. QED BY <1>2, <2>3 DEF SetSocketThrows
<1>3. CASE ClaimedBy(c) = {}
  <2>1. /\ i # 0 => Merge(unclaimed[i], <<groups[unclaimed[i]], outcome>>, SocketGroupOf(c))
        /\ i = 0 => /\ socketGroups' = WithSocket(c)
                    /\ UNCHANGED <<groups, unclaimed, mSessionID, outcome>>
    BY <1>1, <1>3 DEF SetSocket
  <2>2. /\ i # 0 => /\ unclaimed[i] \in DOMAIN groups /\ groups[unclaimed[i]].key = None
                    /\ WaitsFor(unclaimed[i], c)
        /\ i = 0 => \A t \in DOMAIN groups : groups[t].key = None => ~WaitsFor(t, c)
    BY TheWaiting
  <2>3. SetSocketThrows(c) => i # 0 /\ MergeThrows(unclaimed[i], groups[unclaimed[i]], SocketGroupOf(c))
    BY DEF SetSocketThrows
  <2>. HIDE DEF i
  <2>4. CASE i = 0
    <3>1. BookInv' /\ SameGroups /\ SameKnown BY <1>3, <2>1, <2>2, <2>4, NamedToItsSocketGroup
    <3>. QED BY <2>3, <2>4, <3>1
  <2>5. CASE i # 0
    <3>1. BookInv' /\ SameGroups /\ SameKnown /\ ~MergeThrows(unclaimed[i], groups[unclaimed[i]], SocketGroupOf(c))
      BY <1>3, <2>1, <2>2, <2>5, NamedToTheWaiting
    <3>. QED BY <2>3, <3>1
  <2>. QED BY <2>4, <2>5
<1>. QED BY <1>2, <1>3

-----------------------------------------------------------------------------
(* The book, handler by handler: a channel asks.                            *)

LEMMA TheOffering ==
  ASSUME BookInv, NEW ch, NEW i, i = SelectInSeq(socketGroups, LAMBDA sg : Offers(sg, ch))
  PROVE  /\ i # 0 => socketGroups[i] \in ToSet(socketGroups) /\ Offers(socketGroups[i], ch)
         /\ i = 0 => \A sg \in ToSet(socketGroups) : ~Offers(sg, ch)
<1>. DEFINE I == {k \in 1 .. Len(socketGroups) : Offers(socketGroups[k], ch)}
<1>1. i = IF I # {} THEN Min(I) ELSE 0 BY DEF SelectInSeq
<1>2. socketGroups \in Seq(SocketGroup) BY DEF BookInv, Book, OneOfEach
<1>3. I \subseteq 1 .. Len(socketGroups) OBVIOUS
<1>4. (i = 0 => I = {}) /\ (i # 0 => i \in I /\ i \in DOMAIN socketGroups)
  <2>. HIDE DEF I
  <2>. QED BY <1>1, <1>2, <1>3, Selected
<1>5. i # 0 => socketGroups[i] \in ToSet(socketGroups) /\ Offers(socketGroups[i], ch)
  BY <1>4 DEF ToSet
<1>6. ASSUME i = 0, NEW sg \in ToSet(socketGroups) PROVE ~Offers(sg, ch)
  <2>1. PICK k \in DOMAIN socketGroups : socketGroups[k] = sg BY DEF ToSet
  <2>2. k \in 1 .. Len(socketGroups) BY <1>2
  <2>. QED BY <1>4, <1>6, <2>1, <2>2
<1>. QED BY <1>5, <1>6

(* The channel is new, and its session still there.                         *)
LEMMA GetJoins ==
  ASSUME FlowInv, BookInv, NEW ch \in Channel, ~Known(ch), Live(ch[1]),
         NEW h, NEW to, h = AddChannel(<<groups[ch[1]], outcome>>, ch)[1],
         to = AddChannel(<<groups[ch[1]], outcome>>, ch)[2]
  PROVE  /\ Fits(ch[1], h, to) /\ OutcomesOK(to) /\ Joins(ch, groups[ch[1]], outcome, h, to)
         /\ AddChannel(<<groups[ch[1]], outcome>>, ch) = <<h, to>>
<1>. DEFINE s == ch[1]
            g == groups[s]
<1>1. work \in Cases BY DEF FlowInv, FlowTyped
<1>2. s \in DOMAIN groups /\ ch \notin Waiting(g) /\ outcome[ch] = None BY DEF Known, Live
<1>3. s \in Used /\ OutcomesOK(outcome) /\ Fits(s, g, outcome) BY <1>2, InBook
<1>4. ch \in ChannelsOf(s) BY DEF ChannelsOf
<1>5. h = AddChannel(<<g, outcome>>, ch)[1] /\ to = AddChannel(<<g, outcome>>, ch)[2] OBVIOUS
<1>. HIDE DEF s, g
<1>6. /\ Fits(s, h, to) /\ OutcomesOK(to) /\ Joins(ch, g, outcome, h, to)
      /\ AddChannel(<<g, outcome>>, ch) = <<h, to>>
  BY <1>1, <1>2, <1>3, <1>4, <1>5, AddChannelFits
<1>. QED BY <1>6 DEF s, g

LEMMA GetMerges ==
  ASSUME FlowInv, BookInv, NEW ch \in Channel, work' = work, phase' = phase, ~Known(ch), Live(ch[1]),
         NEW h, NEW to, Fits(ch[1], h, to), Joins(ch, groups[ch[1]], outcome, h, to),
         mSessionID[ch[1]] = 0, NEW sg \in ToSet(socketGroups), Offers(sg, ch),
         Merge(ch[1], <<h, to>>, sg)
  PROVE  /\ BookInv' /\ SameGroups /\ (Known(ch))'
         /\ \A a \in Channel : a # ch => ((Known(a))' <=> Known(a))
         /\ ~MergeThrows(ch[1], h, sg)
<1>. DEFINE s == ch[1]
            g == groups[s]
<1>1. work \in Cases /\ GroupsOK BY FlowGroups DEF FlowInv, FlowTyped
<1>2. s \in DOMAIN groups /\ g.live BY DEF Live
<1>3. /\ s \in Used /\ OutcomesOK(outcome) /\ Fits(s, g, outcome) /\ Identified(s, g, mSessionID[s])
  BY <1>2, InBook
<1>4. g.key = None BY <1>2, <1>3 DEF Identified
<1>5. Kept(g) = {} BY <1>1, <1>3, <1>4, UnpairedKeepsNothing
<1>6. /\ h.live = g.live /\ h.key = None /\ to = outcome
      /\ Waiting(h) \subseteq Waiting(g) \cup {ch} /\ Waiting(g) \subseteq Waiting(h) /\ ch \in Waiting(h)
  BY <1>4, <1>5 DEF Joins
<1>7. Fits(s, h, outcome) /\ Merge(s, <<h, outcome>>, sg) BY <1>6
<1>8. h.sockets = <<>> BY <1>1, <1>6, <1>7, UnpairedKeepsNothing
<1>9. /\ OneOfEach(socketGroups) /\ SocketsFit(sg, groups, outcome)
      /\ \A d \in Connection : Placed(groups, socketGroups, outcome, d) => phase[d] = "gone"
  BY DEF BookInv, Book
<1>10. sg \in SocketGroup /\ ToSet(sg.sockets) \subseteq Connection BY <1>9, SocketGroupIs
<1>11. sg.name = work.name[s] BY DEF Offers
<1>12. \A d \in ToSet(sg.sockets) : phase'[d] = "gone" BY <1>9, <1>10 DEF Placed
<1>13. StayGone(phase, phase') BY DEF StayGone
<1>14. \A t \in DOMAIN groups : groups[t].key # KeyOf(sg) BY <1>9 DEF SocketsFit
<1>15. h.live = groups[s].live /\ groups[s].key = None BY <1>4, <1>6
<1>16. ~MergeThrows(s, h, sg) BY <1>1, <1>2, <1>8, <1>14, <1>15, UnpairedCanMerge
<1>. HIDE DEF g, s
<1>17. /\ BookInv' /\ SameGroups
       /\ \A a \in Channel :
            /\ a[1] # s => ((Known(a))' <=> Known(a))
            /\ a[1] = s => ((Known(a))' <=> a \in Waiting(h) \/ outcome[a] # None)
  BY <1>1, <1>2, <1>6, <1>7, <1>9, <1>10, <1>11, <1>12, <1>13, <1>15, MergedBook
<1>18. (Known(ch))' BY <1>6, <1>17 DEF s
<1>19. ASSUME NEW a \in Channel, a # ch PROVE (Known(a))' <=> Known(a)
  <2>1. CASE a[1] = s BY <1>2, <1>6, <1>17, <1>19, <2>1 DEF Known, g
  <2>2. CASE a[1] # s BY <1>17, <2>2
  <2>. QED BY <2>1, <2>2
<1>. QED BY <1>16, <1>17, <1>18, <1>19 DEF s

LEMMA GetSettles ==
  ASSUME FlowInv, BookInv, NEW ch \in Channel, work' = work, phase' = phase, ~Known(ch), Live(ch[1]),
         NEW h, NEW to, Fits(ch[1], h, to), OutcomesOK(to), Joins(ch, groups[ch[1]], outcome, h, to),
         mSessionID[ch[1]] = 0 => \A sg \in ToSet(socketGroups) : ~Offers(sg, ch),
         Settle(ch[1], h), outcome' = to, UNCHANGED <<socketGroups, mSessionID>>
  PROVE  /\ BookInv' /\ SameGroups /\ (Known(ch))'
         /\ \A a \in Channel : a # ch => ((Known(a))' <=> Known(a))
<1>. DEFINE s == ch[1]
            g == groups[s]
<1>1. work \in Cases /\ GroupsOK BY FlowGroups DEF FlowInv, FlowTyped
<1>2. s \in DOMAIN groups /\ g.live BY DEF Live
<1>3. /\ s \in Used /\ OutcomesOK(outcome) /\ Fits(s, g, outcome) /\ Identified(s, g, mSessionID[s])
      /\ NoOffers(g, socketGroups)
  BY <1>2, InBook
<1>4. /\ h.live = g.live /\ h.key = g.key
      /\ Waiting(h) \subseteq Waiting(g) \cup {ch} /\ Waiting(g) \subseteq Waiting(h)
      /\ \A a \in Channel : a # ch => to[a] = outcome[a]
      /\ ch \in Waiting(h) \/ to[ch] # None
      /\ \A d \in Connection : d \in Kept(h) \/ Served(to, d) => d \in Kept(g) \/ Served(outcome, d)
  BY DEF Joins
<1>5. NoOffers(h, socketGroups)
  <2>1. ASSUME h.key = None PROVE mSessionID[s] = 0 BY <1>3, <1>4, <2>1 DEF Identified, None
  <2>. QED BY <1>3, <1>4, <2>1 DEF NoOffers
<1>6. Others(s, outcome, outcome') BY <1>4 DEF Others
<1>7. Brings(groups[s], h, outcome, outcome', {}) BY <1>4 DEF Brings
<1>8. AllGone({}, h.key, phase') /\ StayGone(phase, phase') BY DEF AllGone, StayGone
<1>9. Identified(s, h, mSessionID[s]) BY <1>3, <1>4 DEF Identified
<1>10. /\ Fits(s, h, outcome') /\ OutcomesOK(outcome') /\ h.key = groups[s].key /\ Settle(s, h)
  BY <1>4
<1>. HIDE DEF s, g
<1>11. /\ BookInv'
       /\ DOMAIN groups' \subseteq DOMAIN groups
       /\ \A t : t # s => ((Live(t))' <=> Live(t))
       /\ (Live(s))' <=> h.live
       /\ \A a \in Channel :
            /\ a[1] # s => ((Known(a))' <=> Known(a))
            /\ a[1] = s => ((Known(a))' <=> a \in Waiting(h) \/ outcome'[a] # None)
            /\ a[1] = s => (Known(a) <=> a \in Waiting(groups[s]) \/ outcome[a] # None)
  BY <1>1, <1>2, <1>5, <1>6, <1>7, <1>8, <1>9, <1>10, SettledBook
<1>12. SameGroups BY <1>2, <1>4, <1>11 DEF SameGroups, Live, g
<1>13. (Known(ch))' BY <1>4, <1>11 DEF s
<1>14. ASSUME NEW a \in Channel, a # ch PROVE (Known(a))' <=> Known(a)
  <2>1. CASE a[1] = s BY <1>4, <1>11, <1>14, <2>1 DEF g
  <2>2. CASE a[1] # s BY <1>11, <2>2
  <2>. QED BY <2>1, <2>2
<1>. QED BY <1>11, <1>12, <1>13, <1>14

LEMMA BookGet ==
  ASSUME FlowInv, BookInv, NEW ch \in Channel, HandleGet(ch), ~Known(ch), Live(ch[1])
  PROVE  /\ BookInv' /\ SameGroups /\ (Known(ch))'
         /\ \A a \in Channel : a # ch => ((Known(a))' <=> Known(a))
         /\ ~GetSocketThrows(ch)
<1>. DEFINE s == ch[1]
            i == SelectInSeq(socketGroups, LAMBDA sg : Offers(sg, ch))
<1>1. \E h, to : h = AddChannel(<<groups[s], outcome>>, ch)[1] /\ to = AddChannel(<<groups[s], outcome>>, ch)[2]
  OBVIOUS
<1>2. PICK h, to : h = AddChannel(<<groups[s], outcome>>, ch)[1] /\ to = AddChannel(<<groups[s], outcome>>, ch)[2]
  BY <1>1
<1>3. /\ Fits(s, h, to) /\ OutcomesOK(to) /\ Joins(ch, groups[s], outcome, h, to)
      /\ AddChannel(<<groups[s], outcome>>, ch) = <<h, to>>
  BY <1>2, GetJoins
<1>4. /\ mSessionID[s] = 0 /\ i # 0 => Merge(s, <<h, to>>, socketGroups[i])
      /\ ~(mSessionID[s] = 0 /\ i # 0) => Settle(s, h) /\ outcome' = to /\ UNCHANGED <<socketGroups, mSessionID>>
      /\ work' = work /\ phase' = phase
  <2>. DEFINE book == AddChannel(<<groups[s], outcome>>, ch)
  <2>1. /\ IF mSessionID[s] = 0 /\ i # 0 THEN Merge(s, book, socketGroups[i])
           ELSE Settle(s, book[1]) /\ outcome' = book[2] /\ UNCHANGED <<socketGroups, mSessionID>>
        /\ work' = work /\ phase' = phase
    BY DEF HandleGet
  <2>2. book = <<h, to>> /\ book[1] = h /\ book[2] = to BY <1>2, <1>3
  <2>. HIDE DEF book, i
  <2>. QED BY <2>1, <2>2
<1>5. GetSocketThrows(ch) => mSessionID[s] = 0 /\ i # 0 /\ MergeThrows(s, h, socketGroups[i])
  BY <1>3 DEF GetSocketThrows
<1>6. /\ i # 0 => socketGroups[i] \in ToSet(socketGroups) /\ Offers(socketGroups[i], ch)
      /\ i = 0 => \A sg \in ToSet(socketGroups) : ~Offers(sg, ch)
  BY TheOffering
<1>. HIDE DEF i
<1>7. CASE mSessionID[s] = 0 /\ i # 0
  <2>1. /\ BookInv' /\ SameGroups /\ (Known(ch))'
        /\ \A a \in Channel : a # ch => ((Known(a))' <=> Known(a))
        /\ ~MergeThrows(s, h, socketGroups[i])
    BY <1>3, <1>4, <1>6, <1>7, GetMerges
  <2>. QED BY <1>5, <2>1
<1>8. CASE ~(mSessionID[s] = 0 /\ i # 0)
  <2>1. /\ BookInv' /\ SameGroups /\ (Known(ch))'
        /\ \A a \in Channel : a # ch => ((Known(a))' <=> Known(a))
    BY <1>3, <1>4, <1>6, <1>8, GetSettles
  <2>. QED BY <1>5, <1>8, <2>1
<1>. QED BY <1>7, <1>8

-----------------------------------------------------------------------------
(* What the threads have asked for, and what has come of it.                *)

(* A session that a stopped acceptor refused.                               *)
TurnedAway(s) == s \notin DOMAIN groups /\ mStopped /\ added[s] = 0

(* A session posts one handler at a time, and from the answer to subscribe  *)
(* until unsubscribe has run its group is there.                            *)
SessionOK(s) ==
  /\ InStrand("subscribe", s) => user[s] = "subscribing" /\ OnceInStrand("subscribe", s)
  /\ InStrand("unsubscribe", s) => user[s] = "stopping" /\ OnceInStrand("unsubscribe", s)
  /\ user[s] \in {"new", "subscribing"} => added[s] = 0 /\ s \notin DOMAIN groups /\ mSessionID[s] = 0
  /\ user[s] = "open" => Live(s)
  /\ user[s] = "failed" => TurnedAway(s)
  /\ user[s] = "stopping" => Live(s) \/ TurnedAway(s)

(* A channel asks once, when it has been added and before its session goes. *)
ChannelOK(ch) ==
  /\ InStrand("get", ch) =>
       /\ ch[2] <= added[ch[1]] /\ user[ch[1]] \in {"open", "stopping"} /\ OnceInStrand("get", ch)
       /\ Ahead("get", ch, "unsubscribe", ch[1]) /\ ~Known(ch)
  /\ ch[2] <= added[ch[1]] => InStrand("get", ch) \/ Known(ch)
  /\ Known(ch) => ch[2] <= added[ch[1]]
  /\ InStrand("cancel", ch) => ch[2] <= added[ch[1]]

Threads == (\A s \in Used : SessionOK(s)) /\ (\A ch \in Channel : ChannelOK(ch))

(* Handlers of a session or a channel that a step leaves in the strand.     *)
Keeps(t, y) ==
  /\ (InStrand(t, y))' => InStrand(t, y)
  /\ OnceInStrand(t, y) => (OnceInStrand(t, y))'

SessionStrand(s) == Keeps("subscribe", s) /\ Keeps("unsubscribe", s)

ChannelStrand(ch) ==
  /\ Keeps("get", ch) /\ (InStrand("get", ch) => (InStrand("get", ch))')
  /\ Ahead("get", ch, "unsubscribe", ch[1]) => (Ahead("get", ch, "unsubscribe", ch[1]))'

SameIDs == \A t \in Used : t \notin DOMAIN groups => mSessionID'[t] = mSessionID[t]

LEMMA SessionStays ==
  ASSUME NEW s \in Used, SessionOK(s), SessionStrand(s), user'[s] = user[s],
         added'[s] = added[s] \/ (user[s] = "open" /\ added'[s] # 0),
         mStopped => mStopped', (Live(s))' <=> Live(s),
         s \notin DOMAIN groups => s \notin DOMAIN groups' /\ mSessionID'[s] = mSessionID[s]
  PROVE  SessionOK(s)'
<1>1. /\ (InStrand("subscribe", s))' => InStrand("subscribe", s)
      /\ OnceInStrand("subscribe", s) => (OnceInStrand("subscribe", s))'
      /\ (InStrand("unsubscribe", s))' => InStrand("unsubscribe", s)
      /\ OnceInStrand("unsubscribe", s) => (OnceInStrand("unsubscribe", s))'
  BY DEF SessionStrand, Keeps
<1>2. /\ (InStrand("subscribe", s))' => user'[s] = "subscribing" /\ (OnceInStrand("subscribe", s))'
      /\ (InStrand("unsubscribe", s))' => user'[s] = "stopping" /\ (OnceInStrand("unsubscribe", s))'
  BY <1>1 DEF SessionOK
<1>3. user'[s] \in {"new", "subscribing"} => added'[s] = 0 /\ s \notin DOMAIN groups' /\ mSessionID'[s] = 0
  BY DEF SessionOK
<1>4. user'[s] = "open" => (Live(s))' BY DEF SessionOK
<1>5. TurnedAway(s) /\ user[s] # "open" => (TurnedAway(s))' BY DEF TurnedAway
<1>6. user'[s] = "failed" => (TurnedAway(s))' BY <1>5 DEF SessionOK
<1>7. user'[s] = "stopping" => (Live(s))' \/ (TurnedAway(s))' BY <1>5 DEF SessionOK
<1>. HIDE DEF TurnedAway
<1>. QED BY <1>2, <1>3, <1>4, <1>6, <1>7 DEF SessionOK

LEMMA ChannelStays ==
  ASSUME NEW ch \in Channel, ChannelOK(ch), ChannelStrand(ch),
         (InStrand("cancel", ch))' => InStrand("cancel", ch) \/ ch[2] <= added[ch[1]],
         user'[ch[1]] = user[ch[1]] \/ (user[ch[1]] = "open" /\ user'[ch[1]] = "stopping")
         \/ ~InStrand("get", ch),
         ch[2] <= added'[ch[1]] <=> ch[2] <= added[ch[1]],
         (Known(ch))' <=> Known(ch)
  PROVE  ChannelOK(ch)'
<1>. DEFINE s == ch[1]
            asked == ch[2] <= added[s]
<1>1. /\ (InStrand("get", ch))' <=> InStrand("get", ch)
      /\ OnceInStrand("get", ch) => (OnceInStrand("get", ch))'
      /\ Ahead("get", ch, "unsubscribe", s) => (Ahead("get", ch, "unsubscribe", s))'
  BY DEF ChannelStrand, Keeps
<1>2. /\ InStrand("get", ch) => asked /\ user[s] \in {"open", "stopping"} /\ OnceInStrand("get", ch)
                                /\ Ahead("get", ch, "unsubscribe", s) /\ ~Known(ch)
      /\ asked => InStrand("get", ch) \/ Known(ch)
      /\ Known(ch) => asked
      /\ InStrand("cancel", ch) => asked
  BY DEF ChannelOK
<1>3. asked' <=> asked OBVIOUS
<1>4. user[s] \in {"open", "stopping"} /\ InStrand("get", ch) => user'[s] \in {"open", "stopping"} OBVIOUS
<1>. HIDE DEF asked
<1>5. (InStrand("cancel", ch))' => asked' BY <1>2, <1>3 DEF asked
<1>6. /\ (InStrand("get", ch))' => asked' /\ user'[s] \in {"open", "stopping"} /\ (OnceInStrand("get", ch))'
                                   /\ (Ahead("get", ch, "unsubscribe", s))' /\ ~(Known(ch))'
      /\ asked' => (InStrand("get", ch))' \/ (Known(ch))'
      /\ (Known(ch))' => asked'
  BY <1>1, <1>2, <1>3, <1>4
<1>. QED BY <1>5, <1>6 DEF ChannelOK, asked

(* A step that neither answers a session nor adds a channel.                *)
LEMMA ThreadsStay ==
  ASSUME Threads, work' = work, UNCHANGED <<user, added>>, mStopped => mStopped',
         SameGroups, SameKnown, SameIDs,
         \A s \in Used : SessionStrand(s), \A ch \in Channel : ChannelStrand(ch),
         \A ch \in Channel : (InStrand("cancel", ch))' => InStrand("cancel", ch)
  PROVE  Threads'
<1>1. Used' = Used /\ Channel' = Channel BY SameWork
<1>2. ASSUME NEW s \in Used PROVE SessionOK(s)'
  <2>1. /\ (Live(s))' <=> Live(s)
        /\ s \notin DOMAIN groups => s \notin DOMAIN groups' /\ mSessionID'[s] = mSessionID[s]
    BY DEF SameGroups, SameIDs
  <2>2. SessionOK(s) /\ SessionStrand(s) BY DEF Threads
  <2>. QED BY <2>1, <2>2, SessionStays
<1>3. ASSUME NEW ch \in Channel PROVE ChannelOK(ch)'
  <2>1. (Known(ch))' <=> Known(ch) BY DEF SameKnown
  <2>2. ChannelOK(ch) /\ ChannelStrand(ch) BY DEF Threads
  <2>3. (InStrand("cancel", ch))' => InStrand("cancel", ch) OBVIOUS
  <2>. QED BY <2>1, <2>2, <2>3, ChannelStays
<1>. QED BY <1>1, <1>2, <1>3 DEF Threads

-----------------------------------------------------------------------------
(* The threads, step by step: the strand.                                   *)

LEMMA RanKeeps ==
  ASSUME strand \in Seq(Handlers), NEW tag, NEW x, Runs(Handler(tag, x)), Finish, work' = work
  PROVE  /\ \A s : SessionStrand(s)
         /\ \A ch : ~(tag = "get" /\ x = ch) => ChannelStrand(ch)
         /\ \A ch : (InStrand("cancel", ch))' => InStrand("cancel", ch)
<1>1. /\ \A t, y : (InStrand(t, y))' => InStrand(t, y)
      /\ \A t, y : InStrand(t, y) /\ ~(t = tag /\ y = x) => (InStrand(t, y))'
      /\ \A t, y : OnceInStrand(t, y) => (OnceInStrand(t, y))'
      /\ \A t, y, u, z : Ahead(t, y, u, z) => (Ahead(t, y, u, z))'
  BY RanOne
<1>2. \A t, y : Keeps(t, y) BY <1>1 DEF Keeps
<1>3. \A s : SessionStrand(s) BY <1>2 DEF SessionStrand
<1>4. ASSUME NEW ch, ~(tag = "get" /\ x = ch) PROVE ChannelStrand(ch)
  <2>1. InStrand("get", ch) => (InStrand("get", ch))' BY <1>1, <1>4
  <2>2. Ahead("get", ch, "unsubscribe", ch[1]) => (Ahead("get", ch, "unsubscribe", ch[1]))' BY <1>1
  <2>. QED BY <1>2, <2>1, <2>2 DEF ChannelStrand
<1>. QED BY <1>1, <1>3, <1>4

LEMMA PostedKeeps ==
  ASSUME strand \in Seq(Handlers), NEW tag \in Tags, NEW x \in Things, Post(<<Handler(tag, x)>>), work' = work
  PROVE  /\ \A s : ~(tag \in {"subscribe", "unsubscribe"} /\ x = s) => SessionStrand(s)
         /\ \A ch : ~(tag = "get" /\ x = ch) => ChannelStrand(ch)
         /\ \A ch : (InStrand("cancel", ch))' => InStrand("cancel", ch) \/ (tag = "cancel" /\ x = ch)
<1>1. /\ \A t, y : (InStrand(t, y))' <=> InStrand(t, y) \/ (t = tag /\ y = x)
      /\ \A t, y : OnceInStrand(t, y) /\ ~(t = tag /\ y = x) => (OnceInStrand(t, y))'
      /\ \A t, y, u, z : Ahead(t, y, u, z) /\ ~(t = tag /\ y = x) => (Ahead(t, y, u, z))'
  BY PostedOne
<1>2. \A t, y : ~(t = tag /\ y = x) => Keeps(t, y) BY <1>1 DEF Keeps
<1>3. ASSUME NEW s, ~(tag \in {"subscribe", "unsubscribe"} /\ x = s) PROVE SessionStrand(s)
  <2>1. ~("subscribe" = tag /\ s = x) /\ ~("unsubscribe" = tag /\ s = x) BY <1>3
  <2>. QED BY <1>2, <2>1 DEF SessionStrand
<1>4. ASSUME NEW ch, ~(tag = "get" /\ x = ch) PROVE ChannelStrand(ch)
  <2>1. ~("get" = tag /\ ch = x) BY <1>4
  <2>2. Keeps("get", ch) /\ (InStrand("get", ch) => (InStrand("get", ch))') BY <1>1, <1>2, <2>1
  <2>3. Ahead("get", ch, "unsubscribe", ch[1]) => (Ahead("get", ch, "unsubscribe", ch[1]))' BY <1>1, <2>1
  <2>. QED BY <2>2, <2>3 DEF ChannelStrand
<1>5. \A ch : (InStrand("cancel", ch))' => InStrand("cancel", ch) \/ (tag = "cancel" /\ x = ch) BY <1>1
<1>. QED BY <1>3, <1>4, <1>5

LEMMA TwoPostedKeep ==
  ASSUME strand \in Seq(Handlers), work' = work, NEW h, NEW i, h = Handler("start", None), i = Handler("erase", None),
         Post(<<h, i>>)
  PROVE  /\ \A s : SessionStrand(s)
         /\ \A ch : ChannelStrand(ch)
         /\ \A ch : (InStrand("cancel", ch))' => InStrand("cancel", ch)
<1>1. h \in Handlers /\ i \in Handlers BY ThingsAre DEF Handlers, Tags
<1>2. /\ \A g : Has(strand', g) <=> Has(strand, g) \/ g = h \/ g = i
      /\ \A g : Once(strand, g) /\ g # h /\ g # i => Once(strand', g)
      /\ \A g, u : Before(strand, g, u) /\ g # h /\ g # i => Before(strand', g, u)
  BY <1>1, PostingTwo
<1>3. \A t \in {"subscribe", "unsubscribe", "get", "cancel"} : \A y : Handler(t, y) # h /\ Handler(t, y) # i
  BY HandlersDiffer
<1>4. ASSUME NEW t \in {"subscribe", "unsubscribe", "get", "cancel"}, NEW y
      PROVE  /\ (InStrand(t, y))' <=> InStrand(t, y)
             /\ OnceInStrand(t, y) => (OnceInStrand(t, y))'
             /\ \A u, z : Ahead(t, y, u, z) => (Ahead(t, y, u, z))'
  <2>1. (InStrand(t, y))' = Has(strand', Handler(t, y)) /\ InStrand(t, y) = Has(strand, Handler(t, y))
    BY DEF InStrand, Handler
  <2>2. (InStrand(t, y))' <=> InStrand(t, y) BY <1>2, <1>3, <2>1
  <2>3. OnceInStrand(t, y) => (OnceInStrand(t, y))' BY <1>2, <1>3 DEF OnceInStrand, Handler
  <2>4. \A u, z : Ahead(t, y, u, z) => (Ahead(t, y, u, z))' BY <1>2, <1>3 DEF Ahead, Handler
  <2>. QED BY <2>2, <2>3, <2>4
<1>5. \A s : SessionStrand(s) BY <1>4 DEF SessionStrand, Keeps
<1>6. \A ch : ChannelStrand(ch) BY <1>4 DEF ChannelStrand, Keeps
<1>7. \A ch : (InStrand("cancel", ch))' => InStrand("cancel", ch) BY <1>4
<1>. QED BY <1>5, <1>6, <1>7

LEMMA StrandKeeps ==
  ASSUME strand' = strand
  PROVE  /\ \A s : SessionStrand(s)
         /\ \A ch : ChannelStrand(ch)
         /\ \A ch : (InStrand("cancel", ch))' => InStrand("cancel", ch)
<1>1. \A t, y : (InStrand(t, y))' <=> InStrand(t, y) BY DEF InStrand, Has, Handler
<1>2. \A t, y : (OnceInStrand(t, y))' <=> OnceInStrand(t, y) BY DEF OnceInStrand, Once, Handler
<1>3. \A t, y, u, z : (Ahead(t, y, u, z))' <=> Ahead(t, y, u, z) BY DEF Ahead, Before, Handler
<1>. QED BY <1>1, <1>2, <1>3 DEF SessionStrand, ChannelStrand, Keeps

-----------------------------------------------------------------------------
(* The book and the threads, step by step.                                  *)

(* Steps that touch neither.                                                *)
LEMMA StepAside ==
  ASSUME BookInv, Threads, work' = work,
         UNCHANGED <<groups, unclaimed, socketGroups, mSessionID, outcome, user, added>>,
         mStopped => mStopped', StayGone(phase, phase'),
         \A s : SessionStrand(s), \A ch : ChannelStrand(ch),
         \A ch : (InStrand("cancel", ch))' => InStrand("cancel", ch)
  PROVE  BookInv' /\ Threads'
<1>1. BookInv' /\ SameGroups /\ SameKnown BY BookStays DEF StayGone
<1>2. SameIDs BY DEF SameIDs
<1>. QED BY <1>1, <1>2, ThreadsStay

LEMMA NothingMoves ==
  ASSUME GroupIsGone \/ StopReturn
  PROVE  UNCHANGED <<work, groups, unclaimed, socketGroups, mSessionID, outcome, user, added, mStopped, phase, strand>>
BY DEF GroupIsGone, StopReturn, userUnchanged, bookVars, stopVars, userVars

LEMMA OnlyPhaseMoves ==
  ASSUME NEW c, Connect(c) \/ AskName(c)
  PROVE  UNCHANGED <<work, groups, unclaimed, socketGroups, mSessionID, outcome, user, added, mStopped, strand>>
BY DEF Connect, AskName, netUnchanged, bookVars, stopVars, userVars

LEMMA StepNet ==
  ASSUME FlowInv, BookInv, Threads,
         \/ HandleStart \/ HandleStop \/ GroupIsGone \/ AcceptAborted \/ StopReturn \/ CallStop
         \/ HandleErase(None)
         \/ \E c \in Connection : \/ HandleErase(Of(c)) \/ Connect(c) \/ Accepted(c) \/ AskName(c)
                                  \/ NameArrives(c) \/ NameFails(c)
  PROVE  BookInv' /\ Threads'
<1>. DEFINE Aside == /\ work' = work
                     /\ UNCHANGED <<groups, unclaimed, socketGroups, mSessionID, outcome, user, added>>
                     /\ mStopped => mStopped'
                     /\ StayGone(phase, phase')
            Kept3 == /\ \A s : SessionStrand(s)
                     /\ \A ch : ChannelStrand(ch)
                     /\ \A ch : (InStrand("cancel", ch))' => InStrand("cancel", ch)
<1>1. strand \in Seq(Handlers) /\ phase \in [Connection -> Phases] BY DEF FlowInv, FlowTyped
<1>2. Aside /\ Kept3 => BookInv' /\ Threads' BY StepAside
<1>3. ASSUME NEW tag, NEW x, Runs(Handler(tag, x)), Finish, work' = work, tag # "get" PROVE Kept3
  BY <1>1, <1>3, RanKeeps
<1>4. ASSUME NEW tag \in Tags, NEW x \in Things, Post(<<Handler(tag, x)>>), work' = work,
             tag \notin {"get", "cancel", "subscribe", "unsubscribe"}
      PROVE  Kept3
  BY <1>1, <1>4, PostedKeeps
<1>5. strand' = strand => Kept3 BY StrandKeeps
<1>6. ASSUME NEW c \in Connection, NEW p, phase[c] # "gone" \/ p = "gone", phase' = [phase EXCEPT ![c] = p]
      PROVE  StayGone(phase, phase')
  BY <1>1, <1>6 DEF StayGone
<1>7. phase' = phase => StayGone(phase, phase') BY DEF StayGone
<1>8. /\ "start" \in Tags /\ "erase" \in Tags /\ "named" \in Tags /\ "stop" \in Tags /\ None \in Things
      /\ \A c \in Connection : Of(c) \in Things
  BY ThingsAre DEF Tags
<1>. HIDE DEF Kept3
<1>9. CASE HandleStart
  <2>1. Aside BY <1>7, <1>9 DEF HandleStart, bookVars, stopVars, userVars
  <2>2. Runs(Handler("start", None)) /\ Finish BY <1>9 DEF HandleStart, Handler
  <2>. QED BY <1>2, <1>3, <2>1, <2>2
<1>10. CASE HandleStop
  <2>1. Aside BY <1>7, <1>10 DEF HandleStop, bookVars, userVars
  <2>2. Runs(Handler("stop", None)) /\ Finish BY <1>10 DEF HandleStop, Handler
  <2>. QED BY <1>2, <1>3, <2>1, <2>2
<1>11. CASE GroupIsGone \/ StopReturn
  <2>1. Aside /\ strand' = strand BY <1>7, <1>11, NothingMoves
  <2>. QED BY <1>2, <1>5, <2>1
<1>12. CASE AcceptAborted
  <2>1. Aside BY <1>7, <1>12 DEF AcceptAborted, netUnchanged, bookVars, stopVars, userVars
  <2>2. Post(<<Handler("start", None), Handler("erase", None)>>) BY <1>12 DEF AcceptAborted, Handler
  <2>3. Kept3 BY <1>1, <2>1, <2>2, TwoPostedKeep DEF Kept3
  <2>. QED BY <1>2, <2>1, <2>3
<1>13. CASE CallStop
  <2>1. Aside BY <1>7, <1>13 DEF CallStop, userUnchanged, bookVars, stopVars
  <2>2. Post(<<Handler("stop", None)>>) BY <1>13 DEF CallStop, Handler
  <2>. QED BY <1>2, <1>4, <1>8, <2>1, <2>2
<1>14. CASE HandleErase(None)
  <2>1. Aside BY <1>7, <1>14 DEF HandleErase, bookVars, userVars
  <2>2. Runs(Handler("erase", None)) /\ Finish BY <1>14 DEF HandleErase, Handler
  <2>. QED BY <1>2, <1>3, <2>1, <2>2
<1>15. ASSUME NEW c \in Connection, HandleErase(Of(c)) PROVE BookInv' /\ Threads'
  <2>1. Of(c)[1] = c /\ Of(c) # None BY DEF Of, None
  <2>2. phase' = [phase EXCEPT ![c] = "gone"] BY <1>15, <2>1 DEF HandleErase
  <2>3. Aside BY <1>6, <1>15, <2>2 DEF HandleErase, bookVars, userVars
  <2>4. Runs(Handler("erase", Of(c))) /\ Finish BY <1>15 DEF HandleErase, Handler
  <2>. QED BY <1>2, <1>3, <2>3, <2>4
<1>16. ASSUME NEW c \in Connection, Connect(c) \/ AskName(c) PROVE BookInv' /\ Threads'
  <2>1. StayGone(phase, phase') BY <1>6, <1>16 DEF Connect, AskName
  <2>2. Aside /\ strand' = strand BY <1>16, <2>1, OnlyPhaseMoves
  <2>. QED BY <1>2, <1>5, <2>2
<1>17. ASSUME NEW c \in Connection, Accepted(c) PROVE BookInv' /\ Threads'
  <2>1. StayGone(phase, phase') BY <1>6, <1>17 DEF Accepted
  <2>2. Aside BY <1>17, <2>1 DEF Accepted, netUnchanged, bookVars, stopVars, userVars
  <2>3. Post(<<Handler("start", None)>>) BY <1>17 DEF Accepted, Handler
  <2>. QED BY <1>2, <1>4, <1>8, <2>2, <2>3
<1>18. ASSUME NEW c \in Connection, NameArrives(c) PROVE BookInv' /\ Threads'
  <2>1. StayGone(phase, phase') BY <1>6, <1>18 DEF NameArrives
  <2>2. Aside BY <1>18, <2>1 DEF NameArrives, netUnchanged, bookVars, stopVars, userVars
  <2>3. Post(<<Handler("named", Of(c))>>) BY <1>18 DEF NameArrives, Handler, Of
  <2>. QED BY <1>2, <1>4, <1>8, <2>2, <2>3
<1>19. ASSUME NEW c \in Connection, NameFails(c) PROVE BookInv' /\ Threads'
  <2>1. StayGone(phase, phase') BY <1>6, <1>19 DEF NameFails
  <2>2. Aside BY <1>19, <2>1 DEF NameFails, netUnchanged, bookVars, stopVars, userVars
  <2>3. Post(<<Handler("erase", Of(c))>>) BY <1>19 DEF NameFails, Handler, Of
  <2>. QED BY <1>2, <1>4, <1>8, <2>2, <2>3
<1>. HIDE DEF Aside
<1>. QED BY <1>9, <1>10, <1>11, <1>12, <1>13, <1>14, <1>15, <1>16, <1>17, <1>18, <1>19

LEMMA StepNamed ==
  ASSUME FlowInv, BookInv, Threads, NEW c \in Connection, HandleNamed(c)
  PROVE  BookInv' /\ Threads' /\ ~SetSocketThrows(c)
<1>1. BookInv' /\ SameGroups /\ SameKnown /\ ~SetSocketThrows(c) BY BookNamed
<1>2. /\ Runs(Handler("named", Of(c))) /\ Finish /\ work' = work /\ UNCHANGED <<user, added, mStopped>>
  BY DEF HandleNamed, Handler, Of, userVars
<1>3. strand \in Seq(Handlers) BY DEF FlowInv, FlowTyped
<1>4. /\ \A s : SessionStrand(s)
      /\ \A ch : ChannelStrand(ch)
      /\ \A ch : (InStrand("cancel", ch))' => InStrand("cancel", ch)
  BY <1>2, <1>3, RanKeeps
<1>5. SameIDs
  <2>1. CASE ClaimedBy(c) # {}
    <3>1. mSessionID' = mSessionID BY <2>1 DEF HandleNamed, SetSocket
    <3>. QED BY <3>1 DEF SameIDs
  <2>2. CASE ClaimedBy(c) = {}
    <3>. DEFINE i == SelectInSeq(unclaimed, LAMBDA s : WaitsFor(s, c))
                u == unclaimed[i]
    <3>1. /\ i # 0 => Merge(u, <<groups[u], outcome>>, SocketGroupOf(c))
          /\ i = 0 => mSessionID' = mSessionID
      BY <2>2 DEF HandleNamed, SetSocket
    <3>2. /\ i # 0 => u \in DOMAIN groups /\ groups[u].key = None /\ WaitsFor(u, c)
          /\ i = 0 => \A t \in DOMAIN groups : groups[t].key = None => ~WaitsFor(t, c)
      BY TheWaiting
    <3>3. i # 0 => \E n : mSessionID' = [mSessionID EXCEPT ![u] = n] \/ mSessionID' = mSessionID
      BY <3>1 DEF Merge
    <3>. HIDE DEF i, u
    <3>. QED BY <3>1, <3>2, <3>3 DEF SameIDs, BookInv, Book
  <2>. QED BY <2>1, <2>2
<1>. QED BY <1>1, <1>2, <1>4, <1>5, ThreadsStay

LEMMA StepCancel ==
  ASSUME FlowInv, BookInv, Threads, NEW ch \in Channel, HandleCancel(ch)
  PROVE  BookInv' /\ Threads'
<1>1. BookInv' /\ SameGroups /\ SameKnown BY BookCancel
<1>2. /\ Runs(Handler("cancel", ch)) /\ Finish /\ work' = work /\ UNCHANGED <<user, added, mStopped, mSessionID>>
  BY DEF HandleCancel, Handler, userVars
<1>3. strand \in Seq(Handlers) BY DEF FlowInv, FlowTyped
<1>4. /\ \A s : SessionStrand(s)
      /\ \A a : ChannelStrand(a)
      /\ \A a : (InStrand("cancel", a))' => InStrand("cancel", a)
  BY <1>2, <1>3, RanKeeps
<1>5. SameIDs BY <1>2 DEF SameIDs
<1>. QED BY <1>1, <1>2, <1>4, <1>5, ThreadsStay

LEMMA NoneAhead ==
  ASSUME strand \in Seq(Handlers), NEW t, NEW y, NEW u, NEW z, Runs(Handler(u, z)), Ahead(t, y, u, z)
  PROVE  ~InStrand(t, y)
<1>1. strand # <<>> /\ Head(strand) = Handler(u, z) BY DEF Runs
<1>2. 1 \in DOMAIN strand /\ strand[1] = Head(strand) /\ DOMAIN strand = 1 .. Len(strand) /\ Len(strand) \in Nat
  <2>. HIDE DEF Handlers
  <2>. QED BY <1>1
<1>3. SUFFICES ASSUME InStrand(t, y) PROVE FALSE OBVIOUS
<1>4. PICK j \in DOMAIN strand : strand[j] = Handler(t, y) BY <1>3 DEF InStrand, Has
<1>5. j < 1 BY <1>1, <1>2, <1>4 DEF Ahead, Before
<1>. QED BY <1>2, <1>4, <1>5

LEMMA StepGet ==
  ASSUME FlowInv, BookInv, Threads, Counted, NEW ch \in Channel, HandleGet(ch)
  PROVE  BookInv' /\ Threads' /\ ~GetSocketThrows(ch)
<1>. DEFINE s == ch[1]
<1>1. /\ Runs(Handler("get", ch)) /\ Finish /\ work' = work /\ UNCHANGED <<user, added, mStopped>>
      /\ s \in DOMAIN groups
  BY DEF HandleGet, Handler, userVars
<1>2. strand \in Seq(Handlers) BY DEF FlowInv, FlowTyped
<1>3. InStrand("get", ch) /\ ((OnceInStrand("get", ch)) => ~(InStrand("get", ch))') BY <1>1, <1>2, RanOne
<1>4. s \in Used /\ ch[2] \in Nat /\ ch[2] \in DOMAIN work.plan[s] BY ChannelIs DEF FlowInv, FlowTyped
<1>5. /\ ch[2] <= added[s] /\ user[s] \in {"open", "stopping"} /\ OnceInStrand("get", ch) /\ ~Known(ch)
  BY <1>3 DEF Threads, ChannelOK
<1>6. Live(s) BY <1>1, <1>4, <1>5 DEF Threads, SessionOK, TurnedAway
<1>7. /\ BookInv' /\ SameGroups /\ (Known(ch))' /\ ~GetSocketThrows(ch)
      /\ \A a \in Channel : a # ch => ((Known(a))' <=> Known(a))
  BY <1>5, <1>6, BookGet
<1>8. /\ \A t : SessionStrand(t)
      /\ \A a : ~("get" = "get" /\ ch = a) => ChannelStrand(a)
      /\ \A a : (InStrand("cancel", a))' => InStrand("cancel", a)
  BY <1>1, <1>2, RanKeeps
<1>9. SameIDs
  <2>. DEFINE i == SelectInSeq(socketGroups, LAMBDA sg : Offers(sg, ch))
              book == AddChannel(<<groups[s], outcome>>, ch)
  <2>1. \/ mSessionID[s] = 0 /\ i # 0 /\ Merge(s, book, socketGroups[i])
        \/ mSessionID' = mSessionID
    BY DEF HandleGet
  <2>2. \E n : mSessionID' = [mSessionID EXCEPT ![s] = n] \/ mSessionID' = mSessionID
    BY <2>1 DEF Merge
  <2>. HIDE DEF i, book
  <2>. QED BY <1>1, <2>2 DEF SameIDs, BookInv, Book
<1>10. Used' = Used /\ Channel' = Channel BY <1>1, SameWork
<1>11. ASSUME NEW t \in Used PROVE SessionOK(t)'
  <2>1. /\ (Live(t))' <=> Live(t)
        /\ t \notin DOMAIN groups => t \notin DOMAIN groups' /\ mSessionID'[t] = mSessionID[t]
    BY <1>7, <1>9 DEF SameGroups, SameIDs
  <2>2. SessionOK(t) /\ SessionStrand(t) BY <1>8 DEF Threads
  <2>. QED BY <1>1, <2>1, <2>2, SessionStays
<1>12. ASSUME NEW a \in Channel, a # ch PROVE ChannelOK(a)'
  <2>1. (Known(a))' <=> Known(a) BY <1>7, <1>12
  <2>2. ChannelOK(a) /\ ChannelStrand(a) BY <1>8, <1>12 DEF Threads
  <2>3. (InStrand("cancel", a))' => InStrand("cancel", a) BY <1>8
  <2>. QED BY <1>1, <2>1, <2>2, <2>3, ChannelStays
<1>13. ChannelOK(ch)'
  <2>1. ~(InStrand("get", ch))' BY <1>3, <1>5
  <2>. QED BY <1>1, <1>5, <1>7, <2>1 DEF ChannelOK
<1>. QED BY <1>7, <1>10, <1>11, <1>12, <1>13 DEF Threads

LEMMA StepSubscribe ==
  ASSUME FlowInv, BookInv, Threads, Counted, NEW s \in Used, HandleSubscribe(s)
  PROVE  BookInv' /\ Threads'
<1>1. /\ Runs(Handler("subscribe", s)) /\ Finish /\ work' = work
      /\ UNCHANGED <<added, mStopped, mSessionID>> /\ work \in Cases
      /\ user' = [user EXCEPT ![s] = IF mStopped THEN "failed" ELSE "open"]
  BY DEF HandleSubscribe, Handler, stopVars, FlowInv, FlowTyped
<1>2. strand \in Seq(Handlers) BY DEF FlowInv, FlowTyped
<1>3. InStrand("subscribe", s) /\ (OnceInStrand("subscribe", s) => ~(InStrand("subscribe", s))')
      /\ ((InStrand("unsubscribe", s))' => InStrand("unsubscribe", s))
  BY <1>1, <1>2, RanOne
<1>4. /\ user[s] = "subscribing" /\ OnceInStrand("subscribe", s) /\ ~InStrand("unsubscribe", s)
      /\ added[s] = 0 /\ s \notin DOMAIN groups /\ mSessionID[s] = 0
  BY <1>3 DEF Threads, SessionOK
<1>5. \A ch \in ChannelsOf(s) : ~Known(ch)
  <2>1. SUFFICES ASSUME NEW ch \in ChannelsOf(s) PROVE ~Known(ch) OBVIOUS
  <2>2. ch \in Channel /\ ch[1] = s BY DEF ChannelsOf
  <2>3. ch[2] \in DOMAIN work.plan[s] /\ work.plan[s] \in Seq(STRING) BY <1>1, <2>2, ChannelIs, TheCase
  <2>4. ch[2] \in 1 .. Len(work.plan[s]) BY <2>3
  <2>5. ~(ch[2] <= added[s]) BY <1>4, <2>4
  <2>. QED BY <2>2, <2>5 DEF Threads, ChannelOK
<1>6. \A ch \in ChannelsOf(s) : outcome[ch] = None BY <1>5 DEF Known
<1>7. /\ BookInv' /\ SameKnown
      /\ DOMAIN groups' \subseteq DOMAIN groups \cup {s}
      /\ \A t : t # s => ((Live(t))' <=> Live(t))
      /\ (Live(s))' <=> ~mStopped
      /\ mStopped => s \notin DOMAIN groups'
  BY <1>4, <1>6, BookSubscribe
<1>8. /\ \A t : SessionStrand(t)
      /\ \A a : ~("subscribe" = "get" /\ s = a) => ChannelStrand(a)
      /\ \A a : (InStrand("cancel", a))' => InStrand("cancel", a)
  BY <1>1, <1>2, RanKeeps
<1>9. /\ user' \in [Used -> Users] /\ user'[s] = (IF mStopped THEN "failed" ELSE "open")
      /\ \A t \in Used : t # s => user'[t] = user[t]
  BY <1>1 DEF Counted, Users
<1>10. Used' = Used /\ Channel' = Channel BY <1>1, SameWork
<1>11. ASSUME NEW t \in Used, t # s PROVE SessionOK(t)'
  <2>1. /\ (Live(t))' <=> Live(t)
        /\ t \notin DOMAIN groups => t \notin DOMAIN groups' /\ mSessionID'[t] = mSessionID[t]
    BY <1>1, <1>7, <1>11
  <2>2. SessionOK(t) /\ SessionStrand(t) BY <1>8 DEF Threads
  <2>3. user'[t] = user[t] /\ added'[t] = added[t] /\ (mStopped => mStopped') BY <1>1, <1>9, <1>11
  <2>. QED BY <2>1, <2>2, <2>3, SessionStays
<1>12. SessionOK(s)'
  <2>1. ~(InStrand("subscribe", s))' /\ ~(InStrand("unsubscribe", s))' BY <1>3, <1>4
  <2>2. CASE mStopped
    <3>1. user'[s] = "failed" BY <1>9, <2>2
    <3>2. (TurnedAway(s))' BY <1>1, <1>4, <1>7, <2>2 DEF TurnedAway
    <3>. QED BY <2>1, <3>1, <3>2 DEF SessionOK
  <2>3. CASE ~mStopped
    <3>1. user'[s] = "open" BY <1>9, <2>3
    <3>2. (Live(s))' BY <1>7, <2>3
    <3>. QED BY <2>1, <3>1, <3>2 DEF SessionOK
  <2>. QED BY <2>2, <2>3
<1>13. ASSUME NEW a \in Channel PROVE ChannelOK(a)'
  <2>1. (Known(a))' <=> Known(a) BY <1>7 DEF SameKnown
  <2>2. ChannelOK(a) /\ ChannelStrand(a) BY <1>8 DEF Threads
  <2>3. (InStrand("cancel", a))' => InStrand("cancel", a) BY <1>8
  <2>4. a[1] \in Used BY <1>1, ChannelIs
  <2>5. user'[a[1]] = user[a[1]] \/ ~InStrand("get", a)
    <3>1. a[1] = s => ~InStrand("get", a) BY <1>4, <2>2 DEF ChannelOK
    <3>. QED BY <1>9, <2>4, <3>1
  <2>. QED BY <1>1, <2>1, <2>2, <2>3, <2>5, ChannelStays
<1>. QED BY <1>7, <1>10, <1>11, <1>12, <1>13 DEF Threads

LEMMA StepUnsubscribe ==
  ASSUME FlowInv, BookInv, Threads, Counted, NEW s \in Used, HandleUnsubscribe(s)
  PROVE  BookInv' /\ Threads'
<1>1. /\ Runs(Handler("unsubscribe", s)) /\ Finish /\ work' = work
      /\ UNCHANGED <<added, mStopped, mSessionID>> /\ work \in Cases
      /\ user' = [user EXCEPT ![s] = "stopped"]
  BY DEF HandleUnsubscribe, Handler, FlowInv, FlowTyped
<1>2. strand \in Seq(Handlers) BY DEF FlowInv, FlowTyped
<1>3. /\ InStrand("unsubscribe", s) /\ (OnceInStrand("unsubscribe", s) => ~(InStrand("unsubscribe", s))')
      /\ ((InStrand("subscribe", s))' => InStrand("subscribe", s))
  BY <1>1, <1>2, RanOne
<1>4. user[s] = "stopping" /\ OnceInStrand("unsubscribe", s) /\ ~InStrand("subscribe", s)
  BY <1>3 DEF Threads, SessionOK
<1>5. /\ BookInv' /\ SameKnown
      /\ DOMAIN groups' \subseteq DOMAIN groups
      /\ \A t : t # s => ((Live(t))' <=> Live(t))
      /\ ~(Live(s))'
  BY BookUnsubscribe
<1>6. /\ \A t : SessionStrand(t)
      /\ \A a : ~("unsubscribe" = "get" /\ s = a) => ChannelStrand(a)
      /\ \A a : (InStrand("cancel", a))' => InStrand("cancel", a)
  BY <1>1, <1>2, RanKeeps
<1>7. user'[s] = "stopped" /\ \A t \in Used : t # s => user'[t] = user[t] BY <1>1 DEF Counted
<1>8. Used' = Used /\ Channel' = Channel BY <1>1, SameWork
<1>9. ASSUME NEW t \in Used, t # s PROVE SessionOK(t)'
  <2>1. /\ (Live(t))' <=> Live(t)
        /\ t \notin DOMAIN groups => t \notin DOMAIN groups' /\ mSessionID'[t] = mSessionID[t]
    BY <1>1, <1>5, <1>9
  <2>2. SessionOK(t) /\ SessionStrand(t) BY <1>6 DEF Threads
  <2>3. user'[t] = user[t] /\ added'[t] = added[t] /\ (mStopped => mStopped') BY <1>1, <1>7, <1>9
  <2>. QED BY <2>1, <2>2, <2>3, SessionStays
<1>10. SessionOK(s)'
  <2>1. ~(InStrand("subscribe", s))' /\ ~(InStrand("unsubscribe", s))' BY <1>3, <1>4
  <2>. QED BY <1>7, <2>1 DEF SessionOK
<1>11. ASSUME NEW a \in Channel PROVE ChannelOK(a)'
  <2>1. (Known(a))' <=> Known(a) BY <1>5 DEF SameKnown
  <2>2. ChannelOK(a) /\ ChannelStrand(a) BY <1>6 DEF Threads
  <2>3. (InStrand("cancel", a))' => InStrand("cancel", a) BY <1>6
  <2>4. a[1] \in Used BY <1>1, ChannelIs
  <2>5. user'[a[1]] = user[a[1]] \/ ~InStrand("get", a)
    <3>1. ASSUME a[1] = s, InStrand("get", a) PROVE FALSE
      <4>1. Ahead("get", a, "unsubscribe", s) BY <2>2, <3>1 DEF ChannelOK
      <4>. QED BY <1>1, <1>2, <3>1, <4>1, NoneAhead
    <3>. QED BY <1>7, <2>4, <3>1
  <2>. QED BY <1>1, <2>1, <2>2, <2>3, <2>5, ChannelStays
<1>. QED BY <1>5, <1>8, <1>9, <1>10, <1>11 DEF Threads

(* The threads of the sessions post and count; the book stays.              *)
LEMMA BookAside ==
  ASSUME BookInv, UNCHANGED userUnchanged
  PROVE  /\ work' = work /\ BookInv' /\ SameGroups /\ SameKnown /\ SameIDs
         /\ groups' = groups /\ mSessionID' = mSessionID /\ mStopped' = mStopped
<1>1. /\ work' = work /\ UNCHANGED <<groups, unclaimed, socketGroups, mSessionID, outcome, phase, mStopped>>
  BY DEF userUnchanged, bookVars, stopVars
<1>2. \A c \in Connection : phase[c] = "gone" => phase'[c] = "gone" BY <1>1
<1>3. BookInv' /\ SameGroups /\ SameKnown BY <1>1, <1>2, BookStays
<1>4. SameIDs BY <1>1 DEF SameIDs
<1>. QED BY <1>1, <1>3, <1>4

LEMMA StepStart ==
  ASSUME FlowInv, BookInv, Threads, Counted, NEW s \in Used, StartSession(s)
  PROVE  BookInv' /\ Threads'
<1>1. /\ Post(<<Handler("subscribe", s)>>) /\ UNCHANGED userUnchanged /\ added' = added
      /\ user[s] = "new" /\ user' = [user EXCEPT ![s] = "subscribing"]
  BY DEF StartSession, Handler
<1>2. strand \in Seq(Handlers) /\ work \in Cases BY DEF FlowInv, FlowTyped
<1>3. /\ work' = work /\ BookInv' /\ SameGroups /\ SameKnown
      /\ groups' = groups /\ mSessionID' = mSessionID /\ mStopped' = mStopped
  BY <1>1, BookAside
<1>4. "subscribe" \in Tags /\ s \in Things BY ThingsAre DEF Tags
<1>5. /\ \A t : ~("subscribe" \in {"subscribe", "unsubscribe"} /\ s = t) => SessionStrand(t)
      /\ \A a : ~("subscribe" = "get" /\ s = a) => ChannelStrand(a)
      /\ \A a : (InStrand("cancel", a))' => InStrand("cancel", a) \/ ("subscribe" = "cancel" /\ s = a)
  BY <1>1, <1>2, <1>3, <1>4, PostedKeeps
<1>6. /\ \A t, y : (InStrand(t, y))' <=> InStrand(t, y) \/ (t = "subscribe" /\ y = s)
      /\ ~InStrand("subscribe", s) => (OnceInStrand("subscribe", s))'
  BY <1>1, <1>2, <1>3, <1>4, PostedOne
<1>7. user'[s] = "subscribing" /\ \A t \in Used : t # s => user'[t] = user[t] BY <1>1 DEF Counted
<1>8. Used' = Used /\ Channel' = Channel BY <1>3, SameWork
<1>9. ASSUME NEW t \in Used, t # s PROVE SessionOK(t)'
  <2>1. SessionOK(t) /\ SessionStrand(t) /\ ((Live(t))' <=> Live(t)) BY <1>3, <1>5, <1>9 DEF Threads, SameGroups
  <2>. QED BY <1>1, <1>3, <1>7, <1>9, <2>1, SessionStays
<1>10. SessionOK(s)'
  <2>1. /\ added[s] = 0 /\ s \notin DOMAIN groups /\ mSessionID[s] = 0
        /\ ~InStrand("subscribe", s) /\ ~InStrand("unsubscribe", s)
    BY <1>1 DEF Threads, SessionOK
  <2>2. (OnceInStrand("subscribe", s))' /\ ~(InStrand("unsubscribe", s))' BY <1>6, <2>1
  <2>. QED BY <1>1, <1>3, <1>7, <2>1, <2>2 DEF SessionOK
<1>11. ASSUME NEW a \in Channel PROVE ChannelOK(a)'
  <2>1. ((Known(a))' <=> Known(a)) /\ ChannelOK(a) /\ ChannelStrand(a) BY <1>3, <1>5 DEF Threads, SameKnown
  <2>2. (InStrand("cancel", a))' => InStrand("cancel", a) BY <1>5
  <2>3. a[1] \in Used BY <1>2, ChannelIs
  <2>4. user'[a[1]] = user[a[1]] \/ ~InStrand("get", a)
    <3>1. a[1] = s => ~InStrand("get", a) BY <1>1, <2>1 DEF ChannelOK
    <3>. QED BY <1>7, <2>3, <3>1
  <2>. QED BY <1>1, <2>1, <2>2, <2>4, ChannelStays
<1>. QED BY <1>3, <1>8, <1>9, <1>10, <1>11 DEF Threads

LEMMA StepStop ==
  ASSUME FlowInv, BookInv, Threads, Counted, NEW s \in Used, StopSession(s)
  PROVE  BookInv' /\ Threads'
<1>1. /\ Post(<<Handler("unsubscribe", s)>>) /\ UNCHANGED userUnchanged /\ added' = added
      /\ user[s] \in {"failed", "open"} /\ user' = [user EXCEPT ![s] = "stopping"]
  BY DEF StopSession, Handler
<1>2. strand \in Seq(Handlers) /\ work \in Cases BY DEF FlowInv, FlowTyped
<1>3. /\ work' = work /\ BookInv' /\ SameGroups /\ SameKnown
      /\ groups' = groups /\ mSessionID' = mSessionID /\ mStopped' = mStopped
  BY <1>1, BookAside
<1>4. "unsubscribe" \in Tags /\ s \in Things BY ThingsAre DEF Tags
<1>5. /\ \A t : ~("unsubscribe" \in {"subscribe", "unsubscribe"} /\ s = t) => SessionStrand(t)
      /\ \A a : ~("unsubscribe" = "get" /\ s = a) => ChannelStrand(a)
      /\ \A a : (InStrand("cancel", a))' => InStrand("cancel", a) \/ ("unsubscribe" = "cancel" /\ s = a)
  BY <1>1, <1>2, <1>3, <1>4, PostedKeeps
<1>6. /\ \A t, y : (InStrand(t, y))' <=> InStrand(t, y) \/ (t = "unsubscribe" /\ y = s)
      /\ ~InStrand("unsubscribe", s) => (OnceInStrand("unsubscribe", s))'
  BY <1>1, <1>2, <1>3, <1>4, PostedOne
<1>7. user'[s] = "stopping" /\ \A t \in Used : t # s => user'[t] = user[t] BY <1>1 DEF Counted
<1>8. Used' = Used /\ Channel' = Channel BY <1>3, SameWork
<1>9. ASSUME NEW t \in Used, t # s PROVE SessionOK(t)'
  <2>1. SessionOK(t) /\ SessionStrand(t) /\ ((Live(t))' <=> Live(t)) BY <1>3, <1>5, <1>9 DEF Threads, SameGroups
  <2>. QED BY <1>1, <1>3, <1>7, <1>9, <2>1, SessionStays
<1>10. SessionOK(s)'
  <2>1. /\ ~InStrand("subscribe", s) /\ ~InStrand("unsubscribe", s) /\ (Live(s) \/ TurnedAway(s))
    BY <1>1 DEF Threads, SessionOK
  <2>2. (OnceInStrand("unsubscribe", s))' /\ ~(InStrand("subscribe", s))' BY <1>6, <2>1
  <2>3. (Live(s))' \/ (TurnedAway(s))' BY <1>1, <1>3, <2>1 DEF TurnedAway, SameGroups
  <2>. QED BY <1>7, <2>2, <2>3 DEF SessionOK
<1>11. ASSUME NEW a \in Channel PROVE ChannelOK(a)'
  <2>1. ((Known(a))' <=> Known(a)) /\ ChannelOK(a) /\ ChannelStrand(a) BY <1>3, <1>5 DEF Threads, SameKnown
  <2>2. (InStrand("cancel", a))' => InStrand("cancel", a) BY <1>5
  <2>3. a[1] \in Used BY <1>2, ChannelIs
  <2>4. user'[a[1]] = user[a[1]] \/ (user[a[1]] = "open" /\ user'[a[1]] = "stopping") \/ ~InStrand("get", a)
    <3>1. user[s] = "failed" /\ a[1] = s => ~InStrand("get", a) BY <2>1 DEF ChannelOK
    <3>. QED BY <1>1, <1>7, <2>3, <3>1
  <2>. QED BY <1>1, <2>1, <2>2, <2>4, ChannelStays
<1>. QED BY <1>3, <1>8, <1>9, <1>10, <1>11 DEF Threads

LEMMA StepAdd ==
  ASSUME FlowInv, BookInv, Threads, Counted, NEW s \in Used, AddChannelTo(s)
  PROVE  BookInv' /\ Threads'
<1>1. strand \in Seq(Handlers) /\ work \in Cases BY DEF FlowInv, FlowTyped
<1>2. added'[s] = added[s] + 1 /\ <<s, added'[s]>> \in Channel BY <1>1, NextChannel
<1>3. PICK n : n = added[s] + 1 OBVIOUS
<1>4. PICK ch : ch = <<s, n>> OBVIOUS
<1>5. /\ Post(<<Handler("get", ch)>>) /\ UNCHANGED userUnchanged /\ user' = user
      /\ user[s] = "open" /\ added' = [added EXCEPT ![s] = @ + 1]
  BY <1>2, <1>3, <1>4 DEF AddChannelTo, Handler
<1>6. /\ work' = work /\ BookInv' /\ SameGroups /\ SameKnown
      /\ groups' = groups /\ mSessionID' = mSessionID /\ mStopped' = mStopped
  BY <1>5, BookAside
<1>7. n = added[s] + 1 /\ n = added'[s] /\ ch \in Channel BY <1>2, <1>3, <1>4
<1>8. /\ added[s] \in Nat /\ \A t \in Used : t # s => added'[t] = added[t]
  BY <1>5 DEF Counted
<1>9. ch[1] = s /\ ch[2] = n /\ \A a \in Channel : a[1] = s /\ a # ch => a[2] # n /\ a[2] \in Nat
  <2>1. \A a \in Channel : a = <<a[1], a[2]>> /\ a[2] \in Nat BY <1>1, ChannelIs
  <2>. QED BY <1>4, <2>1
<1>10. "get" \in Tags /\ ch \in Things BY <1>7, ThingsAre DEF Tags
<1>11. /\ \A t : ~("get" \in {"subscribe", "unsubscribe"} /\ ch = t) => SessionStrand(t)
       /\ \A a : ~("get" = "get" /\ ch = a) => ChannelStrand(a)
       /\ \A a : (InStrand("cancel", a))' => InStrand("cancel", a) \/ ("get" = "cancel" /\ ch = a)
  BY <1>5, <1>1, <1>6, <1>10, PostedKeeps
<1>12. /\ \A t, y : (InStrand(t, y))' <=> InStrand(t, y) \/ (t = "get" /\ y = ch)
       /\ ~InStrand("get", ch) => (OnceInStrand("get", ch))'
       /\ \A u, z : ~InStrand(u, z) /\ u # "get" => (Ahead("get", ch, u, z))'
  BY <1>5, <1>1, <1>6, <1>10, PostedOne
<1>13. Used' = Used /\ Channel' = Channel BY <1>6, SameWork
<1>14. n # 0 BY <1>7, <1>8
<1>15. ASSUME NEW t \in Used PROVE SessionOK(t)'
  <2>1. SessionOK(t) /\ SessionStrand(t) /\ ((Live(t))' <=> Live(t)) BY <1>6, <1>11 DEF Threads, SameGroups
  <2>2. added'[t] = added[t] \/ (user[t] = "open" /\ added'[t] # 0)
    <3>1. t = s => added'[t] = n BY <1>7
    <3>. QED BY <1>5, <1>8, <1>14, <3>1
  <2>. QED BY <1>5, <1>6, <2>1, <2>2, SessionStays
<1>16. ASSUME NEW a \in Channel, a # ch PROVE ChannelOK(a)'
  <2>1. ((Known(a))' <=> Known(a)) /\ ChannelOK(a) /\ ChannelStrand(a)
    BY <1>6, <1>11, <1>16 DEF Threads, SameKnown
  <2>2. (InStrand("cancel", a))' => InStrand("cancel", a) BY <1>11
  <2>3. a[1] \in Used BY <1>1, ChannelIs
  <2>4. a[2] <= added'[a[1]] <=> a[2] <= added[a[1]]
    <3>1. CASE a[1] = s
      <4>1. added'[s] = n BY <1>7
      <4>2. a[2] # n /\ a[2] \in Nat BY <1>9, <1>16, <3>1
      <4>. QED BY <1>7, <1>8, <3>1, <4>1, <4>2
    <3>2. CASE a[1] # s BY <1>8, <2>3, <3>2
    <3>. QED BY <3>1, <3>2
  <2>. QED BY <1>5, <2>1, <2>2, <2>4, ChannelStays
<1>17. ChannelOK(ch)'
  <2>1. ~(ch[2] <= added[s]) BY <1>7, <1>8, <1>9
  <2>2. ~Known(ch) /\ ~InStrand("get", ch) BY <1>7, <1>9, <2>1 DEF Threads, ChannelOK
  <2>3. ~InStrand("unsubscribe", s) BY <1>5 DEF Threads, SessionOK
  <2>4. /\ (InStrand("get", ch))' /\ (OnceInStrand("get", ch))' /\ (Ahead("get", ch, "unsubscribe", s))'
    BY <1>12, <2>2, <2>3
  <2>5. ~(Known(ch))' BY <1>6, <1>7, <2>2 DEF SameKnown
  <2>6. ch[2] <= added'[s]
    <3>1. added'[s] = n BY <1>7
    <3>. QED BY <1>7, <1>8, <1>9, <3>1
  <2>7. user'[s] = "open" BY <1>5
  <2>. QED BY <1>9, <2>4, <2>5, <2>6, <2>7 DEF ChannelOK
<1>. QED BY <1>6, <1>7, <1>13, <1>15, <1>16, <1>17 DEF Threads

LEMMA StepCallCancel ==
  ASSUME FlowInv, BookInv, Threads, Counted, NEW ch \in Channel, CancelChannel(ch)
  PROVE  BookInv' /\ Threads'
<1>1. /\ Post(<<Handler("cancel", ch)>>) /\ UNCHANGED userUnchanged /\ added' = added /\ user' = user
      /\ ch[2] <= added[ch[1]]
  BY DEF CancelChannel, Handler
<1>2. strand \in Seq(Handlers) /\ work \in Cases BY DEF FlowInv, FlowTyped
<1>3. /\ work' = work /\ BookInv' /\ SameGroups /\ SameKnown
      /\ groups' = groups /\ mSessionID' = mSessionID /\ mStopped' = mStopped
  BY <1>1, BookAside
<1>4. "cancel" \in Tags /\ ch \in Things BY ThingsAre DEF Tags
<1>5. /\ \A t : ~("cancel" \in {"subscribe", "unsubscribe"} /\ ch = t) => SessionStrand(t)
      /\ \A a : ~("cancel" = "get" /\ ch = a) => ChannelStrand(a)
      /\ \A a : (InStrand("cancel", a))' => InStrand("cancel", a) \/ ("cancel" = "cancel" /\ ch = a)
  BY <1>1, <1>2, <1>3, <1>4, PostedKeeps
<1>6. Used' = Used /\ Channel' = Channel BY <1>3, SameWork
<1>7. ASSUME NEW t \in Used PROVE SessionOK(t)'
  <2>1. SessionOK(t) /\ SessionStrand(t) /\ ((Live(t))' <=> Live(t)) BY <1>3, <1>5 DEF Threads, SameGroups
  <2>. QED BY <1>1, <1>3, <2>1, SessionStays
<1>8. ASSUME NEW a \in Channel PROVE ChannelOK(a)'
  <2>1. ((Known(a))' <=> Known(a)) /\ ChannelOK(a) /\ ChannelStrand(a) BY <1>3, <1>5 DEF Threads, SameKnown
  <2>2. (InStrand("cancel", a))' => InStrand("cancel", a) \/ a[2] <= added[a[1]] BY <1>1, <1>5
  <2>. QED BY <1>1, <2>1, <2>2, ChannelStays
<1>. QED BY <1>3, <1>6, <1>7, <1>8 DEF Threads

-----------------------------------------------------------------------------
(* The whole of the acceptor.                                               *)

Whole == FlowInv /\ Counted /\ BookInv /\ Threads /\ closed \subseteq Connection

LEMMA ClosedKept ==
  ASSUME closed \subseteq Connection, [Next]_vars
  PROVE  closed' \subseteq Connection'
<1>1. work' = work => Connection' = Connection BY SameWork
<1>2. CASE UNCHANGED <<work, closed>> BY <1>1, <1>2
<1>3. CASE HandleStop
  <2>1. work' = work /\ closed' \subseteq Connection BY <1>3 DEF HandleStop
  <2>. QED BY <1>1, <2>1
<1>4. UNCHANGED vars => UNCHANGED <<work, closed>> BY DEF vars, stopVars
<1>5. HandleStart \/ GroupIsGone \/ HandleErase(None) => UNCHANGED <<work, closed>>
  BY DEF HandleStart, GroupIsGone, HandleErase, stopVars
<1>6. ASSUME NEW c, HandleErase(<<c>>) \/ HandleNamed(c) PROVE UNCHANGED <<work, closed>>
  BY <1>6 DEF HandleErase, HandleNamed
<1>7. ASSUME NEW ch, HandleGet(ch) \/ HandleCancel(ch) PROVE UNCHANGED <<work, closed>>
  BY <1>7 DEF HandleGet, HandleCancel
<1>8. ASSUME NEW s, HandleSubscribe(s) \/ HandleUnsubscribe(s) PROVE UNCHANGED <<work, closed>>
  BY <1>8 DEF HandleSubscribe, HandleUnsubscribe, stopVars
<1>9. ASSUME NEW c, Connect(c) \/ Accepted(c) \/ AskName(c) \/ NameArrives(c) \/ NameFails(c)
      PROVE  UNCHANGED <<work, closed>>
  BY <1>9 DEF Connect, Accepted, AskName, NameArrives, NameFails, netUnchanged, stopVars
<1>10. ASSUME NEW s, StartSession(s) \/ AddChannelTo(s) \/ StopSession(s) PROVE UNCHANGED <<work, closed>>
  BY <1>10 DEF StartSession, AddChannelTo, StopSession, userUnchanged, stopVars
<1>11. ASSUME NEW ch, CancelChannel(ch) PROVE UNCHANGED <<work, closed>>
  BY <1>11 DEF CancelChannel, userUnchanged, stopVars
<1>12. AcceptAborted \/ CallStop \/ StopReturn => UNCHANGED <<work, closed>>
  BY DEF AcceptAborted, CallStop, StopReturn, netUnchanged, userUnchanged, stopVars
<1>. QED BY <1>2, <1>3, <1>4, <1>5, <1>6, <1>7, <1>8, <1>9, <1>10, <1>11, <1>12 DEF Next, StrandStep

LEMMA WholeInit ==
  ASSUME Init
  PROVE  Whole
<1>1. /\ groups = <<>> /\ unclaimed = <<>> /\ socketGroups = <<>> /\ strand = <<>> /\ closed = {}
      /\ mSessionID = [s \in Used |-> 0] /\ outcome = [ch \in Channel |-> None] /\ work \in Cases
      /\ user = [s \in Used |-> "new"] /\ added = [s \in Used |-> 0]
  BY DEF Init
<1>2. DOMAIN groups = {} /\ ToSet(unclaimed) = {} /\ ToSet(socketGroups) = {} BY <1>1 DEF ToSet
<1>3. outcome \in [Channel -> Outcomes] /\ \A ch \in Channel : outcome[ch] = None BY <1>1, OutcomesDiffer
<1>4. \A ch \in Channel : \A c : outcome[ch] # Socket(c) BY <1>3, OutcomesDiffer
<1>5. OutcomesOK(outcome) BY <1>3, <1>4 DEF OutcomesOK
<1>6. ListOK(unclaimed, groups) BY <1>1, <1>2 DEF ListOK, IsInjective
<1>7. OneOfEach(socketGroups)
  <2>. HIDE DEF SocketGroup
  <2>. QED BY <1>1 DEF OneOfEach
<1>8. \A c \in Connection : ~Placed(groups, socketGroups, outcome, c) BY <1>2, <1>4 DEF Placed, Served
<1>9. BookInv BY <1>1, <1>2, <1>5, <1>6, <1>7, <1>8 DEF BookInv, Book
<1>10. \A t, y : ~InStrand(t, y) BY <1>1 DEF InStrand, Has
<1>11. \A s \in Used : SessionOK(s) BY <1>1, <1>2, <1>10 DEF SessionOK
<1>12. ASSUME NEW ch \in Channel PROVE ChannelOK(ch)
  <2>1. ~Known(ch) BY <1>2, <1>3 DEF Known
  <2>2. ch[1] \in Used /\ ch[2] \in DOMAIN work.plan[ch[1]] BY <1>1, ChannelIs
  <2>3. work.plan[ch[1]] \in Seq(STRING) BY <1>1, <2>2, TheCase
  <2>4. ch[2] \in 1 .. Len(work.plan[ch[1]]) BY <2>2, <2>3
  <2>5. ~(ch[2] <= added[ch[1]]) BY <1>1, <2>2, <2>4
  <2>. QED BY <1>10, <2>1, <2>5 DEF ChannelOK
<1>. QED BY <1>1, <1>9, <1>11, <1>12, FlowInit DEF Whole, Threads

LEMMA WholeStep ==
  ASSUME FlowInv, Counted, BookInv, Threads, [Next]_vars
  PROVE  BookInv' /\ Threads'
<1>1. CASE UNCHANGED vars
  <2>1. work' = work /\ UNCHANGED <<groups, unclaimed, socketGroups, mSessionID, outcome, user, added, mStopped,
                                    phase, strand>>
    BY <1>1 DEF vars, bookVars, stopVars, userVars
  <2>2. StayGone(phase, phase') BY <2>1 DEF StayGone
  <2>3. strand' = strand BY <2>1
  <2>. QED BY <2>1, <2>2, <2>3, StrandKeeps, StepAside
<1>2. CASE Next
  <2>1. CASE \/ HandleStart \/ HandleStop \/ GroupIsGone \/ HandleErase(None)
             \/ AcceptAborted \/ StopReturn \/ CallStop
    BY <2>1, StepNet
  <2>2. ASSUME NEW c \in Connection,
               HandleErase(<<c>>) \/ Connect(c) \/ Accepted(c) \/ AskName(c) \/ NameArrives(c) \/ NameFails(c)
        PROVE  BookInv' /\ Threads'
    <3>1. HandleErase(<<c>>) => HandleErase(Of(c)) BY DEF Of
    <3>. QED BY <2>2, <3>1, StepNet
  <2>3. ASSUME NEW c \in Connection, HandleNamed(c) PROVE BookInv' /\ Threads' BY <2>3, StepNamed
  <2>4. ASSUME NEW ch \in Channel, HandleGet(ch) \/ HandleCancel(ch) \/ CancelChannel(ch)
        PROVE  BookInv' /\ Threads'
    BY <2>4, StepGet, StepCancel, StepCallCancel
  <2>5. ASSUME NEW s \in Used, \/ HandleSubscribe(s) \/ HandleUnsubscribe(s)
                               \/ StartSession(s) \/ AddChannelTo(s) \/ StopSession(s)
        PROVE  BookInv' /\ Threads'
    BY <2>5, StepSubscribe, StepUnsubscribe, StepStart, StepAdd, StepStop
  <2>. QED BY <1>2, <2>1, <2>2, <2>3, <2>4, <2>5 DEF Next, StrandStep
<1>. QED BY <1>1, <1>2

LEMMA Invariance == Spec => []Whole
<1>1. Init => Whole BY WholeInit
<1>2. Whole /\ [Next]_vars => Whole'
  BY FlowNext, WholeStep, ClosedKept DEF Whole
<1>. QED BY <1>1, <1>2, PTL DEF Spec

-----------------------------------------------------------------------------
(* The theorems.                                                            *)

LEMMA SeqOfMore ==
  ASSUME NEW S, NEW T, S \subseteq T, NEW q \in Seq(S)
  PROVE  q \in Seq(T)
OBVIOUS

(* All tables of the acceptor are of their types: the unclaimed list holds  *)
(* the groups that are not paired, each once, no group is kept that nobody  *)
(* wants (removeSessionGroup), and a session has the ID of the remote       *)
(* session its group is paired with (SessionGroup::merge).                  *)
THEOREM TypeCorrect == Spec => []TypeOK
<1>1. Whole => TypeOK
  <2>1. SUFFICES ASSUME Whole PROVE TypeOK OBVIOUS
  <2>2. /\ work \in Cases /\ accepting \in Nat /\ aborted \in Nat /\ phase \in [Connection -> Phases]
        /\ closed \subseteq Connection /\ \A s \in DOMAIN groups : HasSubscriptions(groups[s])
    BY <2>1 DEF Whole, FlowInv, FlowTyped, Listening
  <2>3. /\ DOMAIN groups \subseteq Used /\ OutcomesOK(outcome) /\ ListOK(unclaimed, groups)
        /\ \A t \in DOMAIN groups : Fits(t, groups[t], outcome) /\ Identified(t, groups[t], mSessionID[t])
    BY <2>1 DEF Whole, BookInv, Book
  <2>4. ASSUME NEW s \in DOMAIN groups
        PROVE  groups[s].channels \in Seq({s} \X Nat) /\ groups[s].sockets \in Seq(Connection)
    <3>1. groups[s] \in Group(s) BY <2>3 DEF Fits
    <3>2. groups[s].channels \in Seq(ChannelsOf(s)) /\ groups[s].sockets \in Seq(Connection) BY <3>1, GroupIs
    <3>3. ASSUME NEW ch \in ChannelsOf(s) PROVE ch \in {s} \X Nat
      <4>1. ch \in Channel /\ ch[1] = s BY DEF ChannelsOf
      <4>2. ch = <<ch[1], ch[2]>> /\ ch[2] \in Nat BY <2>2, <4>1, ChannelIs
      <4>. QED BY <4>1, <4>2
    <3>4. ChannelsOf(s) \subseteq {s} \X Nat BY <3>3
    <3>. QED BY <3>2, <3>4, SeqOfMore
  <2>5. ToSet(unclaimed) = {s \in DOMAIN groups : groups[s].key = None} /\ IsInjective(unclaimed)
    BY <2>3 DEF ListOK
  <2>6. \A s \in Used : mSessionID[s] # 0 /\ s \in DOMAIN groups => groups[s].key = <<work.name[s], mSessionID[s]>>
    BY <2>3 DEF Identified
  <2>7. \A ch \in Channel : outcome[ch] \in {None, Refused} \cup {<<"socket", c>> : c \in Connection}
    BY <2>3 DEF OutcomesOK, Outcomes, Socket
  <2>. QED BY <2>2, <2>3, <2>4, <2>5, <2>6, <2>7 DEF TypeOK
<1>. QED BY <1>1, Invariance, PTL

(* No channel waits while a socket that goes with it is kept, in its group  *)
(* or among the sockets of a remote session its session could be paired     *)
(* with, and no socket is kept where the group that claimed its remote      *)
(* session does not find it (asyncGetSocket, asyncSetSocket).               *)
THEOREM NoMatchIsMissed == Spec => []NoMatchMissed
<1>1. Whole => NoMatchMissed
  <2>1. SUFFICES ASSUME Whole PROVE NoMatchMissed OBVIOUS
  <2>2. /\ \A t \in DOMAIN groups : Fits(t, groups[t], outcome)
        /\ \A sg \in ToSet(socketGroups) : SocketsFit(sg, groups, outcome)
        /\ \A t \in DOMAIN groups : groups[t].key = None =>
             \A ch \in Waiting(groups[t]) : \A sg \in ToSet(socketGroups) : ~Offers(sg, ch)
    BY <2>1 DEF Whole, BookInv, Book
  <2>3. \A s \in DOMAIN groups : \A ch \in ToSet(groups[s].channels) :
          /\ \A c \in ToSet(groups[s].sockets) : ~Match(ch, c)
          /\ groups[s].key = None => \A sg \in ToSet(socketGroups) : ~Offers(sg, ch)
    BY <2>2 DEF Fits, Waiting, Kept
  <2>4. ASSUME NEW sg \in ToSet(socketGroups), NEW c \in ToSet(sg.sockets) PROVE ClaimedBy(c) = {}
    BY <2>2 DEF SocketsFit, ClaimedBy
  <2>. QED BY <2>3, <2>4 DEF NoMatchMissed
<1>. QED BY <1>1, Invariance, PTL

(* A session is served by one remote session of its name, each channel by a *)
(* connection of its own and of its name, whichever of several sessions     *)
(* and remote sessions of one name come first (SessionGroup::add,           *)
(* SessionGroup::merge).                                                    *)
THEOREM ServedByOne == Spec => []ServedByOneSession
<1>1. Whole => ServedByOneSession
  <2>1. SUFFICES ASSUME Whole,
                        NEW ch \in Channel, outcome[ch] \notin {None, Refused},
                        NEW other \in Channel, outcome[other] \notin {None, Refused}
                 PROVE  LET c == outcome[ch][2]
                            d == outcome[other][2]
                        IN  /\ Match(ch, c) /\ Remote(c)[1] = work.name[ch[1]]
                            /\ ch # other => c # d
                            /\ ch[1] = other[1] => Remote(c) = Remote(d)
    BY DEF ServedByOneSession
  <2>2. OutcomesOK(outcome) BY <2>1 DEF Whole, BookInv, Book
  <2>3. PICK c \in Connection : outcome[ch] = Socket(c) BY <2>1, <2>2 DEF OutcomesOK, Outcomes
  <2>4. PICK d \in Connection : outcome[other] = Socket(d) BY <2>1, <2>2 DEF OutcomesOK, Outcomes
  <2>5. outcome[ch][2] = c /\ outcome[other][2] = d BY <2>3, <2>4 DEF Socket
  <2>6. Match(ch, c) /\ Remote(c)[1] = work.name[ch[1]] BY <2>2, <2>3 DEF OutcomesOK
  <2>7. c = d => ch = other BY <2>2, <2>3, <2>4 DEF OutcomesOK
  <2>8. ch[1] = other[1] => Remote(c) = Remote(d) BY <2>2, <2>3, <2>4 DEF OutcomesOK
  <2>. QED BY <2>5, <2>6, <2>7, <2>8
<1>. QED BY <1>1, Invariance, PTL

-----------------------------------------------------------------------------
(* What can end the process.                                                *)

LEMMA RunsIn ==
  ASSUME FlowInv, NEW tag, NEW x, Runs(Handler(tag, x))
  PROVE  InStrand(tag, x)
<1>1. strand # <<>> /\ Head(strand) = Handler(tag, x) /\ strand \in Seq(Handlers) BY DEF Runs, FlowInv, FlowTyped
<1>. QED BY <1>1, Taken DEF InStrand

(* The handler that erases still finds what it erases.                      *)
LEMMA NotErasedTwice ==
  ASSUME FlowInv,
         \/ Runs(Handler("erase", None))
         \/ \E c \in Connection : Runs(Handler("erase", Of(c))) \/ Runs(Handler("named", Of(c)))
  PROVE  ~ErasedTwice
<1>1. ErasedTwice => NoPending BY DEF ErasedTwice, LastErased, FlowInv, Erasing
<1>2. ~NoPending
  <2>1. CASE Runs(Handler("erase", None)) BY <2>1, RunsIn DEF NoPending
  <2>2. ASSUME NEW c \in Connection, Runs(Handler("erase", Of(c))) \/ Runs(Handler("named", Of(c)))
        PROVE  ~NoPending
    <3>1. InStrand("erase", Of(c)) \/ InStrand("named", Of(c)) BY <2>2, RunsIn
    <3>2. phase[c] \in Handshake BY <3>1 DEF FlowInv, Answering, Handshake
    <3>. QED BY <3>2 DEF NoPending
  <2>. QED BY <2>1, <2>2
<1>. QED BY <1>1, <1>2

(* A channel that was added belongs to no session that was turned away.     *)
LEMMA AddedIsNotTurnedAway ==
  ASSUME work \in Cases, NEW ch \in Channel, ch[2] <= added[ch[1]]
  PROVE  added[ch[1]] # 0 /\ ~TurnedAway(ch[1])
<1>1. ch[1] \in Used /\ ch[2] \in DOMAIN work.plan[ch[1]] BY ChannelIs
<1>2. work.plan[ch[1]] \in Seq(STRING) BY <1>1, TheCase
<1>3. ch[2] \in 1 .. Len(work.plan[ch[1]]) BY <1>1, <1>2
<1>4. added[ch[1]] # 0 BY <1>3
<1>. QED BY <1>4 DEF TurnedAway

LEMMA GoneForUnsubscribe ==
  ASSUME Whole, NEW s \in Used, s \notin DOMAIN groups, Runs(Handler("unsubscribe", s))
  PROVE  Head(strand) = <<"unsubscribe", s>> /\ mStopped /\ added[s] = 0
<1>1. Head(strand) = <<"unsubscribe", s>> BY DEF Runs, Handler
<1>2. InStrand("unsubscribe", s) BY RunsIn DEF Whole
<1>3. SessionOK(s) BY DEF Whole, Threads
<1>4. Live(s) \/ TurnedAway(s) BY <1>2, <1>3 DEF SessionOK
<1>5. TurnedAway(s) BY <1>4 DEF Live
<1>. QED BY <1>1, <1>5 DEF TurnedAway

LEMMA NeverGoneForGet ==
  ASSUME Whole, NEW ch \in Channel, Runs(Handler("get", ch))
  PROVE  ch[1] \in DOMAIN groups
<1>1. work \in Cases BY DEF Whole, FlowInv, FlowTyped
<1>2. ch[1] \in Used BY <1>1, ChannelIs
<1>3. InStrand("get", ch) BY RunsIn DEF Whole
<1>4. ChannelOK(ch) /\ SessionOK(ch[1]) BY <1>2 DEF Whole, Threads
<1>5. ch[2] <= added[ch[1]] /\ user[ch[1]] \in {"open", "stopping"} BY <1>3, <1>4 DEF ChannelOK
<1>6. Live(ch[1]) \/ TurnedAway(ch[1]) BY <1>4, <1>5 DEF SessionOK
<1>7. ~TurnedAway(ch[1]) BY <1>1, <1>5, AddedIsNotTurnedAway
<1>. QED BY <1>6, <1>7 DEF Live

LEMMA GoneForCancel ==
  ASSUME Whole, NEW ch \in Channel, ch[1] \notin DOMAIN groups, Runs(Handler("cancel", ch))
  PROVE  Head(strand) = <<"cancel", ch>> /\ user[ch[1]] = "stopped" /\ outcome[ch] # None
<1>. DEFINE s == ch[1]
<1>1. Head(strand) = <<"cancel", ch>> BY DEF Runs, Handler
<1>2. work \in Cases BY DEF Whole, FlowInv, FlowTyped
<1>3. s \in Used BY <1>2, ChannelIs
<1>4. ChannelOK(ch) /\ SessionOK(s) BY <1>3 DEF Whole, Threads
<1>5. InStrand("cancel", ch) BY RunsIn DEF Whole
<1>6. ch[2] <= added[s] /\ (InStrand("get", ch) \/ Known(ch)) BY <1>4, <1>5 DEF ChannelOK
<1>7. added[s] # 0 /\ ~TurnedAway(s) BY <1>2, <1>6, AddedIsNotTurnedAway
<1>8. ~Live(s) BY DEF Live
<1>9. user[s] \notin {"new", "subscribing", "open", "failed", "stopping"} BY <1>4, <1>7, <1>8 DEF SessionOK
<1>10. user[s] = "stopped" BY <1>3, <1>9 DEF Whole, Counted, Users
<1>11. ~InStrand("get", ch) BY <1>4, <1>10 DEF ChannelOK
<1>12. outcome[ch] # None BY <1>6, <1>11 DEF Known
<1>. QED BY <1>1, <1>10, <1>12

GoneAsKnown ==
  \/ \E s \in Used : Head(strand) = <<"unsubscribe", s>> /\ mStopped /\ added[s] = 0
  \/ \E ch \in Channel : Head(strand) = <<"cancel", ch>> /\ user[ch[1]] = "stopped" /\ outcome[ch] # None

LEMMA EndsInGone ==
  ASSUME Whole, GroupIsGone
  PROVE  EndsAreKnown'
<1>1. GoneAsKnown
  <2>1. \/ \E s \in Used \ DOMAIN groups : Runs(Handler("unsubscribe", s))
        \/ \E ch \in Channel : /\ ch[1] \notin DOMAIN groups
                               /\ Runs(Handler("get", ch)) \/ Runs(Handler("cancel", ch))
    BY DEF GroupIsGone, Handler
  <2>. QED BY <2>1, GoneForUnsubscribe, NeverGoneForGet, GoneForCancel DEF GoneAsKnown
<1>2. crash' = "group is gone" /\ UNCHANGED <<work, strand, mStopped, added, user, outcome>>
  BY DEF GroupIsGone, stopVars, userVars, bookVars
<1>3. Used' = Used /\ Channel' = Channel BY <1>2, SameWork
<1>4. GoneAsKnown' BY <1>1, <1>2, <1>3 DEF GoneAsKnown
<1>. QED BY <1>2, <1>4 DEF EndsAreKnown, GoneAsKnown

(* No other step ends the process but for the port and the closed socket.   *)
LEMMA HandlersEnd ==
  ASSUME Whole
  PROVE  /\ HandleStart \/ HandleStop \/ HandleErase(None) => crash' = "none"
         /\ \A c \in Connection : HandleErase(<<c>>) \/ HandleNamed(c) => crash' = "none"
         /\ \A ch \in Channel : HandleGet(ch) \/ HandleCancel(ch) => crash' = "none"
         /\ \A s \in Used : HandleSubscribe(s) => crash' \in {"none", "cannot bind"}
         /\ \A s \in Used : HandleUnsubscribe(s) => crash' = "none"
<1>1. FlowInv /\ Counted /\ BookInv /\ Threads BY DEF Whole
<1>2. ASSUME NEW h, Runs(h) PROVE crash = "none" BY <1>2 DEF Runs, Running
<1>3. HandleStart \/ HandleStop => crash' = "none" BY <1>2 DEF HandleStart, HandleStop
<1>4. HandleErase(None) => crash' = "none"
  <2>1. HandleErase(None) => Runs(Handler("erase", None)) /\ (~ErasedTwice => crash' = "none")
    BY DEF HandleErase, Handler
  <2>. QED BY <1>1, <2>1, NotErasedTwice
<1>5. ASSUME NEW c \in Connection, HandleErase(<<c>>) \/ HandleNamed(c) PROVE crash' = "none"
  <2>1. CASE HandleErase(<<c>>)
    <3>1. Runs(Handler("erase", Of(c))) /\ (~ErasedTwice => crash' = "none")
      BY <2>1 DEF HandleErase, Handler, Of
    <3>. QED BY <1>1, <3>1, NotErasedTwice
  <2>2. CASE HandleNamed(c)
    <3>1. Runs(Handler("named", Of(c))) /\ (~SetSocketThrows(c) /\ ~ErasedTwice => crash' = "none")
      BY <2>2 DEF HandleNamed, Handler, Of
    <3>2. ~SetSocketThrows(c) BY <1>1, <2>2, StepNamed
    <3>. QED BY <1>1, <3>1, <3>2, NotErasedTwice
  <2>. QED BY <1>5, <2>1, <2>2
<1>6. ASSUME NEW ch \in Channel, HandleGet(ch) \/ HandleCancel(ch) PROVE crash' = "none"
  <2>1. HandleGet(ch) => ~GetSocketThrows(ch) BY <1>1, StepGet
  <2>2. HandleGet(ch) => (~GetSocketThrows(ch) => crash' = "none") BY DEF HandleGet
  <2>3. HandleCancel(ch) => crash' = "none" BY <1>2 DEF HandleCancel
  <2>. QED BY <1>6, <2>1, <2>2, <2>3
<1>7. ASSUME NEW s \in Used, HandleSubscribe(s) PROVE crash' \in {"none", "cannot bind"}
  <2>1. HandleSubscribe(s) => crash' = crash \/ crash' \in {"none", "cannot bind"} BY DEF HandleSubscribe
  <2>2. HandleSubscribe(s) => Runs(<<"subscribe", s>>) BY DEF HandleSubscribe
  <2>. QED BY <1>2, <1>7, <2>1, <2>2
<1>8. ASSUME NEW s \in Used, HandleUnsubscribe(s) PROVE crash' = "none"
  BY <1>2, <1>8 DEF HandleUnsubscribe
<1>. QED BY <1>3, <1>4, <1>5, <1>6, <1>7, <1>8

LEMMA OthersEnd ==
  /\ AcceptAborted \/ CallStop \/ StopReturn => crash' = "none"
  /\ \A c : Connect(c) \/ Accepted(c) \/ NameArrives(c) \/ NameFails(c) => crash' = "none"
  /\ \A c : AskName(c) => crash' \in {"none", "socket is closed"}
  /\ \A s : StartSession(s) \/ AddChannelTo(s) \/ StopSession(s) => crash' = "none"
  /\ \A ch : CancelChannel(ch) => crash' = "none"
<1>1. AcceptAborted \/ CallStop \/ StopReturn => crash' = "none"
  BY DEF AcceptAborted, CallStop, StopReturn, Running, userUnchanged
<1>2. ASSUME NEW c, Connect(c) \/ Accepted(c) \/ NameArrives(c) \/ NameFails(c) PROVE crash' = "none"
  BY <1>2 DEF Connect, Accepted, NameArrives, NameFails, Running
<1>3. ASSUME NEW c, AskName(c) PROVE crash' \in {"none", "socket is closed"}
  BY <1>3 DEF AskName
<1>4. ASSUME NEW s, StartSession(s) \/ AddChannelTo(s) \/ StopSession(s) PROVE crash' = "none"
  BY <1>4 DEF StartSession, AddChannelTo, StopSession, Running, userUnchanged
<1>5. ASSUME NEW ch, CancelChannel(ch) PROVE crash' = "none"
  BY <1>5 DEF CancelChannel, Running, userUnchanged
<1>. QED BY <1>1, <1>2, <1>3, <1>4, <1>5

LEMMA EndsKept ==
  ASSUME Whole, EndsAreKnown, [Next]_vars
  PROVE  EndsAreKnown'
<1>1. crash' \in {"none", "cannot bind", "socket is closed"} => EndsAreKnown' BY DEF EndsAreKnown
<1>2. CASE UNCHANGED vars
  <2>1. UNCHANGED <<work, strand, mStopped, added, user, outcome, crash>>
    BY <1>2 DEF vars, stopVars, userVars, bookVars
  <2>2. Used' = Used /\ Channel' = Channel BY <2>1, SameWork
  <2>. QED BY <2>1, <2>2 DEF EndsAreKnown
<1>3. CASE GroupIsGone BY <1>3, EndsInGone
<1>4. CASE Next /\ ~GroupIsGone
  <2>1. crash' \in {"none", "cannot bind", "socket is closed"}
    BY <1>4, HandlersEnd, OthersEnd DEF Next, StrandStep
  <2>. QED BY <1>1, <2>1
<1>. QED BY <1>2, <1>3, <1>4

(* The process ends in no other way than a port that cannot be bound, a     *)
(* socket that stop() closed under its callback, or a group that is gone in *)
(* the two cases named: no merge throws whoever comes first, no promise is  *)
(* set twice (SessionGroup::merge, asyncGetSocket, asyncSetSocket, start,   *)
(* unsubscribe, cancelPendingChannel).                                      *)
THEOREM EndsKnown == Spec => []EndsAreKnown
<1>1. Init => EndsAreKnown BY DEF Init, EndsAreKnown
<1>2. EndsAreKnown /\ Whole /\ [Next]_vars => EndsAreKnown' BY EndsKept
<1>. QED BY <1>1, <1>2, Invariance, PTL DEF Spec
============================================================================
