------------------------------- MODULE KaApsi -------------------------------
(***************************************************************************)
(* The key-agreement APSI of KA-APSI(ours)/cpp_code: the commitments of    *)
(* receiver and sender, then intersect(), which runs both parties.         *)
(*                                                                         *)
(* Values are terms: equal exactly when the code's values are, but for     *)
(* collisions of hashes and coincidences of random field elements.  A      *)
(* polynomial is the function through the points it was interpolated from, *)
(* with as many coefficients as it has points.                             *)
(***************************************************************************)
EXTENDS Integers, Sequences, FiniteSets, SequencesExt, FiniteSetsExt

CONSTANTS Items,             \* what the two parties may have as inputs
          ReceiverInputs,    \* the inputs of the receiver, in order
          SenderInputs,      \* those of the sender
          HashFunctions      \* what BLAKE2b may be, as far as H_bin uses it

ASSUME InputsAssumption ==
  /\ \A s \in ReceiverInputs : s \in Seq(Items) /\ Len(s) >= 2
  /\ \A s \in SenderInputs : s \in Seq(Items) /\ Len(s) >= 1
ASSUME HashAssumption == HashFunctions \subseteq [Items -> Nat]

VARIABLES
  receiverInput, senderInput, hash,      \* chosen once
  at,                        \* where the program is
  polys, receiverRoot,       \* Receiver::polys and merkle_root
  merkle_leaves, senderRoot, \* Sender::merkle_leaves and merkle_root
  T_Sender, k_values,        \* locals of intersect(): the sender's
  P_Sender,
  intersection               \* what intersect() returns

inputs == <<receiverInput, senderInput, hash>>
commitments == <<polys, receiverRoot, merkle_leaves, senderRoot>>
locals == <<T_Sender, k_values, P_Sender>>
vars == <<inputs, at, commitments, locals, intersection>>

-----------------------------------------------------------------------------
(* Terms.  The points of the curve are those that the parties exchange.    *)
Message(i) == <<"elligator_map", i>>     \* of g^b_i, randomness[i] being b_i
NoPoint(x) == <<"elsewhere", x>>         \* a polynomial off its points
Shared(i) == <<"shared", i>>             \* g^(a b_i), as the receiver gets it
Power(point) == <<"to the a", point>>    \* the point, to the sender's a
Key(point) == <<"H", point>>
ZeroKey == <<"zero">>                    \* an element of a resized vector
Random(i) == <<"r", i>>                  \* random_values[i]
H_2(x, value) == <<"H_2", x, value>>

(* random_values' polynomial where the last byte of the point is k: at     *)
(* zero it has its first coefficient.                                      *)
Evaluation(k) == IF k % 256 = 0 THEN Random(1) ELSE <<"D'", k % 256>>

(* floor(n / log2(n)) for n >= 2: at least 1 and at most n / 2 + 1.        *)
BinSize(n) == Max({1} \cup {b \in 2 .. n \div 2 + 1 : n ^ b <= 2 ^ n})

Bins == BinSize(Len(receiverInput))
H_bin(x) == hash[x] % Bins

(* A hashing table: the elements of each bin in the order of the input.    *)
Hashing(i) == {x \in Items : H_bin(x) = i - 1}

(* Lagrange_Polynomial throws on fewer than two points and on equal ones.  *)
InterpolatesAnyNumber(xs) == IsInjective(xs)
Interpolates(xs) == Len(xs) >= 2 /\ IsInjective(xs)

Through(xs, ys) == [x \in ToSet(xs) |-> ys[CHOOSE j \in DOMAIN xs : xs[j] = x]]

evaluate_poly(poly, x) == IF x \in DOMAIN poly THEN poly[x] ELSE NoPoint(x)

(* The elements of a sequence that are in a set, in their order.           *)
Only(s, S) ==
  LET upTo[i \in 0 .. Len(s)] ==
        IF i = 0 THEN <<>>
        ELSE IF s[i] \in S THEN Append(upTo[i - 1], s[i]) ELSE upTo[i - 1]
  IN  upTo[Len(s)]

Total(numbers) ==
  LET upTo[i \in 0 .. Len(numbers)] == IF i = 0 THEN 0 ELSE upTo[i - 1] + numbers[i]
  IN  upTo[Len(numbers)]

Table(input) == [i \in 1 .. Bins |-> Only(input, Hashing(i))]

(* How many elements precede the j-th of the bins, as ka_counter and       *)
(* k_i_counter count them.                                                 *)
CounterFromZero(bins, j) == 0
Counter(bins, j) == Total([i \in 1 .. j - 1 |-> Len(bins[i])])

-----------------------------------------------------------------------------
(* Merkle trees: a level is hashed in pairs, an odd last node with itself. *)
NextLevel(level) ==
  [i \in 1 .. (Len(level) + 1) \div 2 |->
     <<level[2 * i - 1], level[IF 2 * i <= Len(level) THEN 2 * i ELSE 2 * i - 1]>>]

(* There are fewer levels than leaves.                                     *)
RootOf(leaves) ==
  FoldLeft(LAMBDA level, leaf : IF Len(level) = 1 THEN level ELSE NextLevel(level),
           leaves, leaves)[1]

ZeroRoot == <<>>

Merkle_Root_Receiver(leaves) == IF leaves = <<>> THEN ZeroRoot ELSE RootOf(leaves)

Merkle_Root_Sender(input, values) ==
  IF Len(input) # Len(values) \/ input = <<>> THEN ZeroRoot
  ELSE RootOf([i \in DOMAIN input |-> <<input[i], values[i]>>])

-----------------------------------------------------------------------------
Init ==
  /\ receiverInput \in ReceiverInputs
  /\ senderInput \in SenderInputs
  /\ hash \in HashFunctions
  /\ at = "commit_Receiver"
  /\ polys = <<>> /\ receiverRoot = ZeroRoot
  /\ merkle_leaves = <<>> /\ senderRoot = ZeroRoot
  /\ T_Sender = <<>> /\ k_values = <<>> /\ P_Sender = <<>>
  /\ intersection = <<>>

(* No exception is caught: one ends the program.                           *)
Throw == at' = "threw" /\ UNCHANGED <<inputs, commitments, locals, intersection>>

(* The non-empty bins of the receiver's table, as commit_Receiver fills it.*)
ReceiverBins == Only(Table(receiverInput), Seq(Items) \ {<<>>})

(* The bins' elements take the messages one after the other.               *)
CommitReceiver ==
  /\ at = "commit_Receiver"
  /\ IF \A j \in DOMAIN ReceiverBins : Interpolates(ReceiverBins[j])
     THEN /\ polys' = [j \in DOMAIN ReceiverBins |->
                         Through(ReceiverBins[j],
                                 [k \in DOMAIN ReceiverBins[j] |->
                                    Message(Counter(ReceiverBins, j) + k)])]
          /\ receiverRoot' = Merkle_Root_Receiver(polys')
          /\ at' = "commit_Sender"
          /\ UNCHANGED <<inputs, merkle_leaves, senderRoot, locals, intersection>>
     ELSE Throw

CommitSender ==
  /\ at = "commit_Sender"
  /\ merkle_leaves' = [k \in DOMAIN senderInput |-> Evaluation(k - 1)]
  /\ senderRoot' = Merkle_Root_Sender(senderInput, merkle_leaves')
  /\ at' = "check"
  /\ UNCHANGED <<inputs, polys, receiverRoot, locals, intersection>>

Coefficients(poly) == Cardinality(DOMAIN poly)

(* Steps 2 and 3 of intersect(), and what step 4 begins with.              *)
SenderChecks ==
  /\ at = "check"
  /\ IF /\ \A j \in DOMAIN polys : Coefficients(polys[j]) >= 2
        /\ Merkle_Root_Receiver(polys) = receiverRoot
        /\ Total([j \in DOMAIN polys |-> Coefficients(polys[j])]) = Len(receiverInput)
     THEN /\ T_Sender' = [i \in 1 .. Bins |-> <<>>]
          /\ k_values' = [i \in DOMAIN senderInput |-> ZeroKey]
          /\ at' = "evaluate"
          /\ UNCHANGED <<inputs, commitments, P_Sender, intersection>>
     ELSE Throw

Evaluated == Total([i \in DOMAIN T_Sender |-> Len(T_Sender[i])])

EvaluateInPlace ==
  /\ at = "evaluate"
  /\ LET x == senderInput[Evaluated + 1]
         bin == H_bin(x) + 1 IN
       IF bin \in DOMAIN polys
       THEN /\ k_values' = [k_values EXCEPT ![Evaluated + 1] =
                              Key(Power(evaluate_poly(polys[bin], x)))]
            /\ T_Sender' = [T_Sender EXCEPT ![bin] = Append(@, x)]
            /\ at' = IF Evaluated + 1 = Len(senderInput) THEN "interpolate" ELSE at
       ELSE at' = "undefined" /\ UNCHANGED <<k_values, T_Sender>>
  /\ UNCHANGED <<inputs, commitments, P_Sender, intersection>>

(* Step 4, for one input of the sender.  polys[bin_index] may lie behind   *)
(* the end of the vector: anything may happen then.                        *)
Evaluate ==
  /\ at = "evaluate"
  /\ LET x == senderInput[Evaluated + 1]
         bin == H_bin(x) + 1 IN
       IF bin \in DOMAIN polys
       THEN /\ k_values' = Append(k_values, Key(Power(evaluate_poly(polys[bin], x))))
            /\ T_Sender' = [T_Sender EXCEPT ![bin] = Append(@, x)]
            /\ at' = IF Evaluated + 1 = Len(senderInput) THEN "interpolate" ELSE at
       ELSE at' = "undefined" /\ UNCHANGED <<k_values, T_Sender>>
  /\ UNCHANGED <<inputs, commitments, P_Sender, intersection>>

(* The points of the sender's i-th polynomial: k_values read from its start*)
H_2_values(i) ==
  [j \in DOMAIN T_Sender[i] |->
     H_2(T_Sender[i][j], k_values[Counter(T_Sender, i) + j])]

(* Step 5, for all bins.                                                   *)
Interpolate ==
  /\ at = "interpolate"
  /\ IF \A i \in DOMAIN T_Sender : Interpolates(H_2_values(i))
     THEN /\ P_Sender' = [i \in DOMAIN T_Sender |->
                            Through(H_2_values(i),
                                    [j \in DOMAIN T_Sender[i] |->
                                       Random(Counter(T_Sender, i) + j)])]
          /\ at' = "intersect"
          /\ UNCHANGED <<inputs, commitments, T_Sender, k_values, intersection>>
     ELSE Throw

(* What the receiver computes for its input at index i.                    *)
R_intersection ==
  [i \in DOMAIN receiverInput |->
     LET x == receiverInput[i] IN
       H_2(x, evaluate_poly(P_Sender[H_bin(x) + 1], H_2(x, Key(Shared(i)))))]

(* Step 6.                                                                 *)
Intersect ==
  /\ at = "intersect"
  /\ IF senderRoot = Merkle_Root_Sender(senderInput, merkle_leaves)
     THEN /\ intersection' =
               Only(R_intersection, ToSet(merkle_leaves))
          /\ at' = "returned"
          /\ UNCHANGED <<inputs, commitments, locals>>
     ELSE Throw

Over == at \in {"returned", "threw", "undefined"} /\ UNCHANGED vars

Next == \/ CommitReceiver \/ CommitSender
        \/ SenderChecks \/ Evaluate \/ Interpolate \/ Intersect
        \/ Over

Spec == Init /\ [][Next]_vars
-----------------------------------------------------------------------------
(* While the sender evaluates, k_values is as long as the loop leaves it.  *)
TypeOK ==
  /\ receiverInput \in ReceiverInputs /\ senderInput \in SenderInputs /\ hash \in HashFunctions
  /\ at \in {"commit_Receiver", "commit_Sender", "check", "evaluate", "interpolate",
             "intersect", "returned", "threw", "undefined"}
  /\ at \in {"evaluate", "interpolate"} =>
       /\ T_Sender \in [1 .. Bins -> Seq(Items)]
       /\ Evaluated \in 0 .. Len(senderInput)
       /\ Len(k_values) = Len(senderInput) + Evaluated
  /\ at = "intersect" => DOMAIN P_Sender = 1 .. Bins

InBin(input, b) == {x \in ToSet(input) : H_bin(x) = b}
Repeats(input) == Cardinality(ToSet(input)) < Len(input)

(* How a run ends depends on the two tables alone, whatever the order of   *)
(* the steps: it returns only when every bin of both parties has two or    *)
(* more inputs, it throws only on account of a bin with fewer or an input  *)
(* given twice, never at a check of an honest party, and it reads behind   *)
(* the vector of polynomials only if the receiver has an empty bin.        *)
TablesDecideTheOutcome ==
  LET few(input, least, most) ==
        \E b \in 0 .. Bins - 1 : Cardinality(InBin(input, b)) \in least .. most IN
  /\ at = "returned" => ~few(receiverInput, 0, 1) /\ ~few(senderInput, 0, 1)
                        /\ ~Repeats(receiverInput) /\ ~Repeats(senderInput)
  /\ at = "threw" => \/ few(receiverInput, 1, 1) \/ Repeats(receiverInput)
                     \/ few(senderInput, 0, 1) \/ Repeats(senderInput)
  /\ at = "undefined" => few(receiverInput, 0, 0)

(* The place of the receiver's input x in the order of its bins.           *)
Place(x) ==
  LET i == CHOOSE j \in DOMAIN receiverInput : receiverInput[j] = x IN
  1 + Cardinality({j \in DOMAIN receiverInput :
                     LET b == H_bin(receiverInput[j]) IN
                       b < H_bin(x) \/ (b = H_bin(x) /\ j < i)})

(* For an input that both have, the sender recovers from the receiver's    *)
(* polynomials exactly the message the receiver assigned to it, provided   *)
(* no bin before has been left out of the polynomials.                     *)
SenderRecoversMessages ==
  \A n \in Len(senderInput) + 1 .. Len(k_values) :
    LET x == senderInput[n - Len(senderInput)] IN
    x \in ToSet(receiverInput) /\ (\A b \in 0 .. H_bin(x) : InBin(receiverInput, b) # {})
      => k_values[n] = Key(Power(Message(Place(x))))
=============================================================================
