------------------------------- MODULE TwoPsi -------------------------------
(***************************************************************************)
(* The last message of mPSI's two-party intersection                       *)
(* (OPPRFSender::sendLastPSIMessage, OPPRFReceiver::compute2PSI).  The     *)
(* module's own table is the receiver's.  The sender hashed its set with   *)
(* the same functions; of its elements only the common ones matter, since  *)
(* the OPRF gives values that are equal only for the same element in the   *)
(* same bin.                                                               *)
(*                                                                         *)
(* The sender sorts the values of its simple bins by the number of the     *)
(* hash function into three messages.  The receiver looks for the values   *)
(* of its cuckoo bins in the message of the function it has noted.         *)
(***************************************************************************)
EXTENDS BinSet

VARIABLES
  common,        \* the elements the sender turns out to have too
  channel,       \* the messages under way
  received,      \* how many of the three messages are in
  mIntersection

psiOnly == <<common, channel, received, mIntersection>>
psiVars == <<vars, psiOnly>>

PsiInit ==
  /\ Init
  /\ common = {} /\ channel = <<>>
  /\ received = 0 /\ mIntersection = <<>>

(* The OPRF values of message hIdx, as pairs of bin and element.            *)
Message(hIdx, xs) == {e \in Bin \X xs : <<e[2], hIdx>> \in SimpleEntries(e[1], xs)}

(* The receiver's values that are looked up in message hIdx.                *)
LocalMasks(hIdx) == {e \in Bin \X Element : cuckoo[e[1]] = <<e[2], hIdx>>}

Messages == 3

Hashed == \A t \in Thread : pc[t] = "done"

SendLast ==
  /\ Hashed /\ received = 0 /\ channel = <<>>
  /\ common' \in SUBSET Element
  /\ channel' = [m \in 1..Messages |-> Message(m - 1, common')]
  /\ UNCHANGED <<vars, received, mIntersection>>

Receive ==
  /\ channel # <<>>
  /\ mIntersection' = mIntersection \o SetToSeq({e[2] : e \in Head(channel) \cap LocalMasks(received)})
  /\ received' = received + 1
  /\ channel' = Tail(channel)
  /\ UNCHANGED <<vars, common>>

PsiNext ==
  \/ (\E t \in Thread : ThreadStep(t)) /\ UNCHANGED psiOnly
  \/ SendLast \/ Receive
  \/ Ended /\ UNCHANGED psiVars

PsiFairness ==
  /\ \A t \in 0..(MostThreads - 1) :
       WF_psiVars(t \in Thread /\ ThreadStep(t) /\ UNCHANGED psiOnly)
  /\ WF_psiVars(SendLast \/ Receive)

PsiSpec == PsiInit /\ [][PsiNext]_psiVars /\ PsiFairness

-----------------------------------------------------------------------------
(* Properties.                                                              *)

(* Whether a common element's value is in the message the receiver looks    *)
(* in: its bin is one of the first table, and it came there with the first  *)
(* of its functions that lead there.                                        *)
LookedUp(x) ==
  \E b \in Bin, k \in 0..(Hashes[Main] - 1) :
    /\ b < Bins[Main] /\ cuckoo[b] = <<x, k>>
    /\ \A j \in 0..(k - 1) : Addr(Main, x, j) # b

(* The elements reported are common ones, and all of those whose values     *)
(* are looked up in the right message, whatever races there were while      *)
(* hashing; and each is reported once unless a race put it into two bins.   *)
ReportsWhatMeets ==
  received = Messages =>
    /\ {mIntersection[i] : i \in DOMAIN mIntersection} = {x \in common : LookedUp(x)}
    /\ ~raced => \A i, j \in DOMAIN mIntersection : mIntersection[i] = mIntersection[j] => i = j

(* The barriers let every thread through and the messages arrive: the       *)
(* receiver has them all, or the process ended (binSet::hashing2Bins).      *)
PsiEnds == <>(received = Messages \/ \A t \in Thread : pc[t] = "terminated")
=============================================================================
