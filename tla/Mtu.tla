--------------------------------- MODULE Mtu ---------------------------------
(***************************************************************************)
(* detect_mtu (netscanx/scanner/layer3.py): a binary search for the        *)
(* largest packet that reaches a host without being fragmented.            *)
(*                                                                         *)
(* The search asks the network, which need not answer the way a search     *)
(* would like: a probe or its answer may be lost, and a router that finds  *)
(* a probe too large may say so, an answer to scapy's sr1 like any other.  *)
(***************************************************************************)
EXTENDS Integers

CONSTANTS
  MinSize,   \* min_size
  MaxSize,   \* max_size
  Limits     \* what the paths to hosts let through

ASSUME SizesAssumption == MinSize \in Nat /\ MaxSize \in Nat /\ Limits \subseteq Nat

VARIABLES
  search,   \* the locals of detect_mtu, and what it returns
  limit,    \* the largest packet that passes: no variable of the program
  luck      \* what happened to the probes: no variable of the program

mtuVars == <<search, limit, luck>>

\* No result: not root, or an exception.
NoMtu == 0 - 1

MtuInit ==
  /\ search = [at |-> "idle", low |-> MinSize, high |-> MaxSize, last_ok |-> MinSize,
               mtu |-> NoMtu]
  /\ limit = 0
  /\ luck = [lost |-> FALSE, told |-> FALSE]

Mid       == (search.low + search.high) \div 2
Searching == search.at = "search" /\ search.low <= search.high

\* Without the privileges for raw packets there is no search.
DetectMtu ==
  /\ search.at = "idle"
  /\ \E at \in {"search", "over"} : search' = [search EXCEPT !.at = at]
  /\ limit' \in Limits
  /\ UNCHANGED luck

TakeAnswer == search' = [search EXCEPT !.last_ok = Mid, !.low = Mid + 1]

Pass ==
  /\ Searching /\ Mid <= limit
  /\ TakeAnswer
  /\ UNCHANGED <<limit, luck>>

\* A router reports a probe that is too large: resp is not None.
Tell ==
  /\ Searching /\ Mid > limit
  /\ TakeAnswer
  /\ luck' = [luck EXCEPT !.told = TRUE]
  /\ UNCHANGED limit

\* Slip: one size too many leaves the range.
SlipTimeOut ==
  /\ Searching
  /\ search' = [search EXCEPT !.high = Mid - 2]
  /\ luck' = [luck EXCEPT !.lost = @ \/ Mid <= limit]
  /\ UNCHANGED limit

\* No answer: too large, or lost.
TimeOut ==
  /\ Searching
  /\ search' = [search EXCEPT !.high = Mid - 1]
  /\ luck' = [luck EXCEPT !.lost = @ \/ Mid <= limit]
  /\ UNCHANGED limit

\* The loop is over, or something raised.
ReturnMtu ==
  /\ search.at = "search"
  /\ \/ search.low > search.high /\ search' = [search EXCEPT !.at = "over", !.mtu = search.last_ok]
     \/ search' = [search EXCEPT !.at = "over"]
  /\ UNCHANGED <<limit, luck>>

MtuLoop == Pass \/ Tell \/ TimeOut \/ ReturnMtu
MtuNext == DetectMtu \/ MtuLoop
MtuSpec == MtuInit /\ [][MtuNext]_mtuVars

-----------------------------------------------------------------------------

\* The types of the variables.
MtuTypeOK ==
  /\ search \in [at : {"idle", "search", "over"}, low : Int, high : Int, last_ok : Int, mtu : Int]
  /\ limit \in Nat
  /\ luck \in [lost : BOOLEAN, told : BOOLEAN]

\* What the search returns, for every path (layer3.py:129-153).  It never
\* claims a size that does not pass, except the smallest, which it returns
\* untried, and unless a router's report passed for an answer.  It misses
\* none that passes unless a probe was lost.
MtuIsRight == search.at = "over" /\ search.mtu # NoMtu =>
  /\ search.mtu = MinSize \/ luck.told \/ search.mtu <= limit
  /\ \A size \in MinSize..MaxSize :
       size <= limit /\ ~ luck.lost => size <= search.mtu

=============================================================================
