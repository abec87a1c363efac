---------------------------- MODULE ReviewPromise ----------------------------
(***************************************************************************)
(* What the review queue promises of an item, whatever the rows and the    *)
(* processes behind it: one worker at a time owns it, an owner decides it  *)
(* only while its lease is good, no worker has it twice, and a decision    *)
(* stands unless a failure is reopened or closed.  Items move on their     *)
(* own: a step of the queue is a step of any of them together.             *)
(***************************************************************************)
CONSTANTS Items, Workers, Nobody

VARIABLES
  owner,   \* the worker an item is leased to, or Nobody
  lost,    \* the items whose owner let its lease run out
  tried,   \* the workers an item was ever leased to
  outcome  \* "open", or what was decided

vars == <<owner, lost, tried, outcome>>

Init ==
  /\ owner = [i \in Items |-> Nobody]
  /\ lost = {}
  /\ tried = [i \in Items |-> {}]
  /\ outcome = [i \in Items |-> "open"]

Keeps(i) ==
  /\ owner'[i] = owner[i] /\ (i \in lost' <=> i \in lost)
  /\ tried'[i] = tried[i] /\ outcome'[i] = outcome[i]

Undecided(i) == outcome[i] = "open" /\ outcome'[i] = "open"

Take(i, w) ==
  /\ Undecided(i) /\ w \notin tried[i]
  /\ owner[i] = Nobody \/ i \in lost
  /\ owner'[i] = w /\ i \notin lost'
  /\ tried'[i] = tried[i] \cup {w}

GiveBack(i) ==
  /\ Undecided(i) /\ owner[i] # Nobody
  /\ owner'[i] = Nobody /\ i \notin lost'
  /\ tried'[i] = tried[i]

Lose(i) ==
  /\ Undecided(i) /\ owner[i] # Nobody /\ i \notin lost
  /\ owner'[i] = owner[i] /\ i \in lost'
  /\ tried'[i] = tried[i]

Decide(i) ==
  /\ outcome[i] = "open" /\ outcome'[i] \in {"reviewed", "failed"}
  /\ owner[i] # Nobody /\ i \notin lost
  /\ owner'[i] = Nobody /\ i \notin lost'
  /\ tried'[i] = tried[i]

ReopenOrClose(i) ==
  /\ outcome[i] = "failed" /\ outcome'[i] \in {"open", "unreviewable"}
  /\ owner'[i] = owner[i] /\ (i \in lost' <=> i \in lost)
  /\ tried'[i] = tried[i]

ItemStep(i) ==
  \/ Keeps(i) \/ GiveBack(i) \/ Lose(i) \/ Decide(i) \/ ReopenOrClose(i)
  \/ \E w \in Workers : Take(i, w)

Next == \A i \in Items : ItemStep(i)

Spec == Init /\ [][Next]_vars
=============================================================================
