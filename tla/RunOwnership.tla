---------------------------- MODULE RunOwnership ----------------------------
(***************************************************************************)
(* What Run admission promises of a Work item, without its stores, tokens  *)
(* and leases: an item is owned by one Run at a time, a Run owns an item   *)
(* at most once, and an owner leaves only after the item shows how it      *)
(* ended, or before the item ever showed it.                               *)
(***************************************************************************)
CONSTANTS Items, Runs

VARIABLES
  owner,   \* owner[i]: the Run that owns item i, as a set: {} or {r}
  phase,   \* how far the owner got
  used     \* the Runs that have owned an item

vars == <<owner, phase, used>>

Phases == {"free", "taken", "running", "shown"}

Init ==
  /\ owner = [i \in Items |-> {}]
  /\ phase = [i \in Items |-> "free"]
  /\ used = {}

Advance(i, from, to) ==
  phase[i] = from /\ phase' = [phase EXCEPT ![i] = to]

Take(i, r) ==
  /\ Advance(i, "free", "taken") /\ r \notin used
  /\ owner' = [owner EXCEPT ![i] = {r}]
  /\ used' = used \cup {r}

\* The item shows the Run as running; later it shows its outcome.
Start(i) == Advance(i, "taken", "running") /\ UNCHANGED <<owner, used>>
Show(i)  == Advance(i, "running", "shown") /\ UNCHANGED <<owner, used>>

\* The owner leaves after its outcome was shown, or before it started.
Leave(i) ==
  /\ \/ Advance(i, "shown", "free")
     \/ Advance(i, "taken", "free")
  /\ owner' = [owner EXCEPT ![i] = {}]
  /\ UNCHANGED used

Next ==
  \E i \in Items :
    \/ \E r \in Runs : Take(i, r)
    \/ Start(i) \/ Show(i) \/ Leave(i)

Spec == Init /\ [][Next]_vars
=============================================================================
