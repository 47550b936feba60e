------------------------------ MODULE BlockLog ------------------------------
(***************************************************************************)
(* What reading a save state promises, without bytes or positions: the      *)
(* blocks that survived in the file are a log, and the reader replays the   *)
(* log from its first entry to its last into a store where the latest entry *)
(* of a name wins.  It either refuses the whole log before it has taken     *)
(* anything, or closes only when it has taken everything.                   *)
(***************************************************************************)
EXTENDS Naturals, Sequences

VARIABLES
  log,     \* the surviving blocks, [name, data], in the order of the file
  taken,   \* how many of them are in the store
  store,   \* name -> data
  phase    \* "open", "closed" or "refused"

vars == <<log, taken, store, phase>>

\* The store after the first k entries: the last of them under a name wins.
Replay(l, k) ==
  LET here(n) == {i \in 1..k : l[i].name = n}
      last(n) == CHOOSE i \in here(n) : \A j \in here(n) : j <= i
  IN  [n \in {l[i].name : i \in 1..k} |-> l[last(n)].data]

Init ==
  /\ taken = 0
  /\ store = Replay(log, 0)
  /\ phase = "open"

Take ==
  /\ phase = "open"
  /\ taken < Len(log)
  /\ taken' = taken + 1
  /\ store' = Replay(log, taken + 1)
  /\ UNCHANGED <<log, phase>>

Close ==
  /\ phase = "open"
  /\ taken = Len(log)
  /\ phase' = "closed"
  /\ UNCHANGED <<log, taken, store>>

Refuse ==
  /\ phase = "open"
  /\ taken = 0
  /\ phase' = "refused"
  /\ UNCHANGED <<log, taken, store>>

Next == Take \/ Close \/ Refuse

Spec == Init /\ [][Next]_vars /\ WF_vars(Next)
=============================================================================
