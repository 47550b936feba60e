-------------------------- MODULE AtomicConversion --------------------------
(***************************************************************************)
(* What a conversion promises to its user: at one moment it takes what its  *)
(* input holds, which must be a save that the parser of its own format      *)
(* accepts, and that save is what it publishes; or it gives up.  There is   *)
(* no detection here, no second read and no writing in steps.               *)
(***************************************************************************)
EXTENDS SaveFile

CONSTANTS Run, Source

VARIABLES
  file,   \* path -> content; it changes whenever it likes
  job     \* run -> [state, save]

vars == <<file, job>>

Init == \A r \in Run : job[r].state = "pending"

Move(r, states, state, save) ==
  /\ job[r].state \in states
  /\ job' = [job EXCEPT ![r] = [state |-> state, save |-> save]]

Take(r) ==
  LET c == file[Source[r]] IN
  /\ c.kind = "save" /\ Parses(FormatOf(c.save), c.save)
  /\ Move(r, {"pending"}, "taken", c)
  /\ UNCHANGED file

Publish(r) ==
  /\ job[r].state = "taken" /\ job[r].save.save.whole
  /\ Move(r, {"taken"}, "published", job[r].save)
  /\ UNCHANGED file

Abandon(r) ==
  /\ Move(r, {"pending", "taken"}, "abandoned", job[r].save)
  /\ UNCHANGED file

Change == UNCHANGED job

Next ==
  \/ \E r \in Run : Take(r) \/ Publish(r) \/ Abandon(r)
  \/ Change

Spec == Init /\ [][Next]_vars
=============================================================================
