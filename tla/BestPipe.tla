------------------------------ MODULE BestPipe ------------------------------
(***************************************************************************)
(* What bs_drm_pipe_plumber_make promises (bsdrm/include/bs_drm.h:107-123, *)
(* "Makes the pipe based on the constraints of the plumber. Returns false  *)
(* if no pipe worked"), with no word about how: one of the pipes of the    *)
(* machine, of the lowest rank, or false when there is none.  A pipe one   *)
(* of whose objects could not be read during the call may be missed.       *)
(***************************************************************************)
EXTENDS Integers

CONSTANTS
  Pipes,       \* every pipe a machine can have
  NoPipe,      \* "returns false"
  Pending      \* no answer yet

VARIABLES
  rank,        \* function: the pipes that satisfy the constraints, with ranks
  missed,      \* the pipes an unreadable object may have hidden
  answer

vars == <<rank, missed, answer>>

Idle == answer # Pending

\* The answers the promise allows.
Allowed ==
  LET seen == DOMAIN rank \ missed
  IN  {p \in DOMAIN rank : \A q \in seen : rank[p] <= rank[q]}
        \cup {r \in {NoPipe} : seen = {}}

Init ==
  /\ rank = <<>>
  /\ missed = {}
  /\ answer = NoPipe

\* The caller asks; what satisfies the constraints is fixed by the machine.
Ask ==
  /\ Idle
  /\ DOMAIN rank' \subseteq Pipes
  /\ rank' \in [DOMAIN rank' -> Nat]
  /\ missed' = {}
  /\ answer' = Pending

Miss ==
  /\ ~Idle
  /\ missed' \in SUBSET Pipes
  /\ missed \subseteq missed'
  /\ UNCHANGED <<rank, answer>>

Return ==
  /\ ~Idle
  /\ answer' \in Allowed
  /\ UNCHANGED <<rank, missed>>

Next == Ask \/ Miss \/ Return

Spec == Init /\ [][Next]_vars
=============================================================================
