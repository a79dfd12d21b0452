------------------------------ MODULE Answering ------------------------------
(***************************************************************************)
(* What the dispatcher of ecbridge_fw promises about an event, without the *)
(* two iterators, the hints, the budget or the arguments that implement    *)
(* it.  The resources are gone through once, in order, in a bounded number *)
(* of rounds.  A round deals with the next few; if one of them is owed an  *)
(* answer, one reply answers all of those that are.  XpiDispatch           *)
(* implements this module.                                                 *)
(***************************************************************************)
EXTENDS Integers, Sequences

CONSTANTS MaxRounds,     \* bound of the rounds
          MaxResources   \* bound of the resource set

VARIABLES
  total,     \* resources of the event
  owed,      \* those that must be answered
  next,      \* the first not dealt with
  rounds,    \* rounds that are over
  replies,   \* for each reply sent, the resources it answers
  status     \* "busy", "ok" or "failed"

vars == <<total, owed, next, rounds, replies, status>>

Init == /\ total \in 0 .. MaxResources
        /\ owed \in SUBSET (1 .. total)
        /\ next = 1 /\ rounds = 0 /\ replies = <<>> /\ status = "busy"

(* The resources up to m are dealt with; a reply is never empty.  The last
   round is the one that ends the event, or one that nothing is left after. *)
Round(m) ==
  /\ status = "busy" /\ rounds < MaxRounds
  /\ next' = m + 1
  /\ rounds' = rounds + 1
  /\ \/ \E S \in (SUBSET (next .. m)) \ {{}} :
          /\ owed \intersect (next .. m) \subseteq S
          /\ replies' = Append(replies, S)
     \/ owed \intersect (next .. m) = {} /\ UNCHANGED replies
  /\ status' \in {"busy", "ok"}
  /\ status' = "busy" => rounds' < MaxRounds
  /\ status' = "ok" => next' > total \/ rounds' = MaxRounds
  /\ UNCHANGED <<total, owed>>

(* There was nothing left to answer. *)
Finish == /\ status = "busy" /\ next > total
          /\ status' = "ok"
          /\ UNCHANGED <<total, owed, next, rounds, replies>>

(* The round that was begun is given up, and with it the event. *)
GiveUp == /\ status = "busy"
          /\ status' = "failed"
          /\ UNCHANGED <<total, owed, next, rounds, replies>>

Next == Finish \/ GiveUp \/ \E m \in next .. total : Round(m)

SafeSpec == Init /\ [][Next]_vars
=============================================================================
