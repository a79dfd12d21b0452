------------------------------ MODULE DataPath ------------------------------
(***************************************************************************)
(* What the data path of ecbridge_fw promises between the socket and the   *)
(* dispatcher, without the rings, their indices and wraps, the grants, the *)
(* handler or the timer that implement it.  Frames of requests wait in     *)
(* line; a server takes some of them, whole and from the front, answers    *)
(* the first event of them, and gives up what it took and nothing else.    *)
(* Replies are a stream, of which the socket takes what is there.  EthLink *)
(* implements this module.                                                 *)
(***************************************************************************)
EXTENDS Integers, Sequences

CONSTANT MaxReply     \* cells of one reply, at most

VARIABLES
  waiting,    \* the cells of the frames not given up yet, the oldest first
  serving,    \* how many of them the server has taken, 0 if it is idle
  current,    \* the request it answers, or answered last
  answered,   \* cells of replies so far
  sent        \* how many of them the socket has taken

vars == <<waiting, serving, current, answered, sent>>

Cells == [kind : {"endpoint", "request"}, n : Nat]

Init == /\ waiting = <<>> /\ serving = 0 /\ current = 0
        /\ answered = 0 /\ sent = 0

(* The line grows by one frame, an endpoint followed by requests; these are newer
   than all before them. *)
OneFrameMore(old, new) ==
  /\ new \in Seq(Cells) /\ Len(new) >= Len(old) + 2
  /\ \A k \in 1 .. Len(old) : new[k] = old[k]
  /\ new[Len(old) + 1].kind = "endpoint"
  /\ \A k \in Len(old) + 2 .. Len(new) : new[k].kind = "request"

Newer(cells, k) ==
  /\ current < cells[k].n
  /\ \A j \in 1 .. k - 1 : cells[j].kind = "request" => cells[j].n < cells[k].n

Receive == /\ OneFrameMore(waiting, waiting')
           /\ \A k \in Len(waiting) + 2 .. Len(waiting') : Newer(waiting', k)
           /\ UNCHANGED <<serving, current, answered, sent>>

(* The server takes whole frames, and begins with the request of the first. *)
Begin == \E n \in 2 .. Len(waiting) :
  /\ serving = 0
  /\ n < Len(waiting) => waiting[n + 1].kind = "endpoint"
  /\ serving' = n
  /\ current' = waiting[2].n
  /\ UNCHANGED <<waiting, answered, sent>>

Answer == /\ serving # 0
          /\ answered' \in answered + 1 .. answered + MaxReply
          /\ UNCHANGED <<waiting, serving, current, sent>>

Finish == /\ serving # 0
          /\ waiting' = SubSeq(waiting, serving + 1, Len(waiting))
          /\ serving' = 0
          /\ UNCHANGED <<current, answered, sent>>

Send == /\ sent' \in sent + 1 .. answered
        /\ UNCHANGED <<waiting, serving, current, answered>>

Next == Receive \/ Begin \/ Answer \/ Finish \/ Send

SafeSpec == Init /\ [][Next]_vars
=============================================================================
