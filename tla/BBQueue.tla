------------------------------- MODULE BBQueue -------------------------------
(***************************************************************************)
(* The bbqueue crate (a dependency of ecbridge_fw) as the firmware uses it:*)
(* a single-producer single-consumer ring whose grants are contiguous.  A  *)
(* queue is a value; each operator is one call.  A cell stands for a run of *)
(* bytes: what they are, and which of their kind.  A released cell is       *)
(* blanked, so that whoever read it again would be seen to.                 *)
(***************************************************************************)
EXTENDS Integers, Sequences

Cell(kind, n) == [kind |-> kind, n |-> n]
Blank         == Cell("blank", 0)    \* a cell nobody has committed

Failed == -1      \* grant_exact() answered Err(InsufficientSize)

NewQueue(size) == [size  |-> size,
                   cells |-> [c \in 0 .. size - 1 |-> Blank],
                   read  |-> 0,
                   write |-> 0,
                   last  |-> 0]

QueueType(items, size) == [size  : {size},
                           cells : [0 .. size - 1 -> items \union {Blank}],
                           read  : 0 .. size,
                           write : 0 .. size,
                           last  : 0 .. size]

(* Mutant: a writer that wraps may come up to the reader, and look empty. *)
GrantUpToReader(q, n) ==
  IF q.write < q.read
  THEN IF q.write + n < q.read THEN q.write ELSE Failed
  ELSE IF q.write + n <= q.size THEN q.write
  ELSE IF n <= q.read THEN 0
  ELSE Failed

(* The first cell of a grant of n cells; wraps when the end is too close. *)
GrantExact(q, n) ==
  IF q.write < q.read
  THEN IF q.write + n < q.read THEN q.write ELSE Failed
  ELSE IF q.write + n <= q.size THEN q.write
  ELSE IF n < q.read THEN 0
  ELSE Failed

(* last ends the readable region once write wraps. *)
LastAfter(q, write) == IF write < q.write /\ q.write # q.size THEN q.write
                       ELSE IF write > q.last THEN q.size ELSE q.last

Overwritten(cells, start, s) ==
  [c \in DOMAIN cells |-> IF c \in start .. start + Len(s) - 1 THEN s[c - start + 1]
                                                               ELSE cells[c]]

(* commit() of the grant at start, of which the cells of s were used (none when
   the grant is dropped). *)
Commit(q, start, s) ==
  [q EXCEPT !.cells = Overwritten(q.cells, start, s),
            !.last  = LastAfter(q, start + Len(s)),
            !.write = start + Len(s)]

(* read() first takes the read index back to 0 when it has come to the end of
   the readable region and the producer has wrapped. *)
Read(q) == IF q.read = q.last /\ q.write < q.read
           THEN [q EXCEPT !.read = 0] ELSE q

(* The cells read() grants: up to write, or to last if write has wrapped; no
   cell at all means Err(InsufficientSize). *)
Region(q) ==
  LET r   == Read(q)
      end == IF r.write < r.read THEN r.last ELSE r.write
  IN  [k \in 1 .. end - r.read |-> r.cells[r.read + k - 1]]

(* release(n) of a read grant, the read index being where read() left it. *)
Release(q, n) ==
  [q EXCEPT !.read  = q.read + n,
            !.cells = [c \in DOMAIN q.cells |->
                         IF c \in q.read .. q.read + n - 1 THEN Blank
                                                           ELSE q.cells[c]]]

(* All that is committed and not released, in order. *)
Contents(q) ==
  LET r == Read(q) IN
  IF r.write < r.read
  THEN Region(q) \o [k \in 1 .. r.write |-> r.cells[k - 1]]
  ELSE Region(q)
=============================================================================
