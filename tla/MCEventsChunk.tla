----------------------------- MODULE MCEventsChunk -----------------------------
(* Small instances of EventsChunk for TLC: an event of every size that fits in
   a body of 9 bytes with two others, with one, alone, or not at all; one that
   gets longer when written and one that gets shorter. *)
EXTENDS EventsChunk

Written(n, m) == [read |-> n, sent |-> m]
Plain == {Written(1, 1), Written(2, 2), Written(4, 4), Written(4, 6),
          Written(7, 5), Written(8, 8)}
=============================================================================
