------------------------------ MODULE MCLeases ------------------------------
(***************************************************************************)
(* An instance of Leases: the workers of the first two attempts need not   *)
(* be punctual, that of the last one is.  The actions compare and copy     *)
(* times, they never use their absolute values; states that differ by a    *)
(* shift of the clock, or in times nothing reads any more, are one state.  *)
(***************************************************************************)
EXTENDS Leases

LastPunctual == {MaxAttempts}

\* A time as seen from now, the long past being all alike.
Seen(t) == LET past == -(Lease + ReapEvery + ReapTime + 2) IN
           IF t - now < past THEN past ELSE t - now

View ==
    <<job, count, running, live, beat, reaper, listed, overdue, Seen(reapAt),
      IF job = "PENDING" /\ readyAt > now THEN readyAt - now ELSE 0,
      IF job = "QUEUED" THEN Seen(queuedAt) ELSE 0,
      IF reservation = None THEN None ELSE <<Seen(reservation)>>,
      [n \in Attempt |-> IF n \in running
                         THEN <<Seen(lease[n]), diedAt[n] = None, Seen(diedAt[n])>>
                         ELSE <<>>],
      [n \in Attempt |-> IF n \in live /\ (beat[n] # "none" \/ n \in Punctual)
                         THEN Seen(beatAt[n]) ELSE 0]>>
=============================================================================
