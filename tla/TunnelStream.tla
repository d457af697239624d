---------------------------- MODULE TunnelStream ----------------------------
(***************************************************************************)
(* What one direction of a relay tunnel promises the application at its    *)
(* far end, whatever carries the bytes: the chunks arrive in order and     *)
(* without a hole, and the end of the stream comes after the last chunk    *)
(* unless something was cut off on the way.                                *)
(***************************************************************************)
EXTENDS Naturals, Sequences

VARIABLES
    wrote,   \* how many chunks the writer has written: chunk n is the number n
    flight,  \* the chunks that may still arrive
    got,     \* the chunks the reader has received
    closed,  \* the writer has closed its end
    cut,     \* the stream is broken: what is written from now on is lost
    ended    \* the reader has seen the end of the stream

streamVars == <<wrote, flight, got, closed, cut, ended>>

Init ==
    /\ wrote = 0 /\ flight = <<>> /\ got = <<>>
    /\ closed = FALSE /\ cut = FALSE /\ ended = FALSE

Write ==
    /\ ~closed
    /\ wrote' = wrote + 1
    /\ flight' = IF cut THEN flight ELSE Append(flight, wrote + 1)
    /\ UNCHANGED <<got, closed, cut, ended>>

Deliver ==
    /\ ~ended /\ flight # <<>>
    /\ got' = Append(got, Head(flight))
    /\ flight' = Tail(flight)
    /\ UNCHANGED <<wrote, closed, cut, ended>>

Close ==
    /\ ~closed /\ closed' = TRUE
    /\ UNCHANGED <<wrote, flight, got, cut, ended>>

\* A fault, or a reader that goes away: the tail of what is in flight is lost.
Cut ==
    /\ cut' = TRUE
    /\ \E k \in 0..Len(flight) : flight' = SubSeq(flight, 1, k)
    /\ UNCHANGED <<wrote, got, closed, ended>>

\* The end of the stream: clean once everything has arrived, or after a cut.
End ==
    /\ ~ended /\ ended' = TRUE
    /\ cut \/ (closed /\ flight = <<>>)
    /\ flight' = <<>> /\ cut' = TRUE
    /\ UNCHANGED <<wrote, got, closed>>

Next == Write \/ Deliver \/ Close \/ Cut \/ End

Spec == Init /\ [][Next]_streamVars
=============================================================================
