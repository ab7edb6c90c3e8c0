----------------------------- MODULE MCRecheck -----------------------------
(* A small instance of Recheck: two performances listed on one show page.  *)
EXTENDS Recheck

CONSTANTS concert, encore, day, old, new

MCUrlOf == [e \in Event |-> "show"]

Says(v) == [f \in Field |-> v]
Answer(event) == [error |-> FALSE, status |-> 200, html |-> TRUE, event |-> event]

\* No answer; a page with no Event node; a page that states the old day.  It
\* confirms the rows of the old day and contradicts those of the new one.
MCReading == {NoPage, Answer(None), Answer([says |-> Says(old), cancelled |-> FALSE])}

V(e, v, asof, checked) ==
  [event |-> e, content |-> Says(v), asof |-> asof, checked |-> checked]

\* A correction of the concert's day arrives late, then it is collected again.
MCVersion ==
  {V(e, old, 0, 0) : e \in Event} \cup {V(concert, new, 1, 0), V(concert, new, 2, 2)}
==========================================================================
