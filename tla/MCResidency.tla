---------------------------- MODULE MCResidency -----------------------------
(* Settings under which TLC explores Residency. *)
EXTENDS Residency

Setting ==
  [mode |-> "notifier", ttl |-> 0, cap |-> 2, writer |-> FALSE, posts |-> 0, touches |-> 0,
   deletes |-> 0, kinds |-> {"hard"}, streams |-> 1, fires |-> 0, faults |-> {}, refusals |-> 0,
   active |-> 0, types |-> {"json"}, posters |-> {1, 2}]

\* Retirement, deletion and recreation under concurrent handlers.
Resident ==
  [Setting EXCEPT !.posts = 2, !.fires = 2, !.deletes = 1, !.streams = 2,
                  !.kinds = {"hard", "soft"}]

ResidentSync == [Resident EXCEPT !.mode = "sync"]

\* A streamer retired between the appends that follow one another.
Retired == [Setting EXCEPT !.posts = 3, !.fires = 1]

\* The same stream back with another content type.
Retyped == [Setting EXCEPT !.posts = 1, !.deletes = 1, !.streams = 2, !.types = {"json", "text"}]

\* A full channel: more senders than it holds.
Full == [Setting EXCEPT !.posts = 3, !.cap = 1, !.deletes = 1]

\* A full channel when the dormancy timer fires.
Stalled == [Full EXCEPT !.fires = 1]

\* A Writer with as many slots as there are posters.
Written == [Setting EXCEPT !.posts = 2, !.fires = 1, !.writer = TRUE, !.deletes = 1, !.mode = "sync",
                           !.faults = {"burst"}, !.refusals = 1]

\* A sliding window of two seconds.
Window == [Setting EXCEPT !.ttl = 2, !.active = 2, !.posts = 2, !.touches = 1,
                          !.posters = {1}, !.fires = 1]

Sliding == [Window EXCEPT !.mode = "sync", !.faults = {"burst", "touch"}, !.refusals = 1]

\* A stream nobody writes to, whose deletion is refused once.
Unwritten == [Window EXCEPT !.posts = 0, !.touches = 2, !.faults = {"delete"}, !.refusals = 1]

MCSettings == {Resident, ResidentSync, Retired, Retyped, Full, Stalled, Written, Window,
               Sliding, Unwritten}

\* Only the full channel and the timer.
HangSettings == {[Stalled EXCEPT !.deletes = 0]}
=============================================================================
