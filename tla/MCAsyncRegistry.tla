---------------------------- MODULE MCAsyncRegistry ----------------------------
(* AsyncRegistry for TLC: two handles that compete for one slot.  Thread p  *)
(* polls both of them, q one of them too.                                   *)
EXTENDS AsyncRegistry

CONSTANTS a,   \* HTTP/2, one poller, a buffer that fits
          b,   \* HTTP/1.1, two pollers, a buffer that may be too small
          p, q

BothRequests == {a, b}
AllPolls == {<<a, p>>, <<b, p>>, <<b, q>>}
OnlyB == {b}
OnePollOfB == {<<b, p>>}
=============================================================================
