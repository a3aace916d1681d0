--------------------------- MODULE MCTimerService ---------------------------
EXTENDS TimerService, TLC

CONSTANTS s1, s2

\* One timer that expires at once, one that takes two units of time.
MCTimer == {s1, s2}
MCTimeout == s1 :> 0 @@ s2 :> 2
=============================================================================
