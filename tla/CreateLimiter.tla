--------------------------- MODULE CreateLimiter ----------------------------
(***************************************************************************)
(* The limiter of session creation (internal/gateway/ratelimit.go): Allow    *)
(* runs under the limiter's mutex, reads the monotonic clock and remembers   *)
(* when it said yes.  Points in time are kept as the ticks since then.       *)
(***************************************************************************)
EXTENDS Filter

CONSTANTS
  Limit,     \* creations per window: 20
  Window     \* its length in ticks: one minute

ASSUME LimiterConfigured == Limit \in Nat \ {0} /\ Window \in Nat \ {0}

VARIABLES
  stamps,    \* l.stamps: when creations were allowed, oldest first
  granted    \* history: the age of the last Limit creations ever allowed

limiterVars == <<stamps, granted>>

LimiterInit == stamps = << >> /\ granted = << >>

\* Mutant of Recent: the whole window is forgotten when its first creation is.
RecentFixedWindow ==
  IF stamps # << >> /\ stamps[1] < Window THEN stamps ELSE << >>

\* Mutant of Recent: a creation counts for one tick too long.
RecentTooLong == Filter(stamps, 0..Window)

\* The stamps after now.Add(-window).
Recent == Filter(stamps, 0..Window - 1)

\* Mutant of Grant: the old stamps are counted out but kept.
GrantKeepsOld ==
  /\ Len(Recent) < Limit
  /\ stamps' = Append(stamps, 0)
  /\ granted' = IF Len(granted) < Limit THEN Append(granted, 0)
                ELSE Append(Tail(granted), 0)

Grant ==
  /\ Len(Recent) < Limit
  /\ stamps' = Append(Recent, 0)
  /\ granted' = IF Len(granted) < Limit THEN Append(granted, 0)
                ELSE Append(Tail(granted), 0)

Deny ==
  /\ Len(Recent) >= Limit
  /\ stamps' = Recent
  /\ UNCHANGED granted

\* Ages beyond the window plus one tick are all the same.
Older(age) == IF age > Window THEN age ELSE age + 1

LimiterTick ==
  /\ stamps' = [i \in DOMAIN stamps |-> Older(stamps[i])]
  /\ granted' = [i \in DOMAIN granted |-> Older(granted[i])]

=============================================================================
