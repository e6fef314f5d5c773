---------------------------- MODULE SlirpTimers ----------------------------
(***************************************************************************)
(* The timers of app/src/slirp_network_backend.cpp. libslirp (external)    *)
(* makes, frees and sets timers at any time, from the callback of a timer  *)
(* too. A timer is the address of its Timer object: a freed address may be *)
(* given out again while fire_expired_timers still holds it.               *)
(***************************************************************************)
EXTENDS Integers, Sequences

CONSTANT Addresses

VARIABLES
  timers,        \* addresses of the timers that exist, oldest first
  enabled,       \* enabled, per existing timer
  expired,       \* what is left of the local list, while timers are fired
  firing,        \* whether fire_expired_timers is running
  called,        \* history: whether the timer called last existed
  owed           \* history: timers that were set and neither called nor freed since

slirp_timers == <<timers, enabled, expired, firing, called, owed>>

Listed(list) == {list[i] : i \in DOMAIN list}

Existing == Listed(timers)

\* The elements of a list that are in a set, in their order. (A recursive
\* function: the prover knows nothing of SelectSeq.)
Keep(list, set) ==
  LET kept[i \in 0 .. Len(list)] ==
        IF i = 0 THEN <<>>
        ELSE IF list[i] \in set THEN Append(kept[i - 1], list[i]) ELSE kept[i - 1]
  IN  kept[Len(list)]

TimersInit ==
  /\ timers = <<>> /\ enabled = {} /\ expired = <<>> /\ firing = FALSE
  /\ called = "none" /\ owed = {}

timer_new(address) ==
  /\ address \notin Existing
  /\ timers' = Append(timers, address)
  /\ UNCHANGED <<enabled, expired, firing, called, owed>>

timer_free(address) ==
  /\ address \in Existing
  /\ timers' = Keep(timers, Existing \ {address})
  /\ enabled' = enabled \ {address} /\ owed' = owed \ {address}
  /\ UNCHANGED <<expired, firing, called>>

timer_mod(address) ==
  /\ address \in Existing
  /\ enabled' = enabled \cup {address} /\ owed' = owed \cup {address}
  /\ UNCHANGED <<timers, expired, firing, called>>

\* The timers that are due are disabled and listed, in the order they were made.
fire_expired_timers(due) ==
  /\ ~firing /\ due \subseteq enabled
  /\ expired' = Keep(timers, due)
  /\ enabled' = enabled \ due
  /\ firing' = TRUE
  /\ UNCHANGED <<timers, called, owed>>

Call(timer) ==
  /\ called' = IF timer \in Existing THEN "existing" ELSE "freed"
  /\ owed' = owed \ ({timer} \ enabled)

\* Mutant: the timer is called without a look whether it still exists.
CallNextUnchecked ==
  /\ firing /\ expired # <<>>
  /\ expired' = Tail(expired)
  /\ Call(Head(expired))
  /\ UNCHANGED <<timers, enabled, firing>>

\* The next one is called if it still exists; what its callback does follows.
\* (libslirp makes every timer with a callback, so the test for a null one never
\* decides.)
CallNext ==
  /\ firing /\ expired # <<>>
  /\ expired' = Tail(expired)
  /\ IF Head(expired) \in Existing THEN Call(Head(expired)) ELSE UNCHANGED <<called, owed>>
  /\ UNCHANGED <<timers, enabled, firing>>

FiringEnds ==
  /\ firing /\ expired = <<>>
  /\ firing' = FALSE /\ called' = "none"
  /\ UNCHANGED <<timers, enabled, expired, owed>>

TimersNext ==
  \/ \E address \in Addresses : timer_new(address) \/ timer_free(address) \/ timer_mod(address)
  \/ \E due \in SUBSET enabled : fire_expired_timers(due)
  \/ CallNext \/ FiringEnds

\* A timer that was set stays enabled or listed until it is called, so none is
\* forgotten, and no timer that was freed is called, in whatever order callbacks
\* free, make and set timers.
TimersKept ==
  /\ called # "freed"
  /\ \A t \in owed : t \in Existing /\ (t \in enabled \/ t \in Listed(expired))
=============================================================================
