---------------------------- MODULE Peripherals ----------------------------
(***************************************************************************)
(* The devices that act on the guest alone and never on each other: each   *)
(* behaviour exercises one of them, the one the bench holds.               *)
(***************************************************************************)
EXTENDS Clint, GoldfishRtc, SlirpTimers, SdlFrontend

VARIABLE bench

vars == <<clint, rtc, slirp_timers, display, bench>>

Init ==
  /\ ClintInit /\ RtcInit /\ TimersInit /\ DisplayInit
  /\ bench \in {"clint", "rtc", "timers", "text", "picture"}
  /\ window.direct => bench = "picture"

OnClint == bench = "clint" /\ ClintNext /\ UNCHANGED <<rtc, slirp_timers, display, bench>>
OnRtc == bench = "rtc" /\ RtcNext /\ UNCHANGED <<clint, slirp_timers, display, bench>>
OnTimers == bench = "timers" /\ TimersNext /\ UNCHANGED <<clint, rtc, display, bench>>

\* The window, with a guest that prints or one that draws.
Displayed(action) ==
  bench \in {"text", "picture"} /\ action /\ UNCHANGED <<clint, rtc, slirp_timers, bench>>

OnDisplay ==
  \/ bench = "text" /\ Displayed(append_uart)
  \/ bench = "picture" /\ Displayed(Draw)
  \/ Displayed(WindowNext)

Next == OnClint \/ OnRtc \/ OnTimers \/ OnDisplay

\* The main loop calls present in every round, and time goes on.
Fairness == WF_vars(Displayed(present)) /\ WF_vars(Displayed(TimePasses))

Spec == Init /\ [][Next]_vars /\ Fairness

\* A window that shows old content is brought up to date, however fast the guest
\* prints or draws and the user clicks, as long as it is open.
ScreenCatchesUp == (bench \in {"text", "picture"} /\ Outdated) ~> ~Outdated
=============================================================================
