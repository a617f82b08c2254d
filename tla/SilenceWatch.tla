---------------------------- MODULE SilenceWatch ----------------------------
(* The watchdog that tells the operator when the gateway's uploads stop: it  *)
(* sleeps, reads when the last report came, and raises or clears notices on  *)
(* the plugin page.  Reports arrive at any moment, also between the read and *)
(* the verdict.  Clocks count minutes since an event and stop at Horizon,    *)
(* beyond which the code distinguishes nothing.                              *)
EXTENDS Naturals

CONSTANTS
    CheckEvery,   \* SILENCE_CHECK_EVERY
    WarnAfter,    \* SILENCE_WARN_AFTER
    MaxLag,       \* how late the runtime may wake the watchdog
    Polling,      \* is [ecowitt].gateway_ip set, so that livedata is polled?
    Loopback      \* is the receiver bound to loopback, or to nonsense?

ASSUME ClockAssumption ==
    /\ CheckEvery \in Nat \ {0} /\ WarnAfter \in Nat /\ MaxLag \in Nat
    /\ Polling \in BOOLEAN /\ Loopback \in BOOLEAN

\* A wakeup is never so late that a report that came after one check has
\* aged out by the next.
ASSUME LagAssumption == CheckEvery + MaxLag < WarnAfter

VARIABLES
    heard,     \* last_report is Some
    silence,   \* minutes since the last report, or since startup before any
    dataAge,   \* minutes since a reading last reached the registry
    timer,     \* minutes since the watchdog went to sleep
    verdict,   \* what the watchdog read and has not acted on (option)
    notices    \* notices shown to the operator

vars == <<heard, silence, dataAge, timer, verdict, notices>>

Horizon == WarnAfter + CheckEvery + MaxLag + 1

Notice == {"gateway_silent", "no_reports_received", "receiver_unreachable"}

\* try_start's notice about the configuration, raised once.
StartupNotices == IF Loopback /\ ~Polling THEN {"receiver_unreachable"} ELSE {}

Init ==
    /\ heard = FALSE
    /\ silence = 0 /\ dataAge = Horizon /\ timer = 0
    /\ verdict = {}
    /\ notices = StartupNotices

Later(clock) == IF clock < Horizon THEN clock + 1 ELSE clock

\* A minute passes; the watchdog's wakeup is at most MaxLag late, and acting
\* on what it read takes no time.
Minute ==
    /\ verdict = {} /\ timer < CheckEvery + MaxLag
    /\ silence' = Later(silence)
    /\ dataAge' = Later(dataAge)
    /\ timer' = timer + 1
    /\ UNCHANGED <<heard, verdict, notices>>

\* handle_report with parseable sensor data.
ReceiveReport ==
    /\ heard' = TRUE
    /\ silence' = 0 /\ dataAge' = 0
    /\ UNCHANGED <<timer, verdict, notices>>

\* run_poller's readings reach the registry and nothing else.
ReceivePoll ==
    /\ Polling
    /\ dataAge' = 0
    /\ UNCHANGED <<heard, silence, timer, verdict, notices>>

\* Mutant: before any report, the time since startup decides.
ReadingForgetsNever == IF silence < WarnAfter THEN "fresh" ELSE "silent"

\* Mutant: two strict comparisons leave one minute to nobody.
ReadingLeavesGap ==
    IF ~heard THEN "never" ELSE IF silence < WarnAfter THEN "fresh"
    ELSE IF silence > WarnAfter THEN "silent" ELSE "neither"

Reading ==
    IF ~heard THEN "never" ELSE IF silence < WarnAfter THEN "fresh" ELSE "silent"

\* The sleep is over: last_report is read, and compared with the clock.
Wake ==
    /\ verdict = {} /\ timer >= CheckEvery
    /\ verdict' = {Reading}
    /\ UNCHANGED <<heard, silence, dataAge, timer, notices>>

\* Mutant: fresh data clears the notice about silence only.
NoticesAfterKeepsNever(reading) ==
    CASE reading = "fresh"  -> notices \ {"gateway_silent"}
      [] reading = "silent" -> notices \cup {"gateway_silent"}
      [] reading = "never"  -> notices \cup {"no_reports_received"}

\* Mutant: fresh data clears the notice about the first report only.
NoticesAfterKeepsSilent(reading) ==
    CASE reading = "fresh"  -> notices \ {"no_reports_received"}
      [] reading = "silent" -> notices \cup {"gateway_silent"}
      [] reading = "never"  -> notices \cup {"no_reports_received"}

NoticesAfter(reading) ==
    CASE reading = "fresh"  -> notices \ {"gateway_silent", "no_reports_received"}
      [] reading = "silent" -> notices \cup {"gateway_silent"}
      [] reading = "never"  -> notices \cup {"no_reports_received"}

\* The watchdog raises or clears notices, and sleeps again.
Conclude ==
    \E reading \in verdict :
        /\ notices' = NoticesAfter(reading)
        /\ verdict' = {}
        /\ timer' = 0
        /\ UNCHANGED <<heard, silence, dataAge>>

\* A new process knows of no report, and shows no notice but its own.
Restart ==
    /\ heard' = FALSE
    /\ silence' = 0 /\ dataAge' = Horizon /\ timer' = 0
    /\ verdict' = {}
    /\ notices' = StartupNotices

Next == Minute \/ ReceiveReport \/ ReceivePoll \/ Wake \/ Conclude \/ Restart

Spec == Init /\ [][Next]_vars

-----------------------------------------------------------------------------
(* Properties.                                                               *)

\* Every variable has its type, and no check is missed.
TypeOK ==
    /\ heard \in BOOLEAN
    /\ silence \in 0 .. Horizon /\ dataAge \in 0 .. Horizon
    /\ timer \in 0 .. CheckEvery + MaxLag
    /\ verdict \in {{}} \cup {{r} : r \in {"fresh", "silent", "never"}}
    /\ notices \subseteq Notice

\* "No upload has ever arrived" and "no upload for a while" are never shown
\* together: they are raised by different checks, the first is not cleared by
\* the second, and only the timing of the checks keeps them apart.
NeverBoth == ~({"gateway_silent", "no_reports_received"} \subseteq notices)

\* "a resolved problem stops being shown": a notice is true, or the report
\* that made it false came after the last check.
NoticesAreCurrent ==
    /\ "gateway_silent" \in notices => heard /\ (silence >= WarnAfter \/ silence <= timer)
    /\ "no_reports_received" \in notices => ~heard \/ silence <= timer

\* "silence is not quiet -- it is a fault": an outage is on the page one
\* warning period and one check (with its lag) after it began, whatever was
\* raised, cleared or received before.
OutageIsShown ==
    verdict = {} =>
        /\ heard /\ silence >= WarnAfter + CheckEvery + MaxLag
             => "gateway_silent" \in notices
        /\ ~heard /\ silence > CheckEvery + MaxLag
             => "no_reports_received" \in notices

-----------------------------------------------------------------------------
(* What the repository says and the code does not do.                        *)

\* server.rs: "Data is flowing. Drop anything we raised earlier so a resolved
\* problem stops being shown": a check made while readings reach the registry
\* leaves no notice that they do not.
FlowingDataClearsNotices ==
    [][Conclude /\ 0 < dataAge /\ dataAge < WarnAfter => notices' = StartupNotices]_vars

=============================================================================
