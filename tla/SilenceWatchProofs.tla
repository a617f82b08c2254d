------------------------- MODULE SilenceWatchProofs -------------------------
(* The watchdog's notices for every choice of its periods, as long as a      *)
(* wakeup's lag keeps two checks closer than the warning period.             *)
EXTENDS SilenceWatch, TLAPS

\* What a read verdict still says of the clocks: no minute passes before it
\* is acted on, but a report may arrive.
VerdictOK ==
    /\ verdict # {} => timer >= CheckEvery
    /\ verdict = {"silent"} =>
         heard /\ (silence >= WarnAfter \/ silence = 0)
         /\ "no_reports_received" \notin notices
    /\ verdict = {"never"} => (~heard \/ silence = 0) /\ "gateway_silent" \notin notices
    /\ verdict = {"fresh"} => heard /\ silence < WarnAfter

\* What the last check left unsaid was not yet so, give or take the time since.
QuietSinceCheck ==
    /\ heard /\ "gateway_silent" \notin notices
         => silence < WarnAfter + timer \/ verdict = {"silent"}
    /\ ~heard /\ "no_reports_received" \notin notices
         => silence <= timer

WatchInv == TypeOK /\ VerdictOK /\ NeverBoth /\ NoticesAreCurrent /\ QuietSinceCheck

\* The clocks have room for every value the code compares them with.
LEMMA ClockRoom ==
    /\ Horizon \in Nat /\ CheckEvery + MaxLag \in Nat
    /\ WarnAfter + CheckEvery + MaxLag < Horizon
BY ClockAssumption DEF Horizon

LEMMA StartNotices ==
    /\ StartupNotices \subseteq Notice
    /\ "gateway_silent" \notin StartupNotices
    /\ "no_reports_received" \notin StartupNotices
BY DEF StartupNotices, Notice

LEMMA InitWatch == Init => WatchInv
<1> SUFFICES ASSUME Init
             PROVE  WatchInv
  OBVIOUS
<1> USE ClockAssumption, ClockRoom, StartNotices DEF Init
<1>1. TypeOK
  <2>1. 0 \in 0 .. Horizon /\ Horizon \in 0 .. Horizon /\ 0 \in 0 .. CheckEvery + MaxLag
    OBVIOUS
  <2> QED
    BY <2>1 DEF TypeOK
<1>2. VerdictOK
  <2>1. \A reading : verdict # {reading}
    OBVIOUS
  <2> QED
    BY <2>1 DEF VerdictOK
<1>3. NeverBoth /\ NoticesAreCurrent
  BY DEF NeverBoth, NoticesAreCurrent
<1>4. QuietSinceCheck
  BY DEF QuietSinceCheck
<1> QED
  BY <1>1, <1>2, <1>3, <1>4 DEF WatchInv

LEMMA MinuteWatch == WatchInv /\ Minute => WatchInv'
<1> SUFFICES ASSUME WatchInv, Minute
             PROVE  WatchInv'
  OBVIOUS
<1> USE ClockAssumption, ClockRoom
<1>1. /\ verdict = {} /\ verdict' = {} /\ heard' = heard /\ notices' = notices
      /\ timer' = timer + 1 /\ timer' <= CheckEvery + MaxLag
      /\ silence' \in 0 .. Horizon /\ dataAge' \in 0 .. Horizon
      /\ silence' = silence + 1 \/ (silence' = silence /\ silence = Horizon)
  BY DEF Minute, Later, WatchInv, TypeOK
<1>2. TypeOK' /\ VerdictOK' /\ NeverBoth'
  BY <1>1 DEF WatchInv, TypeOK, VerdictOK, NeverBoth
<1>3. NoticesAreCurrent'
  BY <1>1 DEF WatchInv, TypeOK, NoticesAreCurrent
<1>4. QuietSinceCheck'
  BY <1>1 DEF WatchInv, TypeOK, QuietSinceCheck
<1> QED
  BY <1>2, <1>3, <1>4 DEF WatchInv

LEMMA ReceiveWatch == WatchInv /\ (ReceiveReport \/ ReceivePoll) => WatchInv'
<1> SUFFICES ASSUME WatchInv, ReceiveReport \/ ReceivePoll
             PROVE  WatchInv'
  OBVIOUS
<1> USE ClockAssumption, ClockRoom
<1>1. CASE ReceiveReport
  <2>1. /\ heard' /\ silence' = 0 /\ dataAge' = 0
        /\ timer' = timer /\ verdict' = verdict /\ notices' = notices
    BY <1>1 DEF ReceiveReport
  <2>2. WarnAfter > 0
    BY LagAssumption
  <2>3. TypeOK' /\ NeverBoth'
    BY <1>1, <2>1 DEF ReceiveReport, WatchInv, TypeOK, NeverBoth
  <2>4. VerdictOK'
    BY <2>1, <2>2 DEF WatchInv, VerdictOK
  <2>5. NoticesAreCurrent' /\ QuietSinceCheck'
    BY <2>1, <2>2 DEF WatchInv, TypeOK, NoticesAreCurrent, QuietSinceCheck
  <2> QED
    BY <2>3, <2>4, <2>5 DEF WatchInv
<1>2. CASE ReceivePoll
  BY <1>2 DEF ReceivePoll, WatchInv, TypeOK, VerdictOK, NeverBoth,
      NoticesAreCurrent, QuietSinceCheck
<1> QED
  BY <1>1, <1>2

\* The one step that needs LagAssumption: a report heard since a check that
\* said "never" is still fresh at the next, so "silent" is not read while that
\* notice stands.
LEMMA WakeWatch == WatchInv /\ Wake => WatchInv'
<1> SUFFICES ASSUME WatchInv, Wake
             PROVE  WatchInv'
  OBVIOUS
<1> USE ClockAssumption, ClockRoom
<1>1. /\ verdict' = {Reading} /\ timer >= CheckEvery
      /\ heard' = heard /\ silence' = silence /\ dataAge' = dataAge
      /\ timer' = timer /\ notices' = notices
  BY DEF Wake
<1>2. Reading \in {"fresh", "silent", "never"}
  BY DEF Reading
<1>3. TypeOK' /\ NeverBoth' /\ NoticesAreCurrent'
  BY <1>1, <1>2 DEF WatchInv, TypeOK, NeverBoth, NoticesAreCurrent
<1>4. VerdictOK'
  <2>1. CASE Reading = "silent"
    <3>1. heard /\ silence >= WarnAfter
      BY <2>1 DEF Reading, WatchInv, TypeOK
    <3>2. "no_reports_received" \notin notices
      BY <3>1, LagAssumption DEF WatchInv, TypeOK, NoticesAreCurrent
    <3> QED
      BY <1>1, <2>1, <3>1, <3>2 DEF VerdictOK
  <2>2. CASE Reading = "never"
    <3>1. ~heard
      BY <2>2 DEF Reading
    <3>2. "gateway_silent" \notin notices
      BY <3>1 DEF WatchInv, NoticesAreCurrent
    <3> QED
      BY <1>1, <2>2, <3>1, <3>2 DEF VerdictOK
  <2>3. CASE Reading = "fresh"
    BY <1>1, <2>3 DEF VerdictOK, Reading
  <2> QED
    BY <1>2, <2>1, <2>2, <2>3
<1>5. QuietSinceCheck'
  <2>1. verdict = {}
    BY DEF Wake
  <2> QED
    BY <1>1, <2>1 DEF WatchInv, QuietSinceCheck
<1> QED
  BY <1>3, <1>4, <1>5 DEF WatchInv

LEMMA ConcludeWatch == WatchInv /\ Conclude => WatchInv'
<1> SUFFICES ASSUME WatchInv, Conclude
             PROVE  WatchInv'
  OBVIOUS
<1> USE ClockAssumption, ClockRoom
<1>1. PICK reading \in {"fresh", "silent", "never"} :
          /\ verdict = {reading} /\ notices' = NoticesAfter(reading)
          /\ verdict' = {} /\ timer' = 0
          /\ heard' = heard /\ silence' = silence /\ dataAge' = dataAge
  BY DEF Conclude, WatchInv, TypeOK
<1>2. CASE reading = "fresh"
  <2>1. notices' = notices \ {"gateway_silent", "no_reports_received"}
    BY <1>1, <1>2 DEF NoticesAfter
  <2> QED
    BY <1>1, <1>2, <2>1 DEF WatchInv, TypeOK, VerdictOK, NeverBoth,
        NoticesAreCurrent, QuietSinceCheck
<1>3. CASE reading = "silent"
  <2>1. notices' = notices \cup {"gateway_silent"}
    BY <1>1, <1>3 DEF NoticesAfter
  <2>2. heard /\ (silence >= WarnAfter \/ silence = 0) /\ "no_reports_received" \notin notices
    BY <1>1, <1>3 DEF WatchInv, VerdictOK
  <2>3. TypeOK'
    BY <1>1, <2>1 DEF WatchInv, TypeOK, Notice
  <2>4. VerdictOK' /\ NeverBoth'
    BY <1>1, <2>1, <2>2 DEF VerdictOK, NeverBoth
  <2>5. NoticesAreCurrent' /\ QuietSinceCheck'
    BY <1>1, <2>1, <2>2 DEF NoticesAreCurrent, QuietSinceCheck
  <2> QED
    BY <2>3, <2>4, <2>5 DEF WatchInv
<1>4. CASE reading = "never"
  <2>1. notices' = notices \cup {"no_reports_received"}
    BY <1>1, <1>4 DEF NoticesAfter
  <2>2. (~heard \/ silence = 0) /\ "gateway_silent" \notin notices
    BY <1>1, <1>4 DEF WatchInv, VerdictOK
  <2>3. TypeOK'
    BY <1>1, <2>1 DEF WatchInv, TypeOK, Notice
  <2>4. VerdictOK' /\ NeverBoth'
    BY <1>1, <2>1, <2>2 DEF VerdictOK, NeverBoth
  <2>5. WarnAfter > 0
    BY LagAssumption
  <2>6. NoticesAreCurrent' /\ QuietSinceCheck'
    BY <1>1, <2>1, <2>2, <2>5 DEF NoticesAreCurrent, QuietSinceCheck
  <2> QED
    BY <2>3, <2>4, <2>6 DEF WatchInv
<1> QED
  BY <1>2, <1>3, <1>4

LEMMA StepWatch == WatchInv /\ [Next]_vars => WatchInv'
<1> SUFFICES ASSUME WatchInv, [Next]_vars
             PROVE  WatchInv'
  OBVIOUS
<1>1. CASE Restart
  <2>1. TypeOK'
    <3>1. 0 \in 0 .. Horizon /\ Horizon \in 0 .. Horizon /\ 0 \in 0 .. CheckEvery + MaxLag
      BY ClockRoom
    <3> QED
      BY <1>1, <3>1, StartNotices DEF Restart, TypeOK
  <2>2. VerdictOK'
    <3>1. verdict' = {} /\ \A reading : verdict' # {reading}
      BY <1>1 DEF Restart
    <3> QED
      BY <3>1 DEF VerdictOK
  <2>3. NeverBoth' /\ NoticesAreCurrent'
    BY <1>1, StartNotices DEF Restart, NeverBoth, NoticesAreCurrent
  <2>4. QuietSinceCheck'
    BY <1>1 DEF Restart, QuietSinceCheck
  <2> QED
    BY <2>1, <2>2, <2>3, <2>4 DEF WatchInv
<1>2. CASE UNCHANGED vars
  BY <1>2 DEF vars, WatchInv, TypeOK, VerdictOK, NeverBoth, NoticesAreCurrent,
      QuietSinceCheck
<1> QED
  BY <1>1, <1>2, MinuteWatch, ReceiveWatch, WakeWatch, ConcludeWatch DEF Next

\* Every variable has its type, and the watchdog always reads one of its three
\* verdicts, for every choice of the periods.
THEOREM TypeCorrect == Spec => []TypeOK
<1>1. WatchInv => TypeOK
  BY DEF WatchInv
<1> QED
  BY <1>1, InitWatch, StepWatch, PTL DEF Spec

\* "No upload has ever arrived" and "no upload for a while" are never shown
\* together.
THEOREM NeverBothHolds == Spec => []NeverBoth
<1>1. WatchInv => NeverBoth
  BY DEF WatchInv
<1> QED
  BY <1>1, InitWatch, StepWatch, PTL DEF Spec

\* A notice is true, or was when the watchdog last looked.
THEOREM NoticesAreCurrentHolds == Spec => []NoticesAreCurrent
<1>1. WatchInv => NoticesAreCurrent
  BY DEF WatchInv
<1> QED
  BY <1>1, InitWatch, StepWatch, PTL DEF Spec

\* An outage is shown after at most one warning period and one late check.
THEOREM OutageIsShownHolds == Spec => []OutageIsShown
<1>1. WatchInv => OutageIsShown
  BY ClockAssumption DEF WatchInv, TypeOK, QuietSinceCheck, OutageIsShown
<1> QED
  BY <1>1, InitWatch, StepWatch, PTL DEF Spec

=============================================================================
