------------------------- MODULE ObservationCapture -------------------------
(***************************************************************************)
(* core/observation/reference-observation-reconciliation.mjs: concurrent   *)
(* captures of what an independent observer reports, each compared with    *)
(* the authorization it belongs to.                                        *)
(*                                                                         *)
(* The observer is called synchronously and has two callbacks.  It may use *)
(* them before it returns, later, more than once or never; it may throw,   *)
(* or return a value.  A settled promise is read in a later step.          *)
(***************************************************************************)
EXTENDS TrustedTime, Sequences

CONSTANTS
    Captures,       \* calls of captureAndReconcile
    Expectations,   \* [exec, issued, expires, status, effect]; effect may be None
    Observations,   \* [exec, status, effect, executed, observed]
    Invalid,        \* a reported failure, or data that is not plain
    MaxReports      \* bound: callbacks used per capture

ASSUME CaptureAssumption ==
    /\ MaxReports \in Nat
    /\ Invalid \notin Observations \union {None} /\ None \notin Observations
    /\ \A x \in Expectations : x.issued \in Nat /\ x.expires \in Nat
    /\ \A o \in Observations : o.executed \in Nat /\ o.observed \in Nat

Reports == Observations \union {Invalid}

VARIABLES
    observationClock,   \* lastTrustedTimeMs; 0 before the first sample
    capture             \* per call: its progress, the number of reports before the
                        \* observer returned and altogether, and the first report

captureVars == <<observationClock, capture>>

NoCapture == [pc |-> "idle", expected |-> None, started |-> 0, terminal |-> None,
              early |-> 0, reports |-> 0, first |-> None, overridden |-> FALSE, result |-> None]

CaptureInit == /\ observationClock = 0
               /\ capture = [c \in Captures |-> NoCapture]

-----------------------------------------------------------------------------

ObservationAccepts(sample) == sample # None /\ sample >= observationClock

\* captureObserverOutput up to the observer's return: a second report is a
\* conflict, and a throw or a returned value overrides any report.
TerminalAtReturn(reports, overridden) ==
    CASE overridden \/ Len(reports) > 1 -> Invalid
      [] ~overridden /\ Len(reports) = 1 -> Head(reports)
      [] OTHER -> None

\* captureAndReconcile up to the await.  Without a good clock sample it fails and
\* leaves no trace.
StartCapture(c, expected, sample, reports, overridden) ==
    LET terminal == TerminalAtReturn(reports, overridden)
    IN  /\ capture[c] = NoCapture
        /\ ObservationAccepts(sample)
        /\ observationClock' = sample
        /\ capture' = [capture EXCEPT ![c] =
              [pc |-> IF terminal = None THEN "waiting" ELSE "settled",
               expected |-> expected, started |-> sample, terminal |-> terminal,
               early |-> Len(reports), reports |-> Len(reports),
               first |-> IF reports = <<>> THEN None ELSE Head(reports),
               overridden |-> overridden, result |-> None]]

\* Mutant of Report: the last report counts until the promise is read.
ReportLast(c, report) ==
    /\ capture[c].pc \in {"waiting", "settled"}
    /\ capture[c].reports < MaxReports
    /\ capture' = [capture EXCEPT
          ![c].reports = @ + 1,
          ![c].first = IF capture[c].reports = 0 THEN report ELSE @,
          ![c].terminal = report,
          ![c].pc = "settled"]
    /\ UNCHANGED observationClock

\* setTerminal after the observer returned: the first report settles the promise,
\* and a report to a settled one is ignored.
Report(c, report) ==
    /\ capture[c].pc \in {"waiting", "settled"}
    /\ capture[c].reports < MaxReports
    /\ capture' = [capture EXCEPT
          ![c].reports = @ + 1,
          ![c].first = IF capture[c].reports = 0 THEN report ELSE @,
          ![c].terminal = IF capture[c].pc = "waiting" THEN report ELSE @,
          ![c].pc = "settled"]
    /\ UNCHANGED observationClock

\* normalizeObserved, after its checks of the format.
PlausibleAt(o, now) ==
    /\ o.executed <= o.observed /\ o.observed <= now
    /\ o.status # "unknown" => o.effect # None

Mismatches(x, o) ==
    \/ o.exec # x.exec
    \/ o.executed < x.issued \/ x.expires <= o.executed
    \/ /\ o.status # "unknown"
       /\ \/ x.status # "any" /\ o.status # x.status
          \/ x.effect # None /\ o.effect # x.effect

Classify(x, o) ==
    CASE Mismatches(x, o) -> "MISMATCH"
      [] ~Mismatches(x, o) /\ o.status = "unknown" -> "INDETERMINATE"
      [] OTHER -> "MATCH"

\* After the await: an observation is judged at a second clock sample.
Resume(c, sample) ==
    LET o == capture[c].terminal
    IN  /\ capture[c].pc = "settled"
        /\ IF o \in Observations
           THEN /\ observationClock' = IF ObservationAccepts(sample) THEN sample
                                                                     ELSE observationClock
                /\ capture' = [capture EXCEPT ![c].pc = "done", ![c].result =
                      IF ObservationAccepts(sample) /\ PlausibleAt(o, sample)
                      THEN [verdict |-> Classify(capture[c].expected, o), observation |-> o,
                            at |-> sample]
                      ELSE None]
           ELSE /\ capture' = [capture EXCEPT ![c].pc = "done"]
                /\ UNCHANGED observationClock

CaptureNext ==
    \E c \in Captures :
        \/ \E x \in Expectations, sample \in Times, overridden \in BOOLEAN,
              n \in 0..MaxReports : \E reports \in [1..n -> Reports] :
              StartCapture(c, x, sample, reports, overridden)
        \/ \E report \in Reports : Report(c, report)
        \/ \E sample \in Samples : Resume(c, sample)

CaptureSpec == CaptureInit /\ [][CaptureNext]_captureVars

-----------------------------------------------------------------------------
(* Properties *)

\* A verdict rests on the first report of an observer that kept to the protocol:
\* it returned nothing, and no second report came before it returned.  The verdict
\* was given at a trusted time not before the call and not before the observation.
\* MATCH means the authorized execution, in its window, with the expected effect.
VerdictIsUnambiguous ==
    \A c \in Captures :
        LET k == capture[c]
            o == k.result.observation
            x == k.expected
        IN  k.result # None =>
                /\ o = k.first /\ k.early <= 1 /\ ~k.overridden
                /\ k.started <= k.result.at /\ o.observed <= k.result.at
                /\ k.result.at <= observationClock
                /\ k.result.verdict = "MATCH" =>
                      /\ o.exec = x.exec /\ x.issued <= o.executed /\ o.executed < x.expires
                      /\ o.status # "unknown" /\ x.status \in {"any", o.status}
                      /\ x.effect \in {None, o.effect}
=============================================================================
