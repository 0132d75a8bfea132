--------------------------- MODULE OriginBreaker ---------------------------
(***************************************************************************)
(* The circuit that guards new WebSocket openings to one origin,           *)
(* providers/openai/src/transport/websocket/breaker.rs.  It is asked for a *)
(* permit before an opening and told once how the opening went.  After     *)
(* Threshold failures in the window it opens; when its time is over one    *)
(* opening is allowed as a probe, named here by the task that performs it. *)
(*                                                                         *)
(* The window of the failures and the open period are any lapse of time.   *)
(***************************************************************************)
EXTENDS Naturals, FiniteSets

CONSTANTS
    Openings,       \* the tasks that open connections
    NoOpening,
    Threshold       \* failure_threshold

ASSUME BreakerAssumption ==
    /\ NoOpening \notin Openings
    /\ Threshold \in Nat \ {0}

VARIABLES
    circuit,        \* "open" until its time is over, then "due"
    failures,       \* failures in the window while it is closed
    probe           \* the probe of a half-open circuit

circuitVars == <<circuit, failures, probe>>

\* "plain" for a closed circuit, "none" for requests that cannot use HTTP and
\* do not ask it.
Permits == {"none", "plain", "probe"}

BreakerTypeOK ==
    /\ circuit \in {"closed", "open", "due", "half"}
    /\ failures \in 0 .. Threshold - 1
    /\ probe \in Openings \cup {NoOpening}

BreakerInit ==
    /\ circuit = "closed"
    /\ failures = 0
    /\ probe = NoOpening

\* try_acquire: what an opening of task o gets, or nothing at all.
TryAcquire(o, permit) ==
    \/ circuit = "closed" /\ permit = "plain" /\ UNCHANGED circuitVars
    \/ /\ circuit = "due" /\ permit = "probe"
       /\ circuit' = "half" /\ probe' = o
       /\ UNCHANGED failures

Refused == circuit \in {"open", "half"}

\* permit_still_owns_state.
StillOwns(o, permit) ==
    \/ permit = "plain" /\ circuit = "closed"
    \/ permit = "probe" /\ circuit = "half" /\ probe = o

RecordSuccess(o, permit) ==
    IF StillOwns(o, permit)
    THEN circuit' = "closed" /\ failures' = 0 /\ probe' = NoOpening
    ELSE UNCHANGED circuitVars

\* A failed probe opens the circuit again, the last failure that fits the
\* window opens it.
RecordFailure(o, permit) ==
    IF ~StillOwns(o, permit) THEN UNCHANGED circuitVars
    ELSE IF permit = "probe" \/ failures + 1 >= Threshold
    THEN circuit' = "open" /\ failures' = 0 /\ probe' = NoOpening
    ELSE failures' = failures + 1 /\ UNCHANGED <<circuit, probe>>

\* An opening that was cancelled says nothing of the origin: its probe is due
\* again at once.
CancelProbe(o, permit) ==
    IF permit = "probe" /\ StillOwns(o, permit)
    THEN circuit' = "due" /\ probe' = NoOpening /\ UNCHANGED failures
    ELSE UNCHANGED circuitVars

\* Time passes.
OpenElapses == circuit = "open" /\ circuit' = "due" /\ UNCHANGED <<failures, probe>>
FailureAges == failures > 0 /\ failures' = failures - 1 /\ UNCHANGED <<circuit, probe>>
=============================================================================
