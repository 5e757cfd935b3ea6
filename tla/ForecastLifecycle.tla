-------------------------- MODULE ForecastLifecycle --------------------------
(***************************************************************************)
(* What the forecasting loop promises about each forecast, files, runs and *)
(* crashes left out: it is opened once, it is open until it gets one       *)
(* verdict, and a verdict by score is never lost or changed.               *)
(***************************************************************************)
CONSTANTS Keys,          \* forecast identities
          Lossy          \* whether what is not scored may be lost again

VARIABLE verdict         \* what is known of each of them

Verdicts == {"absent", "open", "hit", "miss", "unscorable"}
Lost == IF Lossy THEN {"absent"} ELSE {}

\* The verdicts that may follow v.
After(v) ==
  CASE v = "absent"     -> {"absent", "open"}
    [] v = "open"       -> {"open", "hit", "miss", "unscorable"} \cup Lost
    [] v = "unscorable" -> {"unscorable"} \cup Lost
    [] OTHER            -> {v}

Init == verdict = [k \in Keys |-> "absent"]

\* One write may open or settle several forecasts.
Next == /\ verdict' \in [Keys -> Verdicts]
        /\ \A k \in Keys : verdict'[k] \in After(verdict[k])

Spec == Init /\ [][Next]_verdict
=============================================================================
