----------------------------- MODULE MCAlerts -----------------------------
(* Small instances of Alerts for TLC: the alert is one of those below, so one  *)
(* run covers every trigger.                                                   *)
EXTENDS Alerts, TLC

CONSTANTS q1, q2

Alert(trigger, consecutive, recovery, resend, max) ==
    [trigger |-> trigger, on |-> {"error"}, consecutive |-> consecutive,
     recovery |-> recovery, resend |-> resend, max |-> max]

MCConfigs ==
    {Alert("status_change", 1, TRUE, Never, Never),
     Alert("status_change", 2, TRUE, 1, 1),
     Alert("repeated_failure", 2, FALSE, 1, 1),
     Alert("threshold", 1, TRUE, 1, 1),
     Alert("ssl_cert_expiry", 1, TRUE, Never, Never)}

Plain == {Alert("status_change", 1, FALSE, Never, Never)}

Reading(ok, slow, days) == [ok |-> ok, slow |-> slow, days |-> days]

(* What each alert tells apart: fast and slow; a certificate far from expiry,  *)
(* within 30 and within 7 days of it, unreadable, or none; up and down.        *)
MCReadings(trigger) ==
    CASE trigger = "threshold" ->
            {Reading(TRUE, slow, NoCert) : slow \in BOOLEAN}
      [] trigger = "ssl_cert_expiry" ->
            {Reading(TRUE, FALSE, days) : days \in {90, 20, 5, Unread}}
              \cup {Reading(FALSE, FALSE, NoCert)}
      [] OTHER -> {Reading(ok, FALSE, NoCert) : ok \in BOOLEAN}

Symmetry == Permutations(Requests)
=============================================================================
