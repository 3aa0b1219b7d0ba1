---------------------------- MODULE DrillContract ----------------------------
(***************************************************************************)
(* What one drill promises to whoever started it, without its stages: it   *)
(* ends with exactly one verdict, perhaps with an error, and an error is   *)
(* never anything but ERROR.  The checks that ran agree with the verdict,  *)
(* and an ERROR without an error ran none.  When a drill ends while        *)
(* something of it is still on the host's disk it has said so, by the Kept *)
(* it returns or by an error.  DrillRun implements this contract;          *)
(* CheckCommand and Harness rely on it.                                    *)
(***************************************************************************)
VARIABLES
  outcome,    \* the verdict of the finished drill, "pending" before
  failed,     \* the drill ended with an error
  checks,     \* what the checks of the finished drill's report say
  holds,      \* the drill's workspace directory exists
  announced   \* the drill has decided to leave the workspace for inspection

vars == <<outcome, failed, checks, holds, announced>>

Verdicts == {"PASS", "UNUSABLE", "ERROR"}

\* No check ran, every check passed, or some check failed.
Checks == {"none", "passed", "missed"}

Init == /\ outcome = "pending" /\ failed = FALSE /\ checks = "none"
        /\ holds = FALSE /\ announced = FALSE

Acquire == /\ outcome = "pending" /\ ~holds
           /\ holds' = TRUE
           /\ UNCHANGED <<outcome, failed, checks, announced>>

Release == /\ outcome = "pending" /\ holds /\ ~announced
           /\ holds' = FALSE
           /\ UNCHANGED <<outcome, failed, checks, announced>>

Announce == /\ outcome = "pending" /\ holds /\ ~announced
            /\ announced' = TRUE
            /\ UNCHANGED <<outcome, failed, checks, holds>>

End(v, e, c) ==
  /\ outcome = "pending"
  /\ e => v = "ERROR"
  /\ ~e => CASE v = "PASS" -> c = "passed"
             [] v = "UNUSABLE" -> c \in {"none", "missed"}
             [] v = "ERROR" -> c = "none"
  /\ holds => announced \/ e
  /\ outcome' = v /\ failed' = e /\ checks' = c
  /\ UNCHANGED <<holds, announced>>

Finish == \E v \in Verdicts, e \in BOOLEAN, c \in Checks : End(v, e, c)

Next == Acquire \/ Release \/ Announce \/ Finish

Spec == Init /\ [][Next]_vars

\* The drill is not left running for ever.
FairSpec == Spec /\ WF_vars(Finish)
=============================================================================
