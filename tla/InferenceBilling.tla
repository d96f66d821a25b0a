----------------------------- MODULE InferenceBilling -----------------------------
(***************************************************************************)
(* What a model execution is charged.  The amount is computed twice: by    *)
(* the application when the execution ends (InferenceBillingService), and  *)
(* by the database, which refuses a usage record that says otherwise       *)
(* (assert_inference_usage_consistent).                                    *)
(***************************************************************************)
EXTENDS Integers

\* A token count the worker did not report.
Absent == -1

TokenCounts == Nat \cup {Absent}

\* InferenceTariff, with what its __post_init__ demands.
IsTariff(t) ==
    /\ t \in [fixed : Nat, inputRate : Nat, outputRate : Nat, maximum : Nat, unmetered : Nat]
    /\ t.fixed <= t.maximum
    /\ t.unmetered <= t.maximum
    /\ t.maximum > 0 => t.unmetered > 0

\* How an execution ended and the tokens it is known to have used.
Usages ==
    [outcome : {"completed", "failed", "cancelled"}, input : TokenCounts, output : TokenCounts]

AtMost(limit, amount) == IF amount <= limit THEN amount ELSE limit

\* InferenceTariff.charge
Charge(t, input, output) ==
    AtMost(t.maximum, t.fixed + input * t.inputRate + output * t.outputRate)

---------------------------------------------------------------------------
(* The application: InferenceBillingService.finalize *)

Settlement(t, u) ==
    CASE u.outcome = "failed" -> [charge |-> 0, reason |-> "failed"]
      [] u.outcome = "cancelled" ->
            [charge |-> IF u.input = Absent THEN 0
                        ELSE Charge(t, u.input, IF u.output = Absent THEN 0 ELSE u.output),
             reason |-> "cancelled"]
      [] OTHER ->
            IF t.maximum = 0 THEN [charge |-> 0, reason |-> "free"]
            ELSE IF u.input = Absent \/ u.output = Absent
                 THEN [charge |-> t.unmetered, reason |-> "unmetered"]
            ELSE [charge |-> Charge(t, u.input, u.output), reason |-> "completed"]

---------------------------------------------------------------------------
(* The database: assert_inference_usage_consistent *)

\* The branches of the trigger, in its order; LEAST(..., maximum) caps the metered amount.
ExpectedUsage(t, u) ==
    LET metered(output) ==
            LET amount == t.fixed + u.input * t.inputRate + output * t.outputRate
            IN  IF t.maximum < amount THEN t.maximum ELSE amount
    IN
    IF u.outcome = "failed" THEN [charge |-> 0, reason |-> "failed"]
    ELSE IF u.outcome = "cancelled" THEN
        [charge |-> IF u.input = Absent THEN 0
                    ELSE metered(IF u.output = Absent THEN 0 ELSE u.output),
         reason |-> "cancelled"]
    ELSE IF t.maximum = 0 THEN [charge |-> 0, reason |-> "free"]
    ELSE IF u.input = Absent \/ u.output = Absent
         THEN [charge |-> t.unmetered, reason |-> "unmetered"]
    ELSE [charge |-> metered(u.output), reason |-> "completed"]

=============================================================================
