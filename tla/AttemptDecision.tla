-------------------------- MODULE AttemptDecision --------------------------
(* Provider evidence after normalization, as far as the journal tells it       *)
(* apart, and the decision it leads to.  A fault is transient if it is marked  *)
(* retryable and is not an authentication error.                               *)
EXTENDS Naturals

CONSTANT MaxTransientRetries  \* manifest.retry.max_transient_retries

ASSUME RetriesAreNatural == MaxTransientRetries \in Nat

Definite == {"definitely_not_sent", "definitely_rejected"}
Certainties == Definite \cup {"response_received", "unknown"}

Evidence == { e \in [certainty : Certainties,
                     fault : {"none", "authentication", "transient", "permanent"}] :
                /\ e.fault = "none" => e.certainty = "response_received"
                /\ e.fault = "authentication" =>
                       e.certainty \in {"definitely_rejected", "response_received"} }

(* Variant: retryable errors are retried before their delivery is looked at.   *)
DecisionRetriesFirst(e, attempt) ==
    IF e.fault = "transient" /\ attempt <= MaxTransientRetries THEN "none"
    ELSE IF e.fault = "none" THEN "success"
    ELSE IF e.certainty = "unknown" THEN "ambiguous_delivery" ELSE "provider_rejected"

(* Terminal reason; "none" is a non-terminal attempt that is retried.          *)
Decision(e, attempt) ==
    CASE e.fault = "none"           -> "success"
      [] e.fault # "none" /\ e.certainty = "unknown" -> "ambiguous_delivery"
      [] e.fault = "authentication" -> "authentication_stopped"
      [] e.fault = "transient" /\ e.certainty \in Definite ->
            IF attempt <= MaxTransientRetries THEN "none" ELSE "retry_exhausted"
      [] OTHER                      -> "provider_rejected"

(* What is known of a call: nothing yet, that it had no effect, that it was    *)
(* answered, or that it may have been delivered.                               *)
Learnt(e) == CASE e.certainty \in Definite         -> "refused"
               [] e.certainty = "response_received" -> "received"
               [] OTHER                             -> "unknown"
=============================================================================
