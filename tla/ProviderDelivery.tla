-------------------------- MODULE ProviderDelivery --------------------------
(* From what happened on the wire to the decision about the next call: the     *)
(* OpenAI adapter classifies what its SDK raised or parses the response, the   *)
(* replay adapter looks a result up, the capsule normalizes the outcome into   *)
(* evidence, and the decision repeats the item, goes on or stops.              *)
EXTENDS Naturals, AttemptDecision

VARIABLES
    exchange,  \* the last request as it really went
    evidence,  \* and what was made of it
    attempt,   \* of the current item, from 1
    effects,   \* requests of the current item that the provider carried out
    denied,    \* a request came back as 401
    stopped    \* the terminal reason that ended the run, or "none"

dvars == <<exchange, evidence, attempt, effects, denied, stopped>>

-----------------------------------------------------------------------------
(* The SDK (external): class, bases and HTTP status of what it raises.         *)

StatusClasses ==
    [ AuthenticationError |-> 401, PermissionDeniedError |-> 403, BadRequestError |-> 400,
      NotFoundError |-> 404, ConflictError |-> 409, UnprocessableEntityError |-> 422,
      RateLimitError |-> 429, InternalServerError |-> 503, APIStatusError |-> 408 ]

NoStatus == 0
SdkErrors ==
    { [class |-> c, status |-> StatusClasses[c]] : c \in DOMAIN StatusClasses }
    \cup { [class |-> c, status |-> NoStatus] :
             c \in {"APITimeoutError", "APIConnectionError", "OpenAIError"} }

Names(error) ==
    {error.class, "OpenAIError"}
    \cup (IF error.class = "APITimeoutError" THEN {"APIConnectionError"} ELSE {})
    \cup (IF error.status # NoStatus THEN {"APIStatusError"} ELSE {})

(* A 4xx answer, a request timeout aside, says that nothing was generated.     *)
Refused(error) == error.status \in 400 .. 499 \ {408}

(* A response object: status, public error, whether its identifiers, usage and *)
(* model are well formed, and its text.                                        *)
Responses ==
    [ status : {"completed", "incomplete", "failed", "cancelled", "queued"},
      error  : {"none", "rate_limit", "authentication", "other", "malformed"},
      sound  : BOOLEAN,
      text   : {"none", "some", "too long"} ]

(* via: an SDK exception, a response, a missing replay key, or another         *)
(* exception.  safe: the identifiers contain nothing that may not be stored.   *)
Exchanges ==
    [via : {"error"}, what : SdkErrors, safe : BOOLEAN, carriedOut : {FALSE}]
    \cup { x \in [via : {"error"}, what : SdkErrors, safe : BOOLEAN, carriedOut : {TRUE}] :
             ~Refused(x.what) }
    \cup [via : {"response"}, what : Responses, safe : BOOLEAN, carriedOut : BOOLEAN]
    \cup [via : {"no key"}, what : {"none"}, safe : {TRUE}, carriedOut : {FALSE}]
    \cup [via : {"foreign"}, what : {"none"}, safe : {TRUE}, carriedOut : BOOLEAN]

-----------------------------------------------------------------------------
(* The adapter *)

Outcome(kind, retryable, certainty) ==
    [kind |-> kind, retryable |-> retryable, certainty |-> certainty]
Result == Outcome("none", FALSE, "response_received")
TooLong == Outcome("too long", FALSE, "response_received")
Received(kind, retryable) == Outcome(kind, retryable, "response_received")

Unanswered(error) == Names(error) \cap {"APITimeoutError", "APIConnectionError"} # {}

ErrorKind(error) ==
    IF ~Unanswered(error) /\ ("AuthenticationError" \in Names(error) \/ error.status = 401)
       THEN "authentication" ELSE "other"

Retryable(error) ==
    \/ Unanswered(error)
    \/ "RateLimitError" \in Names(error) \/ error.status = 429
    \/ error.status \in {408, 409}
    \/ "InternalServerError" \in Names(error) \/ error.status >= 500

(* Variant: a 408 is a refusal like every 4xx.                                 *)
DeliveryCertaintyBy4xx(error) ==
    IF error.status \in 400 .. 499 THEN "definitely_rejected" ELSE "unknown"

DeliveryCertainty(error) ==
    IF Unanswered(error) \/ error.status = 408 \/ error.status >= 500 THEN "unknown"
    ELSE IF \/ error.status \in 400 .. 499
            \/ Names(error) \cap {"AuthenticationError", "PermissionDeniedError",
                                  "BadRequestError", "RateLimitError"} # {}
         THEN "definitely_rejected" ELSE "unknown"

Classify(error) == Outcome(ErrorKind(error), Retryable(error), DeliveryCertainty(error))

Parse(response) ==
    IF ~response.sound THEN Received("other", FALSE)
    ELSE CASE response.status = "failed" /\ response.error \notin {"none", "malformed"} ->
                Received(response.error, response.error = "rate_limit")
           [] response.status = "completed" /\ response.error = "none"
              /\ response.text # "none" ->
                IF response.text = "some" THEN Result ELSE TooLong
           [] OTHER -> Received("other", FALSE)

Adapt(x) ==
    CASE x.via = "error"    -> Classify(x.what)
      [] x.via = "response" -> Parse(x.what)
      [] x.via = "no key"   -> Outcome("other", FALSE, "definitely_not_sent")
      [] x.via = "foreign"  -> Outcome("other", FALSE, "unknown")

-----------------------------------------------------------------------------
(* Normalization: constant errors keep the certainty and are permanent; an     *)
(* authentication error that nobody answered becomes an unknown delivery.      *)

(* Variant: an error that is not stored as it came has an unknown delivery.    *)
NormalizeUnsafeIsUnknown(o, safe) ==
    IF ~safe THEN [certainty |-> "unknown", fault |-> "permanent"]
    ELSE [certainty |-> o.certainty,
          fault |-> IF o.kind = "none" THEN "none" ELSE IF o.kind = "authentication"
                    THEN "authentication" ELSE IF o.retryable THEN "transient" ELSE "permanent"]

Normalize(o, safe) ==
    IF ~safe \/ o.kind = "too long" THEN [certainty |-> o.certainty, fault |-> "permanent"]
    ELSE IF o.kind = "none" THEN [certainty |-> o.certainty, fault |-> "none"]
    ELSE IF o.kind = "authentication"
         THEN IF o.certainty \in {"unknown", "definitely_not_sent"}
              THEN [certainty |-> "unknown", fault |-> "permanent"]
              ELSE [certainty |-> o.certainty, fault |-> "authentication"]
    ELSE [certainty |-> o.certainty, fault |-> IF o.retryable THEN "transient" ELSE "permanent"]

-----------------------------------------------------------------------------
DeliveryInit ==
    /\ exchange = [via |-> "no key", what |-> "none", safe |-> TRUE, carriedOut |-> FALSE]
    /\ evidence = Normalize(Adapt(exchange), TRUE)
    /\ attempt = 1 /\ effects = 0 /\ denied = FALSE /\ stopped = "none"

IsDenied(x) == x.via = "error" /\ x.what.status = 401

Reason(x) == Decision(Normalize(Adapt(x), x.safe), attempt)
Carried(x) == effects + IF x.carriedOut THEN 1 ELSE 0

(* The request goes out and its evidence is recorded.                          *)
Ask(x) ==
    /\ stopped = "none"
    /\ exchange' = x
    /\ evidence' = Normalize(Adapt(x), x.safe)
    /\ denied' = (denied \/ IsDenied(x))

Retry(x) ==
    /\ Reason(x) = "none"
    /\ attempt' = attempt + 1 /\ effects' = Carried(x)
    /\ UNCHANGED stopped

NextItem(x) ==
    /\ Reason(x) \in {"success", "retry_exhausted", "provider_rejected"}
    /\ attempt' = 1 /\ effects' = 0
    /\ UNCHANGED stopped

Stop(x) ==
    /\ Reason(x) \in {"authentication_stopped", "ambiguous_delivery"}
    /\ stopped' = Reason(x) /\ effects' = Carried(x)
    /\ UNCHANGED attempt

Call == \E x \in Exchanges : Ask(x) /\ (Retry(x) \/ NextItem(x) \/ Stop(x))

DeliverySpec == DeliveryInit /\ [][Call]_dvars
-----------------------------------------------------------------------------
(* Properties *)

(* An item is asked for again only while the provider has carried nothing out, *)
(* whatever the class and status of the exceptions in between.                 *)
RepeatedWithoutEffect == stopped = "none" => effects = 0

(* The run is given up as ambiguous only if the request may have been carried  *)
(* out: a refusal never ends it for that reason.                               *)
StopIsWarranted ==
    stopped = "ambiguous_delivery" => exchange.via # "error" \/ ~Refused(exchange.what)

(* "A provider-returned authentication error is recorded, stops before later   *)
(* plan items" (generation capsule design, 676).                               *)
AuthenticationStops == denied => stopped # "none"
=============================================================================
