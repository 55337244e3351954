--------------------------- MODULE ProducerProofs ---------------------------
(* Theorems about what goes into a capsule.                                    *)
(* ProviderDelivery, for any retry limit: normalization only lets through      *)
(* evidence the journal is modelled with, an item is never repeated after an   *)
(* effect, and a run is given up only with reason.                             *)
(* RuntimeProvenance, for any packages, files and number of changes: a version *)
(* of a file that was replaced does not come back, so whatever is read while   *)
(* it changes shows at the next look, and every look comes before it matters.  *)
(* CapsulePlanning, for any sources, arms, repetitions and limits: the planner *)
(* accepts row for row what the materializer makes of some files, and a plan   *)
(* has at most one block unfinished wherever it stops.                         *)
(* DependencyClosure, for any names, roots, extras, number of requirements and *)
(* limit: the work list ends with the least closure, and with no more work     *)
(* than the closure calls for.                                                 *)
(* OutputSanitizer, for any text, credentials, widths, batch and limit: the    *)
(* search finds each occurrence, and what is merged from the searches is what  *)
(* the scan for diagnostics makes of the text.                                 *)
EXTENDS ProviderDelivery, MCProducer, FiniteSetTheorems, SequenceTheorems, WellFoundedInduction, TLAPS

-----------------------------------------------------------------------------
(* ProviderDelivery                                                            *)

(* What an adapter, whatever it is, may raise or return: a result was received. *)
Outcomes ==
    { o \in [kind : {"none", "too long", "authentication", "rate_limit", "other"},
             retryable : BOOLEAN, certainty : Certainties] :
        o.kind \in {"none", "too long"} => o.certainty = "response_received" }

(* The evidence of any outcome, also of an adapter's contradictory one, is of  *)
(* the set the journal's model draws from (_normalize_result, _normalize_error). *)
THEOREM NormalizedIsLegal ==
    ASSUME NEW o \in Outcomes, NEW safe \in BOOLEAN
    PROVE  Normalize(o, safe) \in Evidence
<1> DEFINE e == Normalize(o, safe)
<1>1. /\ o.certainty \in Certainties
      /\ o.kind \in {"none", "too long"} => o.certainty = "response_received"
  BY DEF Outcomes
<1>2. e \in [certainty : Certainties,
             fault : {"none", "authentication", "transient", "permanent"}]
  BY <1>1 DEF Normalize, Certainties, Definite
<1>3. e.fault = "none" => e.certainty = "response_received"
  BY <1>1 DEF Normalize
<1>4. e.fault = "authentication" => e.certainty \in {"definitely_rejected", "response_received"}
  BY <1>1 DEF Normalize, Certainties, Definite
<1> QED
  BY <1>2, <1>3, <1>4 DEF Evidence

(* An SDK exception classified as a definite rejection is an HTTP refusal      *)
(* (_classify_api_error).                                                      *)
LEMMA RejectedWasRefused ==
    ASSUME NEW error \in SdkErrors, DeliveryCertainty(error) \in Definite
    PROVE  Refused(error)
<1>1. /\ error.status # 408 /\ ~(error.status >= 500)
      /\ \/ error.status \in 400 .. 499
         \/ Names(error) \cap {"AuthenticationError", "PermissionDeniedError",
                               "BadRequestError", "RateLimitError"} # {}
  BY DEF DeliveryCertainty, Definite
<1>2. CASE error.status \in 400 .. 499
  BY <1>1, <1>2 DEF Refused
<1>3. CASE Names(error) \cap {"AuthenticationError", "PermissionDeniedError",
                              "BadRequestError", "RateLimitError"} # {}
  <2>1. error.class \in {"AuthenticationError", "PermissionDeniedError", "BadRequestError",
                         "RateLimitError"}
    BY <1>3 DEF Names
  <2>2. error.status \in {401, 403, 400, 429}
    BY <2>1 DEF SdkErrors, StatusClasses
  <2> QED
    BY <2>2 DEF Refused
<1> QED
  BY <1>1, <1>2, <1>3

(* Evidence of a definite delivery, over all ways a request can go.            *)
LEMMA DefiniteHasNoEffect ==
    ASSUME NEW x \in Exchanges, Normalize(Adapt(x), x.safe).certainty \in Definite
    PROVE  ~x.carriedOut
<1>1. x.via \in {"error", "response", "no key", "foreign"}
  BY DEF Exchanges
<1>2. CASE x.via = "error"
  <2>1. x.what \in SdkErrors /\ (x.carriedOut => ~Refused(x.what))
    BY <1>2 DEF Exchanges
  <2>2. Adapt(x) = Classify(x.what)
    BY <1>2 DEF Adapt
  <2>3. Adapt(x).certainty \in Definite
    BY DEF Normalize, Definite
  <2>4. DeliveryCertainty(x.what) \in Definite
    BY <2>2, <2>3 DEF Classify, Outcome
  <2> QED
    BY <2>1, <2>4, RejectedWasRefused
<1>3. CASE x.via = "response"
  <2>1. Adapt(x) = Parse(x.what)
    BY <1>3 DEF Adapt
  <2>2. Parse(x.what).certainty = "response_received"
    BY DEF Parse, Received, Result, TooLong, Outcome
  <2> QED
    BY <2>1, <2>2 DEF Normalize, Definite
<1>4. CASE x.via = "no key"
  BY <1>4 DEF Exchanges
<1>5. CASE x.via = "foreign"
  BY <1>5 DEF Adapt, Outcome, Normalize, Definite
<1> QED
  BY <1>1, <1>2, <1>3, <1>4, <1>5

(* Whatever exceptions and responses an item's calls meet, it is asked for     *)
(* again only while the provider has carried nothing out.                      *)
THEOREM NoRepeatAfterEffect == DeliverySpec => []RepeatedWithoutEffect
<1>1. DeliveryInit => RepeatedWithoutEffect
  BY DEF DeliveryInit, RepeatedWithoutEffect
<1>2. RepeatedWithoutEffect /\ [Call]_dvars => RepeatedWithoutEffect'
  <2> SUFFICES ASSUME RepeatedWithoutEffect, [Call]_dvars PROVE RepeatedWithoutEffect'
    OBVIOUS
  <2>1. CASE Call
    <3>1. PICK x \in Exchanges : Ask(x) /\ (Retry(x) \/ NextItem(x) \/ Stop(x))
      BY <2>1 DEF Call
    <3>2. stopped = "none" /\ effects = 0
      BY <3>1 DEF Ask, RepeatedWithoutEffect
    <3>3. CASE Retry(x)
      <4>1. Normalize(Adapt(x), x.safe).certainty \in Definite
        BY <3>3 DEF Retry, Reason, Decision
      <4>2. effects' = 0
        BY <3>2, <3>3, <4>1, DefiniteHasNoEffect DEF Retry, Carried
      <4> QED
        BY <4>2 DEF RepeatedWithoutEffect
    <3>4. CASE NextItem(x)
      BY <3>4 DEF NextItem, RepeatedWithoutEffect
    <3>5. CASE Stop(x)
      BY <3>5 DEF Stop, RepeatedWithoutEffect
    <3> QED
      BY <3>1, <3>3, <3>4, <3>5
  <2>2. CASE UNCHANGED dvars
    BY <2>2 DEF dvars, RepeatedWithoutEffect
  <2> QED
    BY <2>1, <2>2
<1> QED
  BY <1>1, <1>2, PTL DEF DeliverySpec

(* The converse of RejectedWasRefused: no refusal is classified as an unknown  *)
(* delivery (_delivery_certainty).                                             *)
LEMMA RefusedIsRejected ==
    ASSUME NEW error \in SdkErrors, Refused(error)
    PROVE  DeliveryCertainty(error) = "definitely_rejected"
<1>1. error.status \in 400 .. 499 /\ error.status # 408
  BY DEF Refused
<1>2. error.class \in DOMAIN StatusClasses
  BY <1>1 DEF SdkErrors, NoStatus
<1>3. error.class \notin {"APITimeoutError", "APIConnectionError"}
  BY <1>2 DEF StatusClasses
<1>4. ~Unanswered(error)
  BY <1>3 DEF Unanswered, Names
<1> QED
  BY <1>1, <1>4 DEF DeliveryCertainty

(* Evidence of a refusal is never of an unknown delivery, also after           *)
(* normalization (_normalize_error keeps the certainty).                       *)
LEMMA RefusalIsKnown ==
    ASSUME NEW x \in Exchanges, x.via = "error", Refused(x.what)
    PROVE  Normalize(Adapt(x), x.safe).certainty # "unknown"
<1>1. x.what \in SdkErrors
  BY DEF Exchanges
<1>2. Adapt(x).certainty = "definitely_rejected"
  BY <1>1, RefusedIsRejected DEF Adapt, Classify, Outcome
<1> QED
  BY <1>2 DEF Normalize

(* Whatever is asked, a run is given up as ambiguous only after a request that *)
(* may have been carried out, for any number of retries.                       *)
THEOREM AmbiguityIsReal == DeliverySpec => []StopIsWarranted
<1>1. DeliveryInit => StopIsWarranted
  BY DEF DeliveryInit, StopIsWarranted
<1>2. StopIsWarranted /\ [Call]_dvars => StopIsWarranted'
  <2> SUFFICES ASSUME StopIsWarranted, [Call]_dvars PROVE StopIsWarranted'
    OBVIOUS
  <2>1. CASE Call
    <3>1. PICK x \in Exchanges : Ask(x) /\ (Retry(x) \/ NextItem(x) \/ Stop(x))
      BY <2>1 DEF Call
    <3>2. stopped = "none" /\ exchange' = x
      BY <3>1 DEF Ask
    <3>3. CASE Retry(x) \/ NextItem(x)
      BY <3>2, <3>3 DEF Retry, NextItem, StopIsWarranted
    <3>4. CASE Stop(x)
      <4> SUFFICES ASSUME stopped' = "ambiguous_delivery" PROVE x.via # "error" \/ ~Refused(x.what)
        BY <3>2 DEF StopIsWarranted
      <4>1. Decision(Normalize(Adapt(x), x.safe), attempt) = "ambiguous_delivery"
        BY <3>4 DEF Stop, Reason
      <4>2. Normalize(Adapt(x), x.safe).certainty = "unknown"
        BY <4>1 DEF Decision
      <4> QED
        BY <4>2, RefusalIsKnown
    <3> QED
      BY <3>1, <3>3, <3>4
  <2>2. CASE UNCHANGED dvars
    BY <2>2 DEF dvars, StopIsWarranted
  <2> QED
    BY <2>1, <2>2
<1> QED
  BY <1>1, <1>2, PTL DEF DeliverySpec

-----------------------------------------------------------------------------
(* RuntimeProvenance: sequences put one after the other                        *)

LEMMA LeastNatural ==
    ASSUME NEW T \in SUBSET Nat, T # {}
    PROVE  \E x \in T : \A y \in T : x <= y
<1>. DEFINE R == OpToRel(<, Nat)
<1>1. IsWellFoundedOn(R, Nat)
  BY NatLessThanWellFounded
<1>2. \A x, y \in Nat : x < y => <<x, y>> \in R
  BY DEF OpToRel
<1>. HIDE DEF R
<1>3. PICK x \in T : \A y \in T : ~(<<y, x>> \in R)
  BY <1>1, WFMin
<1>4. \A y \in T : ~(y < x)
  BY <1>2, <1>3
<1>5. \A y \in T : x <= y
  BY <1>4
<1>. QED
  BY <1>5

LEMMA UpTo ==
    ASSUME NEW T, NEW m \in Nat, 0 \in T, \A k \in 0 .. m - 1 : k \in T => k + 1 \in T
    PROVE  \A k \in 0 .. m : k \in T
<1>. DEFINE Bad == { k \in 0 .. m : k \notin T }
<1>. SUFFICES ASSUME Bad # {} PROVE FALSE
  OBVIOUS
<1>1. Bad \in SUBSET Nat
  OBVIOUS
<1>2. PICK x \in Bad : \A y \in Bad : x <= y
  <2>. HIDE DEF Bad
  <2>. QED
    BY <1>1, LeastNatural
<1>3. x # 0 /\ x - 1 \in 0 .. m - 1 /\ x - 1 \in T
  BY <1>2
<1>. QED
  BY <1>2, <1>3

Flat(ss, f, i) == IF i = 1 THEN ss[i] ELSE f[i - 1] \o ss[i]

LEMMA FlattenIs ==
    ASSUME NEW S, NEW ss \in Seq(Seq(S)), Len(ss) # 0
    PROVE  \E f : /\ Runtime!FlattenSeq(ss) = f[Len(ss)]
                  /\ \A i \in 1 .. Len(ss) : f[i] = Flat(ss, f, i)
<1>. DEFINE n == Len(ss)
            Good(m, f) == f = [i \in 1 .. m |-> Flat(ss, f, i)]
            T == { m \in 0 .. n : m # 0 => \E f : Good(m, f) }
<1>0. n \in Nat \ {0}
  OBVIOUS
<1>1. 0 \in T
  BY <1>0
<1>2. ASSUME NEW m \in 0 .. n - 1, m \in T
      PROVE  m + 1 \in T
  <2>1. PICK f : m # 0 => Good(m, f)
    BY <1>2
  <2>. DEFINE h == [i \in 1 .. m + 1 |-> IF i = m + 1 THEN Flat(ss, f, m + 1) ELSE f[i]]
  <2>2. \A i \in 1 .. m + 1 : h[i] = Flat(ss, h, i)
    <3>. SUFFICES ASSUME NEW i \in 1 .. m + 1 PROVE h[i] = Flat(ss, h, i)
      OBVIOUS
    <3>1. i # 1 => h[i - 1] = f[i - 1]
      BY <1>0
    <3>2. Flat(ss, h, i) = Flat(ss, f, i)
      <4>. HIDE DEF h
      <4>. QED
        BY <3>1 DEF Flat
    <3>3. CASE i = m + 1
      BY <3>2, <3>3
    <3>4. CASE i \in 1 .. m
      <4>1. m # 0
        BY <3>4
      <4>2. f[i] = Flat(ss, f, i)
        BY <2>1, <3>4, <4>1
      <4>3. h[i] = f[i]
        BY <1>0, <3>4
      <4>. QED
        BY <3>2, <4>2, <4>3
    <3>. QED
      BY <1>0, <3>3, <3>4
  <2>3. Good(m + 1, h) /\ m + 1 \in 0 .. n
    <3>1. h = [i \in 1 .. m + 1 |-> h[i]]
      OBVIOUS
    <3>. HIDE DEF h
    <3>. QED
      BY <1>0, <2>2, <3>1
  <2>. HIDE DEF Good, h
  <2>. QED
    BY <2>3
<1>3. \E f : Good(n, f)
  <2>. HIDE DEF T
  <2>1. \A m \in 0 .. n : m \in T
    BY <1>0, <1>1, <1>2, UpTo
  <2>2. n \in T
    BY <1>0, <2>1
  <2>. QED
    BY <1>0, <2>2 DEF T
<1>. DEFINE g == CHOOSE f : Good(n, f)
<1>4. Runtime!FlattenSeq(ss) = g[n]
  BY Zenon DEF Runtime!FlattenSeq, Flat
<1>5. Good(n, g)
  <2>. HIDE DEF Good
  <2>. QED
    BY <1>3
<1>6. \A i \in 1 .. n : g[i] = Flat(ss, g, i)
  BY <1>5
<1>. HIDE DEF g
<1>. QED
  BY <1>4, <1>6

Among(s) == { s[m] : m \in DOMAIN s }

LEMMA OneAfterTheOther ==
    ASSUME NEW S, NEW s \in Seq(S), NEW t \in Seq(S)
    PROVE  s \o t \in Seq(S) /\ Among(s \o t) = Among(s) \cup Among(t)
<1>1. s \o t \in Seq(S) /\ Len(s \o t) = Len(s) + Len(t) /\ Len(s) \in Nat /\ Len(t) \in Nat
  OBVIOUS
<1>2. DOMAIN s = 1 .. Len(s) /\ DOMAIN t = 1 .. Len(t) /\ DOMAIN (s \o t) = 1 .. Len(s) + Len(t)
  OBVIOUS
<1>3. \A m \in 1 .. Len(s) : (s \o t)[m] = s[m] /\ m \in DOMAIN (s \o t)
  BY <1>1, <1>2
<1>4. \A m \in 1 .. Len(t) : (s \o t)[Len(s) + m] = t[m] /\ Len(s) + m \in DOMAIN (s \o t)
  BY <1>1, <1>2
<1>5. ASSUME NEW m \in DOMAIN (s \o t), m \notin DOMAIN s
      PROVE  m - Len(s) \in DOMAIN t /\ (s \o t)[m] = t[m - Len(s)]
  BY <1>1, <1>2, <1>5
<1>6. Among(s \o t) \subseteq Among(s) \cup Among(t)
  BY <1>2, <1>3, <1>5 DEF Among
<1>7. Among(s) \subseteq Among(s \o t) /\ Among(t) \subseteq Among(s \o t)
  BY <1>2, <1>3, <1>4 DEF Among
<1>. QED
  BY <1>1, <1>6, <1>7

(* All members of all sequences, and no others.                                *)
LEMMA AllTogether ==
    ASSUME NEW S, NEW ss \in Seq(Seq(S))
    PROVE  /\ Runtime!FlattenSeq(ss) \in Seq(S)
           /\ \A i \in DOMAIN ss : Among(ss[i]) \subseteq Among(Runtime!FlattenSeq(ss))
<1>1. CASE Len(ss) = 0
  <2>1. Runtime!FlattenSeq(ss) = ss
    BY <1>1, Zenon DEF Runtime!FlattenSeq
  <2>2. ss = <<>>
    BY <1>1
  <2>. QED
    BY <2>1, <2>2
<1>2. CASE Len(ss) # 0
  <2>. DEFINE n == Len(ss)
              In(s, i) == s \in Seq(S) /\ \A j \in 1 .. i : Among(ss[j]) \subseteq Among(s)
  <2>1. PICK f : /\ Runtime!FlattenSeq(ss) = f[n]
                 /\ \A i \in 1 .. n : f[i] = Flat(ss, f, i)
    BY <1>2, FlattenIs
  <2>. DEFINE T == { i \in 0 .. n : i # 0 => In(f[i], i) }
  <2>2. n \in Nat \ {0} /\ (\A i \in 1 .. n : ss[i] \in Seq(S)) /\ DOMAIN ss = 1 .. n
    BY <1>2
  <2>3. 0 \in T
    BY <2>2
  <2>4. ASSUME NEW i \in 0 .. n - 1, i \in T PROVE i + 1 \in T
    <3>0. i + 1 \in 1 .. n /\ i + 1 \in 0 .. n /\ \A j \in 1 .. i + 1 : j = i + 1 \/ j \in 1 .. i
      BY <2>2
    <3>1. CASE i = 0
      <4>1. f[1] = ss[1]
        BY <2>1, <2>2 DEF Flat
      <4>2. In(f[1], 1)
        BY <2>2, <4>1
      <4>. QED
        BY <3>0, <3>1, <4>2
    <3>2. CASE i # 0
      <4>1. f[i + 1] = f[i] \o ss[i + 1]
        <5>1. f[i + 1] = Flat(ss, f, i + 1)
          BY <2>1, <3>0
        <5>2. i + 1 # 1 /\ (i + 1) - 1 = i
          BY <2>2, <3>2
        <5>. QED
          BY <5>1, <5>2, Zenon DEF Flat
      <4>2. In(f[i], i)
        BY <2>4, <3>2
      <4>3. ss[i + 1] \in Seq(S)
        BY <2>2, <3>0
      <4>4. /\ f[i + 1] \in Seq(S)
            /\ Among(f[i + 1]) = Among(f[i]) \cup Among(ss[i + 1])
        BY <4>1, <4>2, <4>3, OneAfterTheOther
      <4>5. In(f[i + 1], i + 1)
        BY <3>0, <4>2, <4>4
      <4>. QED
        BY <3>0, <4>5
    <3>. QED
      BY <3>1, <3>2
  <2>5. n \in T
    <3>. HIDE DEF T
    <3>1. \A m \in 0 .. n : m \in T
      BY <2>2, <2>3, <2>4, UpTo
    <3>. QED
      BY <2>2, <3>1
  <2>6. In(f[n], n)
    BY <2>2, <2>5
  <2>. QED
    BY <2>1, <2>2, <2>6
<1>. QED
  BY <1>1, <1>2

-----------------------------------------------------------------------------
(* RuntimeProvenance: what is left to do                                       *)

FileTasks(dos) == [do : dos, file : Runtime!Files]
Tasks == FileTasks({"read", "verify", "own"}) \cup [do : {"adopt", "state", "compare"}]
Own(f) == [do |-> "own", file |-> f]
StateTask == [do |-> "state"]
Owns == Runtime!Each("own", Runtime!AllFiles)

LEMMA FilesOfPackages ==
    /\ Packages \in Seq(Seq(Runtime!Files))
    /\ \A f \in Runtime!Files : \E i \in DOMAIN Packages : f \in Among(Packages[i])
<1>1. Packages \in Seq(Seq(Runtime!Files))
  BY AllConstantsAreLegal DEF Runtime!ConstantsAreLegal
<1>2. \A i \in DOMAIN Packages : Runtime!ToSet(Packages[i]) = Among(Packages[i])
  BY Zenon DEF Runtime!ToSet, Among
<1>. QED
  BY <1>1, <1>2 DEF Runtime!Files

LEMMA InRange ==
    ASSUME NEW S, NEW n \in Nat, NEW s \in [1 .. n -> S]
    PROVE  s \in Seq(S)
OBVIOUS

LEMMA EachIs ==
    ASSUME NEW do, NEW files \in Seq(Runtime!Files)
    PROVE  /\ Runtime!Each(do, files) \in Seq(FileTasks({do}))
           /\ \A f \in Among(files) : [do |-> do, file |-> f] \in Among(Runtime!Each(do, files))
<1>1. DOMAIN files = 1 .. Len(files) /\ Len(files) \in Nat
  OBVIOUS
<1>2. \A i \in 1 .. Len(files) : [do |-> do, file |-> files[i]] \in FileTasks({do})
  <2>1. \A i \in 1 .. Len(files) : files[i] \in Runtime!Files
    OBVIOUS
  <2>. QED
    BY <2>1 DEF FileTasks
<1>. DEFINE each == [i \in 1 .. Len(files) |-> [do |-> do, file |-> files[i]]]
<1>3. Runtime!Each(do, files) = each
  BY <1>1 DEF Runtime!Each
<1>4. DOMAIN each = 1 .. Len(files) /\ \A i \in 1 .. Len(files) : each[i] = [do |-> do, file |-> files[i]]
  OBVIOUS
<1>. HIDE DEF each
<1>5. \A f \in Among(files) : [do |-> do, file |-> f] \in Among(each)
  BY <1>1, <1>4 DEF Among
<1>6. each \in Seq(FileTasks({do}))
  <2>1. \A i \in 1 .. Len(files) : each[i] \in FileTasks({do})
    BY <1>2, <1>4
  <2>2. each = [i \in 1 .. Len(files) |-> each[i]]
    BY DEF each
  <2>3. each \in [1 .. Len(files) -> FileTasks({do})]
    BY <2>1, <2>2
  <2>. QED
    BY <1>1, <2>3, InRange
<1>. QED
  BY <1>3, <1>5, <1>6

LEMMA CaptureIs == Runtime!Capture \in Seq(FileTasks({"read", "verify"}))
<1>. DEFINE S == FileTasks({"read", "verify"})
            both(i) == Runtime!Each("read", Packages[i]) \o Runtime!Each("verify", Packages[i])
            all == [i \in DOMAIN Packages |-> both(i)]
<1>1. /\ Packages \in Seq(Seq(Runtime!Files)) /\ DOMAIN Packages = 1 .. Len(Packages)
      /\ Len(Packages) \in Nat
  BY FilesOfPackages
<1>2. ASSUME NEW i \in DOMAIN Packages PROVE both(i) \in Seq(S)
  <2>1. /\ Runtime!Each("read", Packages[i]) \in Seq(FileTasks({"read"}))
        /\ Runtime!Each("verify", Packages[i]) \in Seq(FileTasks({"verify"}))
    <3>1. Packages[i] \in Seq(Runtime!Files)
      BY <1>1
    <3>. QED
      BY <3>1, EachIs
  <2>2. FileTasks({"read"}) \subseteq S /\ FileTasks({"verify"}) \subseteq S
    BY DEF FileTasks
  <2>3. /\ Runtime!Each("read", Packages[i]) \in Seq(S)
        /\ Runtime!Each("verify", Packages[i]) \in Seq(S)
    BY <2>1, <2>2
  <2>. HIDE DEF S
  <2>. QED
    BY <2>3
<1>. HIDE DEF both, S
<1>3. all \in Seq(Seq(S))
  BY <1>1, <1>2
<1>4. Runtime!Capture = Runtime!FlattenSeq(all)
  BY DEF Runtime!Capture, both
<1>. HIDE DEF all
<1>5. Runtime!Capture \in Seq(S)
  BY <1>3, <1>4, AllTogether
<1>. QED
  BY <1>5 DEF S

LEMMA OwnsIs ==
    /\ Owns \in Seq(FileTasks({"own"}))
    /\ \A f \in Runtime!Files : Own(f) \in Among(Owns)
<1>1. Packages \in Seq(Seq(Runtime!Files))
  BY FilesOfPackages
<1>2. /\ Runtime!AllFiles \in Seq(Runtime!Files)
      /\ \A i \in DOMAIN Packages : Among(Packages[i]) \subseteq Among(Runtime!AllFiles)
  BY <1>1, AllTogether DEF Runtime!AllFiles
<1>3. \A f \in Runtime!Files : f \in Among(Runtime!AllFiles)
  BY <1>2, FilesOfPackages
<1>. QED
  BY <1>2, <1>3, EachIs DEF Owns, Own

LEMMA KindsOfTasks ==
    /\ \A dos : \A t \in FileTasks(dos) : t.do \in dos
    /\ FileTasks({"read", "verify"}) \subseteq Tasks /\ FileTasks({"own"}) \subseteq Tasks
    /\ [do |-> "adopt"] \in Tasks /\ [do |-> "state"] \in Tasks /\ [do |-> "compare"] \in Tasks
BY DEF FileTasks, Tasks

Joins(S, s, t, u) ==
    /\ u \in Seq(S) /\ Len(u) = Len(s) + Len(t)
    /\ \A i \in 1 .. Len(s) : u[i] = s[i]
    /\ \A i \in 1 .. Len(t) : u[Len(s) + i] = t[i]

LEMMA Joined ==
    ASSUME NEW S, NEW s \in Seq(S), NEW t \in Seq(S)
    PROVE  Joins(S, s, t, s \o t)
BY DEF Joins

LEMMA Alone ==
    ASSUME NEW S, NEW x \in S
    PROVE  <<x>> \in Seq(S) /\ Len(<<x>>) = 1 /\ <<x>>[1] = x
OBVIOUS

Started(C, O, x, y, z) == C \o (<<x>> \o O) \o <<y>> \o <<z>> \o (<<y>> \o O)

Lies(S, C, O, x, y, z, c, o, A) ==
    /\ A \in Seq(S) /\ Len(A) = c + 2 * o + 4
    /\ \A k \in 1 .. c : A[k] = C[k]
    /\ A[c + 1] = x
    /\ \A i \in 1 .. o : A[c + 1 + i] = O[i]
    /\ A[c + o + 2] = y
    /\ A[c + o + 3] = z
    /\ A[c + o + 4] = y
    /\ \A i \in 1 .. o : A[c + o + 4 + i] = O[i]

(* Where the parts of what a session starts with lie.                          *)
LEMMA PartsLie ==
    ASSUME NEW S, NEW C \in Seq(S), NEW O \in Seq(S), NEW x \in S, NEW y \in S, NEW z \in S,
           NEW c, NEW o, c = Len(C), o = Len(O),
           NEW A, A = Started(C, O, x, y, z)
    PROVE  Lies(S, C, O, x, y, z, c, o, A)
<1>0. c \in Nat /\ o \in Nat
  OBVIOUS
<1>1. PICK X : X = <<x>> /\ X \in Seq(S) /\ Len(X) = 1 /\ X[1] = x
  BY Alone
<1>2. PICK Y : Y = <<y>> /\ Y \in Seq(S) /\ Len(Y) = 1 /\ Y[1] = y
  BY Alone
<1>3. PICK Z : Z = <<z>> /\ Z \in Seq(S) /\ Len(Z) = 1 /\ Z[1] = z
  BY Alone
<1>4. PICK P : P = X \o O /\ Joins(S, X, O, P)
  BY <1>1, Joined
<1>5. PICK G : G = Y \o O /\ Joins(S, Y, O, G)
  BY <1>2, Joined
<1>6. P \in Seq(S) /\ G \in Seq(S)
  BY <1>4, <1>5 DEF Joins
<1>7. PICK s1 : s1 = C \o P /\ Joins(S, C, P, s1)
  BY <1>6, Joined
<1>8. PICK s2 : s2 = s1 \o Y /\ Joins(S, s1, Y, s2)
  <2>1. s1 \in Seq(S)
    BY <1>7 DEF Joins
  <2>2. Joins(S, s1, Y, s1 \o Y)
    BY <1>2, <2>1, Joined
  <2>. QED
    BY Zenon, <2>2
<1>9. PICK s3 : s3 = s2 \o Z /\ Joins(S, s2, Z, s3)
  <2>1. s2 \in Seq(S)
    BY <1>8 DEF Joins
  <2>2. Joins(S, s2, Z, s2 \o Z)
    BY <1>3, <2>1, Joined
  <2>. QED
    BY Zenon, <2>2
<1>10. A = s3 \o G /\ Joins(S, s3, G, A)
  <2>1. A = s3 \o G
    BY <1>1, <1>2, <1>3, <1>4, <1>5, <1>7, <1>8, <1>9, Zenon DEF Started
  <2>. QED
    BY <1>6, <1>9, <2>1, Joined DEF Joins
<1>11. Len(P) = 1 + o /\ Len(G) = 1 + o
  BY <1>1, <1>2, <1>4, <1>5 DEF Joins
<1>12. /\ Len(s1) = c + (1 + o) /\ Len(s2) = c + o + 2 /\ Len(s3) = c + o + 3
       /\ Len(A) = c + 2 * o + 4
  <2>1. /\ Len(s1) = c + Len(P) /\ Len(s2) = Len(s1) + 1 /\ Len(s3) = Len(s2) + 1
        /\ Len(A) = Len(s3) + Len(G)
    BY <1>2, <1>3, <1>7, <1>8, <1>9, <1>10 DEF Joins
  <2>. QED
    BY <1>0, <1>11, <2>1
<1>13. \A i \in 1 .. c + o + 1 : A[i] = s1[i]
  <2>1. \A i \in 1 .. c + o + 1 : /\ i \in 1 .. c + (1 + o) /\ i \in 1 .. c + o + 2
                                  /\ i \in 1 .. c + o + 3
    BY <1>0
  <2>. QED
    BY <1>8, <1>9, <1>10, <1>12, <2>1 DEF Joins
<1>14. \A k \in 1 .. c : A[k] = C[k]
  <2>1. \A k \in 1 .. c : k \in 1 .. c + o + 1
    BY <1>0
  <2>. QED
    BY <1>7, <1>13, <2>1 DEF Joins
<1>15. A[c + 1] = x
  <2>1. c + 1 \in 1 .. c + o + 1 /\ 1 \in 1 .. 1 + o /\ 1 \in 1 .. 1
    BY <1>0
  <2>2. P[1] = x
    BY <1>1, <1>4, <2>1 DEF Joins
  <2>3. s1[c + 1] = P[1]
    BY <1>7, <1>11, <2>1 DEF Joins
  <2>. QED
    BY <1>13, <2>1, <2>2, <2>3
<1>16. \A i \in 1 .. o : A[c + 1 + i] = O[i]
  <2>1. \A i \in 1 .. o : /\ 1 + i \in 1 .. 1 + o /\ c + (1 + i) \in 1 .. c + o + 1
                          /\ c + 1 + i = c + (1 + i)
    BY <1>0
  <2>2. \A i \in 1 .. o : P[1 + i] = O[i]
    BY <1>1, <1>4 DEF Joins
  <2>3. \A i \in 1 .. 1 + o : s1[c + i] = P[i]
    BY <1>7, <1>11 DEF Joins
  <2>. QED
    BY <1>13, <2>1, <2>2, <2>3
<1>17. A[c + o + 2] = y
  <2>1. /\ c + o + 2 \in 1 .. c + o + 2 /\ c + o + 2 \in 1 .. c + o + 3 /\ 1 \in 1 .. 1
        /\ c + o + 2 = (c + (1 + o)) + 1
    BY <1>0
  <2>2. s2[c + o + 2] = Y[1]
    BY <1>2, <1>8, <1>12, <2>1 DEF Joins
  <2>3. s3[c + o + 2] = s2[c + o + 2]
    BY <1>9, <1>12, <2>1 DEF Joins
  <2>4. A[c + o + 2] = s3[c + o + 2]
    BY <1>10, <1>12, <2>1 DEF Joins
  <2>. QED
    BY <1>2, <2>2, <2>3, <2>4
<1>18. A[c + o + 3] = z
  <2>1. /\ c + o + 3 \in 1 .. c + o + 3 /\ 1 \in 1 .. 1 /\ c + o + 3 = (c + o + 2) + 1
    BY <1>0
  <2>2. s3[c + o + 3] = Z[1]
    BY <1>3, <1>9, <1>12, <2>1 DEF Joins
  <2>3. A[c + o + 3] = s3[c + o + 3]
    BY <1>10, <1>12, <2>1 DEF Joins
  <2>. QED
    BY <1>3, <2>2, <2>3
<1>19. \A i \in 1 .. 1 + o : A[(c + o + 3) + i] = G[i]
  BY <1>10, <1>11, <1>12 DEF Joins
<1>20. A[c + o + 4] = y
  <2>1. 1 \in 1 .. 1 + o /\ c + o + 4 = (c + o + 3) + 1 /\ 1 \in 1 .. 1
    BY <1>0
  <2>2. G[1] = y
    BY <1>2, <1>5, <2>1 DEF Joins
  <2>. QED
    BY <1>19, <2>1, <2>2
<1>21. \A i \in 1 .. o : A[c + o + 4 + i] = O[i]
  <2>1. \A i \in 1 .. o : 1 + i \in 1 .. 1 + o /\ c + o + 4 + i = (c + o + 3) + (1 + i)
    BY <1>0
  <2>2. \A i \in 1 .. o : G[1 + i] = O[i]
    BY <1>2, <1>5 DEF Joins
  <2>. QED
    BY <1>19, <2>1, <2>2
<1>22. A \in Seq(S)
  BY <1>10 DEF Joins
<1>. QED
  BY <1>12, <1>14, <1>15, <1>16, <1>17, <1>18, <1>20, <1>21, <1>22 DEF Lies

Adoption == Len(Runtime!Capture) + 1
Comparison == Len(Runtime!Capture) + Len(Owns) + 3

(* A session adopts what it read, looks at every file, and then compares.      *)
LEMMA AuthorityIs ==
    LET A == Runtime!Authority
    IN  /\ A \in Seq(Tasks) /\ Adoption \in Nat \ {0} /\ Comparison \in Nat
        /\ Adoption < Comparison /\ Comparison < Len(A)
        /\ \A k \in 1 .. Len(A) : A[k].do = "adopt" <=> k = Adoption
        /\ \A k \in 1 .. Len(A) : A[k].do = "compare" <=> k = Comparison
        /\ \A k \in 1 .. Len(A) : A[k].do = "read" => k < Adoption
        /\ \A f \in Runtime!Files : \E k \in Adoption + 1 .. Comparison : A[k] = Own(f)
<1>. DEFINE A == Runtime!Authority
            C == Runtime!Capture
            c == Len(C)
            o == Len(Owns)
            x == [do |-> "adopt"]
            y == [do |-> "state"]
            z == [do |-> "compare"]
<1>1. (\A k \in 1 .. c : C[k].do \in {"read", "verify"}) /\ c \in Nat
  <2>1. \A k \in 1 .. c : C[k] \in FileTasks({"read", "verify"})
    BY CaptureIs
  <2>2. c \in Nat
    BY CaptureIs
  <2>. QED
    BY <2>1, <2>2, KindsOfTasks
<1>2. (\A k \in 1 .. o : Owns[k].do = "own") /\ o \in Nat /\ DOMAIN Owns = 1 .. o
  <2>1. \A k \in 1 .. o : Owns[k] \in FileTasks({"own"})
    BY OwnsIs
  <2>2. o \in Nat /\ DOMAIN Owns = 1 .. o
    BY OwnsIs
  <2>. QED
    BY <2>1, <2>2, KindsOfTasks
<1>3. C \in Seq(Tasks) /\ Owns \in Seq(Tasks)
  BY KindsOfTasks, CaptureIs, OwnsIs
<1>4. x \in Tasks /\ y \in Tasks /\ z \in Tasks
  BY KindsOfTasks
<1>5. A = Started(C, Owns, x, y, z)
  BY DEF Runtime!Authority, Runtime!Policy, Runtime!Guard, Runtime!Once, Owns, Started
<1>. HIDE DEF A, C
<1>6. Lies(Tasks, C, Owns, x, y, z, c, o, A)
  <2>1. c = Len(C) /\ o = Len(Owns)
    OBVIOUS
  <2>. HIDE DEF x, y, z, c, o
  <2>. QED
    BY <1>3, <1>4, <1>5, <2>1, PartsLie
<1>7. x.do = "adopt" /\ y.do = "state" /\ z.do = "compare"
  OBVIOUS
<1>. HIDE DEF x, y, z, c, o
<1>8. /\ \A k \in 1 .. c : A[k].do \in {"read", "verify"}
      /\ A[c + 1].do = "adopt"
      /\ \A i \in 1 .. o : A[c + 1 + i].do = "own"
      /\ A[c + o + 2].do = "state" /\ A[c + o + 3].do = "compare" /\ A[c + o + 4].do = "state"
      /\ \A i \in 1 .. o : A[c + o + 4 + i].do = "own"
  BY <1>1, <1>2, <1>6, <1>7 DEF Lies
<1>9. \A k \in 1 .. Len(A) :
         \/ k \in 1 .. c
         \/ k = c + 1
         \/ k > c + 1 /\ k # c + o + 3 /\ \E i \in 1 .. o : k = c + 1 + i
         \/ k = c + o + 2
         \/ k = c + o + 3
         \/ k = c + o + 4
         \/ k > c + o + 3 /\ \E i \in 1 .. o : k = c + o + 4 + i
  <2>. SUFFICES ASSUME NEW k \in 1 .. Len(A), k > c + 1,
                       k \notin {c + o + 2, c + o + 3, c + o + 4}
                PROVE  \/ k # c + o + 3 /\ \E i \in 1 .. o : k = c + 1 + i
                       \/ k > c + o + 3 /\ \E i \in 1 .. o : k = c + o + 4 + i
    BY <1>1, <1>2, <1>6 DEF Lies
  <2>1. k \in Nat /\ k <= c + 2 * o + 4
    BY <1>1, <1>2, <1>6 DEF Lies
  <2>2. CASE k <= c + o + 1
    <3>1. k - c - 1 \in 1 .. o /\ k = c + 1 + (k - c - 1) /\ k # c + o + 3
      BY <1>1, <1>2, <2>1, <2>2
    <3>. QED
      BY <3>1
  <2>3. CASE k > c + o + 4
    <3>1. k - c - o - 4 \in 1 .. o /\ k = c + o + 4 + (k - c - o - 4) /\ k > c + o + 3
      BY <1>1, <1>2, <2>1, <2>3
    <3>. QED
      BY <3>1
  <2>. QED
    BY <1>1, <1>2, <2>1, <2>2, <2>3
<1>10. \A k \in 1 .. Len(A) :
         \/ k \in 1 .. c /\ A[k].do \in {"read", "verify"}
         \/ k = c + 1 /\ A[k].do = "adopt"
         \/ k > c + 1 /\ k # c + o + 3 /\ A[k].do \in {"own", "state"}
         \/ k = c + o + 3 /\ A[k].do = "compare"
  <2>. SUFFICES ASSUME NEW k \in 1 .. Len(A)
                PROVE  \/ k \in 1 .. c /\ A[k].do \in {"read", "verify"}
                       \/ k = c + 1 /\ A[k].do = "adopt"
                       \/ k > c + 1 /\ k # c + o + 3 /\ A[k].do \in {"own", "state"}
                       \/ k = c + o + 3 /\ A[k].do = "compare"
    OBVIOUS
  <2>1. CASE k \in 1 .. c \/ k = c + 1 \/ k = c + o + 3
    BY <1>8, <2>1
  <2>2. CASE k = c + o + 2 \/ k = c + o + 4
    <3>1. k > c + 1 /\ k # c + o + 3
      BY <1>1, <1>2, <2>2
    <3>. QED
      BY <1>8, <2>2, <3>1
  <2>3. CASE k > c + 1 /\ k # c + o + 3 /\ \E i \in 1 .. o : k = c + 1 + i
    BY <1>8, <2>3
  <2>4. CASE k > c + o + 3 /\ \E i \in 1 .. o : k = c + o + 4 + i
    <3>1. k > c + 1 /\ k # c + o + 3
      BY <1>1, <1>2, <2>4
    <3>. QED
      BY <1>8, <2>4, <3>1
  <2>. QED
    BY <1>9, <2>1, <2>2, <2>3, <2>4
<1>11. Adoption = c + 1 /\ Comparison = c + o + 3
  BY DEF Adoption, Comparison, C, c, o
<1>12. /\ \A k \in 1 .. Len(A) : A[k].do = "adopt" <=> k = Adoption
       /\ \A k \in 1 .. Len(A) : A[k].do = "compare" <=> k = Comparison
       /\ \A k \in 1 .. Len(A) : A[k].do = "read" => k < Adoption
  <2>. SUFFICES ASSUME NEW k \in 1 .. Len(A)
                PROVE  /\ A[k].do = "adopt" <=> k = Adoption
                       /\ A[k].do = "compare" <=> k = Comparison
                       /\ A[k].do = "read" => k < Adoption
    OBVIOUS
  <2>1. /\ k \in 1 .. c => k < c + 1 /\ k # c + o + 3
        /\ k = c + 1 => k # c + o + 3
        /\ k > c + 1 => k # c + 1
        /\ k = c + o + 3 => k # c + 1
    BY <1>1, <1>2
  <2>2. \/ k \in 1 .. c /\ A[k].do \in {"read", "verify"}
        \/ k = c + 1 /\ A[k].do = "adopt"
        \/ k > c + 1 /\ k # c + o + 3 /\ A[k].do \in {"own", "state"}
        \/ k = c + o + 3 /\ A[k].do = "compare"
    BY <1>10
  <2>. QED
    BY <1>11, <2>1, <2>2
<1>13. ASSUME NEW f \in Runtime!Files
       PROVE  \E k \in Adoption + 1 .. Comparison : A[k] = Own(f)
  <2>1. PICK i \in DOMAIN Owns : Owns[i] = Own(f)
    BY OwnsIs DEF Among
  <2>2. i \in 1 .. o /\ c + 1 + i \in Adoption + 1 .. Comparison
    BY <1>1, <1>2, <1>11, <2>1
  <2>. QED
    BY <1>6, <2>1, <2>2 DEF Lies
<1>14. /\ Adoption \in Nat \ {0} /\ Comparison \in Nat /\ Adoption < Comparison
       /\ Comparison < Len(A)
  BY <1>1, <1>2, <1>6, <1>11 DEF Lies
<1>. QED
  BY <1>6, <1>12, <1>13, <1>14 DEF A, Lies

(* A checkpoint looks at every file, and adopts nothing.                       *)
LEMMA CheckpointIs ==
    /\ Runtime!Checkpoint \in Seq({ t \in Tasks : t.do # "adopt" })
    /\ StateTask \in Among(Runtime!Checkpoint)
    /\ \A f \in Runtime!Files : Own(f) \in Among(Runtime!Checkpoint)
<1>. DEFINE S == { t \in Tasks : t.do # "adopt" }
<1>1. PICK C : C = Runtime!Capture /\ C \in Seq(S)
  <2>1. FileTasks({"read", "verify"}) \subseteq S
    BY KindsOfTasks
  <2>. QED
    BY <2>1, CaptureIs
<1>2. Owns \in Seq(S)
  <2>1. FileTasks({"own"}) \subseteq S
    BY KindsOfTasks
  <2>. QED
    BY <2>1, OwnsIs
<1>3. [do |-> "state"] \in S /\ [do |-> "compare"] \in S
  BY KindsOfTasks
<1>. HIDE DEF S
<1>4. PICK y : y = <<[do |-> "state"]>> /\ y \in Seq(S) /\ StateTask \in Among(y)
  <2>1. <<[do |-> "state"]>> \in Seq(S) /\ StateTask \in Among(<<[do |-> "state"]>>)
    <3>1. DOMAIN <<[do |-> "state"]>> = {1} /\ <<[do |-> "state"]>>[1] = [do |-> "state"]
      OBVIOUS
    <3>. QED
      BY <1>3, <3>1, Alone DEF Among, StateTask
  <2>. QED
    BY Zenon, <2>1
<1>5. PICK z : z = <<[do |-> "compare"]>> /\ z \in Seq(S)
  <2>1. <<[do |-> "compare"]>> \in Seq(S)
    BY <1>3, Alone
  <2>. QED
    BY Zenon, <2>1
<1>6. PICK s1 : s1 = C \o z /\ s1 \in Seq(S)
  <2>1. C \o z \in Seq(S)
    BY <1>1, <1>5
  <2>. QED
    BY Zenon, <2>1
<1>7. PICK s2 : s2 = s1 \o Owns /\ s2 \in Seq(S) /\ Among(Owns) \subseteq Among(s2)
  <2>1. s1 \o Owns \in Seq(S) /\ Among(s1 \o Owns) = Among(s1) \cup Among(Owns)
    BY <1>2, <1>6, OneAfterTheOther
  <2>2. Among(Owns) \subseteq Among(s1 \o Owns)
    BY <2>1
  <2>. QED
    BY Zenon, <2>1, <2>2
<1>8. PICK s3 : /\ s3 = s2 \o y /\ s3 \in Seq(S) /\ Among(s2) \subseteq Among(s3)
                /\ StateTask \in Among(s3)
  <2>1. s2 \o y \in Seq(S) /\ Among(s2 \o y) = Among(s2) \cup Among(y)
    <3>1. s2 \in Seq(S) /\ y \in Seq(S)
      BY <1>4, <1>7
    <3>. QED
      BY <3>1, OneAfterTheOther
  <2>2. Among(s2) \subseteq Among(s2 \o y) /\ StateTask \in Among(s2 \o y)
    BY <1>4, <2>1
  <2>. QED
    BY Zenon, <2>1, <2>2
<1>9. Runtime!Checkpoint = s3
  BY <1>1, <1>4, <1>5, <1>6, <1>7, <1>8, Zenon DEF Runtime!Checkpoint, Runtime!Once, Owns
<1>. QED
  BY <1>7, <1>8, <1>9, OwnsIs DEF S

-----------------------------------------------------------------------------
(* RuntimeProvenance: the invariant                                            *)

(* A version of a file that has another identity than the installed one will   *)
(* have another for ever.                                                      *)
Installed(files) ==
    /\ files \in [Runtime!Files -> [content : Contents, identity : Nat]]
    /\ \A f \in Runtime!Files :
          /\ files[f].identity <= changes
          /\ files[f].identity = disk[f].identity => files[f] = disk[f]

FilesInv == changes \in Nat /\ Installed(disk) /\ Installed(read) /\ Installed(policy)

(* The position in Authority of the next task of a session that starts.        *)
Reached == Len(Runtime!Authority) + 1 - Len(todo)

WorkInv ==
    /\ todo \in Seq(Tasks) /\ stage \in (DOMAIN Runtime!Following) \cup {"refused"}
    /\ stage = "starting" =>
         /\ Len(todo) <= Len(Runtime!Authority)
         /\ \A k \in 1 .. Len(todo) : todo[k] = Runtime!Authority[Reached - 1 + k]
    /\ stage # "starting" => \A k \in 1 .. Len(todo) : todo[k].do # "adopt"
    /\ stage = "refused" => todo = <<>>

(* The comparison is still to come, and by then what was replaced shows.       *)
StartInv ==
    stage = "starting" =>
      /\ Reached <= Comparison => Runtime!ContentOf(disk) \in seen
      /\ Adoption < Reached /\ Reached <= Comparison =>
           /\ policy = read
           /\ \/ Runtime!ContentOf(policy) \in seen
              \/ \E f \in Runtime!Files :
                    ~Runtime!Owned(f)
                    /\ \E k \in Reached .. Comparison : Runtime!Authority[k] = Own(f)
      /\ Reached > Comparison => Runtime!ContentOf(policy) = Runtime!Recorded
      /\ \A f \in Runtime!Files : executed[f] = {}

(* What else was executed belongs to a file that is still replaced, and that   *)
(* the next checkpoint looks at.                                               *)
ExecutedInv ==
    stage \notin {"starting", "refused"} =>
      /\ Runtime!ContentOf(policy) = Runtime!Recorded
      /\ \A f \in Runtime!Files :
            \/ executed[f] \subseteq Runtime!Accounted(f)
            \/ ~Runtime!Owned(f) /\ (Own(f) \in Among(todo) \/ Runtime!Importable)

ImportInv ==
    /\ DOMAIN executed = Runtime!Files
    /\ \/ importing = Runtime!Nothing
       \/ /\ Runtime!Importable
          /\ importing \in [at : {"found", "validated", "executed"}, file : Runtime!Files,
                            finder : {"guard", "unaudited"}]

(* What another finder leaves behind is to be looked at, or may still be put   *)
(* back.                                                                       *)
StateInv ==
    stage \notin {"starting", "refused"} =>
      Runtime!StateIsFixed \/ StateTask \in Among(todo) \/ Runtime!Importable

QuietInv ==
    changes = 0 =>
      /\ hooks = "fixed" /\ strangers = {} /\ read = disk /\ policy = disk
      /\ importing = Runtime!Nothing \/ importing.finder = "guard"
      /\ stage = "refused" => Runtime!ContentOf(disk) # Runtime!Recorded

RuntimeInv == FilesInv /\ WorkInv /\ StartInv /\ ExecutedInv /\ ImportInv /\ StateInv /\ QuietInv

-----------------------------------------------------------------------------
(* RuntimeProvenance: one step                                                 *)

LEMMA FirstAndRest ==
    ASSUME NEW S, NEW s \in Seq(S), s # <<>>
    PROVE  /\ Head(s) = s[1] /\ Head(s) \in S /\ Tail(s) \in Seq(S)
           /\ Len(s) \in Nat \ {0} /\ Len(Tail(s)) = Len(s) - 1
           /\ \A k \in 1 .. Len(s) - 1 : Tail(s)[k] = s[k + 1]
           /\ Among(s) = {Head(s)} \cup Among(Tail(s))
<1>1. /\ Head(s) = s[1] /\ Head(s) \in S /\ Tail(s) \in Seq(S)
      /\ Len(s) \in Nat \ {0} /\ Len(Tail(s)) = Len(s) - 1
      /\ \A k \in 1 .. Len(s) - 1 : Tail(s)[k] = s[k + 1]
  OBVIOUS
<1>2. DOMAIN s = 1 .. Len(s) /\ DOMAIN Tail(s) = 1 .. Len(s) - 1
  OBVIOUS
<1>3. Among(Tail(s)) \subseteq Among(s) /\ Head(s) \in Among(s)
  <2>1. \A k \in 1 .. Len(s) - 1 : k + 1 \in 1 .. Len(s)
    BY <1>1
  <2>2. 1 \in 1 .. Len(s)
    BY <1>1
  <2>. QED
    BY <1>1, <1>2, <2>1, <2>2 DEF Among
<1>4. \A m \in 1 .. Len(s) : m # 1 => m - 1 \in 1 .. Len(s) - 1 /\ (m - 1) + 1 = m
  BY <1>1
<1>5. Among(s) \subseteq {Head(s)} \cup Among(Tail(s))
  <2>1. \A m \in 1 .. Len(s) : s[m] = Head(s) \/ \E k \in 1 .. Len(s) - 1 : s[m] = Tail(s)[k]
    BY <1>1, <1>4
  <2>. QED
    BY <1>2, <2>1 DEF Among
<1>. QED
  BY <1>1, <1>3, <1>5

LEMMA HeadIs ==
    ASSUME WorkInv, todo # <<>>
    PROVE  /\ Head(todo) \in Tasks /\ Among(todo) = {Head(todo)} \cup Among(Tail(todo))
           /\ stage = "starting" =>
                Reached \in 1 .. Len(Runtime!Authority) /\ Head(todo) = Runtime!Authority[Reached]
           /\ Head(todo).do = "adopt" => stage = "starting"
<1>. DEFINE whole == Len(Runtime!Authority)
            n == Len(todo)
<1>1. /\ n \in Nat \ {0} /\ Head(todo) = todo[1] /\ Head(todo) \in Tasks
      /\ Among(todo) = {Head(todo)} \cup Among(Tail(todo))
  BY FirstAndRest DEF WorkInv
<1>2. whole \in Nat
  BY AuthorityIs
<1>3. 1 \in 1 .. n
  BY <1>1
<1>4. stage # "starting" => Head(todo).do # "adopt"
  BY <1>1, <1>3 DEF WorkInv
<1>5. ASSUME stage = "starting"
      PROVE  Reached \in 1 .. whole /\ Head(todo) = Runtime!Authority[Reached]
  <2>1. n <= whole /\ Head(todo) = Runtime!Authority[Reached - 1 + 1]
    BY <1>1, <1>3, <1>5 DEF WorkInv
  <2>2. Reached = whole + 1 - n
    BY DEF Reached
  <2>3. Reached \in 1 .. whole /\ Reached - 1 + 1 = Reached
    BY <1>1, <1>2, <2>1, <2>2
  <2>. QED
    BY <2>1, <2>3
<1>. QED
  BY <1>1, <1>4, <1>5

LEMMA TailIs ==
    ASSUME WorkInv, todo # <<>>, todo' = Tail(todo), stage' = stage
    PROVE  WorkInv' /\ (stage = "starting" => Reached' = Reached + 1)
<1>. DEFINE whole == Len(Runtime!Authority)
            n == Len(todo)
<1>1. /\ n \in Nat \ {0} /\ todo' \in Seq(Tasks) /\ Len(todo') = n - 1
      /\ \A k \in 1 .. n - 1 : todo'[k] = todo[k + 1]
  BY FirstAndRest DEF WorkInv
<1>2. whole \in Nat /\ \A k \in 1 .. n - 1 : k + 1 \in 1 .. n
  BY <1>1, AuthorityIs
<1>3. Reached = whole + 1 - n /\ Reached' = whole + 1 - (n - 1)
  BY <1>1 DEF Reached
<1>4. Reached' = Reached + 1
  BY <1>1, <1>2, <1>3
<1>5. stage # "starting" => \A k \in 1 .. Len(todo') : todo'[k].do # "adopt"
  BY <1>1, <1>2 DEF WorkInv
<1>6. ASSUME stage = "starting"
      PROVE  /\ Len(todo') <= whole
             /\ \A k \in 1 .. Len(todo') : todo'[k] = Runtime!Authority[Reached' - 1 + k]
  <2>1. n <= whole /\ \A k \in 1 .. n : todo[k] = Runtime!Authority[Reached - 1 + k]
    BY <1>6 DEF WorkInv
  <2>2. \A k \in 1 .. n - 1 : Reached - 1 + (k + 1) = Reached' - 1 + k
    BY <1>1, <1>2, <1>3
  <2>. QED
    BY <1>1, <1>2, <2>1, <2>2
<1>7. stage' # "refused"
  BY DEF WorkInv
<1>. QED
  BY <1>1, <1>4, <1>5, <1>6, <1>7 DEF WorkInv

LEMMA FileTask ==
    ASSUME NEW t \in Tasks
    PROVE  t.do \in {"read", "verify", "own"} => t.file \in Runtime!Files
BY DEF Tasks, FileTasks

LEMMA OwnIs == \A f : Own(f).do = "own" /\ Own(f).file = f
BY DEF Own

LEMMA NothingImported == ASSUME ImportInv, todo # <<>> PROVE importing = Runtime!Nothing
BY DEF ImportInv, Runtime!Importable

(* What is to be looked at still is, unless it was looked at.                  *)
LEMMA ExecutedKept ==
    ASSUME WorkInv, ExecutedInv, todo # <<>>, todo' = Tail(todo),
           UNCHANGED <<disk, policy, stage, executed>>,
           Head(todo).do = "own" => Runtime!Owned(Head(todo).file)
    PROVE  ExecutedInv'
<1>. SUFFICES ASSUME stage \notin {"starting", "refused"}, NEW f \in Runtime!Files,
                     ~(executed[f] \subseteq Runtime!Accounted(f))
              PROVE  ~Runtime!Owned(f)' /\ Own(f) \in Among(todo')
  BY DEF ExecutedInv, Runtime!ContentOf
<1>1. ~Runtime!Owned(f) /\ Own(f) \in Among(todo)
  BY DEF ExecutedInv, Runtime!Importable
<1>2. ~Runtime!Owned(f)'
  BY <1>1 DEF Runtime!Owned
<1>3. Own(f) # Head(todo)
  BY <1>1, OwnIs
<1>. QED
  BY <1>1, <1>2, <1>3, HeadIs

LEMMA StateKept ==
    ASSUME WorkInv, StateInv, todo # <<>>, todo' = Tail(todo), UNCHANGED <<hooks, strangers, stage>>,
           Head(todo).do = "state" => Runtime!StateIsFixed
    PROVE  StateInv'
<1>. SUFFICES ASSUME stage \notin {"starting", "refused"}, ~Runtime!StateIsFixed
              PROVE  StateTask \in Among(todo')
  BY DEF StateInv, Runtime!StateIsFixed
<1>1. StateTask \in Among(todo)
  BY DEF StateInv, Runtime!Importable
<1>2. StateTask # Head(todo)
  BY DEF StateTask
<1>. QED
  BY <1>1, <1>2, HeadIs

LEMMA ReadStep ==
    ASSUME RuntimeInv, Runtime!ReadFile
    PROVE  RuntimeInv'
<1>1. /\ todo # <<>> /\ Head(todo).do = "read" /\ todo' = Tail(todo)
      /\ read' = [read EXCEPT ![Head(todo).file] = disk[Head(todo).file]]
      /\ UNCHANGED <<disk, hooks, changes, policy, stage, importing, loaded, executed, strangers, seen>>
  BY DEF Runtime!ReadFile, Runtime!Step, Runtime!interpreter
<1>2. FilesInv /\ WorkInv /\ StartInv /\ ExecutedInv /\ ImportInv /\ StateInv /\ QuietInv
  BY DEF RuntimeInv
<1>3. PICK file \in Runtime!Files : file = Head(todo).file
  BY <1>1, <1>2, HeadIs, FileTask
<1>4. FilesInv'
  <2>1. read' = [read EXCEPT ![file] = disk[file]]
    BY <1>1, <1>3
  <2>2. Installed(read)'
    BY <1>1, <1>2, <2>1 DEF FilesInv, Installed
  <2>3. Installed(disk)' /\ Installed(policy)'
    BY <1>1, <1>2 DEF FilesInv, Installed
  <2>. QED
    BY <1>1, <1>2, <2>2, <2>3 DEF FilesInv
<1>5. WorkInv' /\ (stage = "starting" => Reached' = Reached + 1)
  BY <1>1, <1>2, TailIs
<1>6. StartInv'
  <2>. SUFFICES ASSUME stage = "starting" PROVE StartInv'
    BY <1>1 DEF StartInv
  <2>1. Reached \in 1 .. Len(Runtime!Authority) /\ Head(todo) = Runtime!Authority[Reached]
    BY <1>1, <1>2, HeadIs
  <2>2. Reached < Adoption /\ Adoption \in Nat /\ Comparison \in Nat /\ Adoption < Comparison
    BY <1>1, <2>1, AuthorityIs
  <2>3. Reached \in Nat /\ Reached' <= Adoption /\ Reached' <= Comparison /\ Reached <= Comparison
    BY <1>5, <2>1, <2>2
  <2>4. ~(Adoption < Reached') /\ ~(Reached' > Comparison)
    BY <1>5, <2>1, <2>2
  <2>5. Runtime!ContentOf(disk)' \in seen' /\ \A f \in Runtime!Files : executed'[f] = {}
    BY <1>1, <1>2, <2>3 DEF StartInv, Runtime!ContentOf
  <2>. QED
    BY <2>4, <2>5 DEF StartInv
<1>7. ExecutedInv'
  BY <1>1, <1>2, ExecutedKept
<1>8. ImportInv'
  BY <1>1, <1>2, NothingImported DEF ImportInv, Runtime!Nothing
<1>9. QuietInv'
  <2>1. changes = 0 => read' = read
    BY <1>1, <1>2, <1>3 DEF QuietInv, FilesInv, Installed
  <2>. QED
    BY <1>1, <1>2, <2>1 DEF QuietInv, Runtime!ContentOf, Runtime!Nothing
<1>10. StateInv'
  BY <1>1, <1>2, StateKept
<1>. QED
  BY <1>4, <1>5, <1>6, <1>7, <1>8, <1>9, <1>10 DEF RuntimeInv

LEMMA AdoptStep ==
    ASSUME RuntimeInv, Runtime!Adopt
    PROVE  RuntimeInv'
<1>1. /\ todo # <<>> /\ Head(todo).do = "adopt" /\ todo' = Tail(todo) /\ policy' = read
      /\ UNCHANGED <<disk, hooks, changes, read, stage, importing, loaded, executed, strangers, seen>>
  BY DEF Runtime!Adopt, Runtime!Step, Runtime!interpreter
<1>2. FilesInv /\ WorkInv /\ StartInv /\ ExecutedInv /\ ImportInv /\ StateInv /\ QuietInv
  BY DEF RuntimeInv
<1>3. stage = "starting" /\ stage' = "starting"
  BY <1>1, <1>2, HeadIs
<1>4. FilesInv'
  BY <1>1, <1>2 DEF FilesInv, Installed
<1>5. WorkInv' /\ Reached' = Reached + 1
  BY <1>1, <1>2, <1>3, TailIs
<1>6. StartInv'
  <2>1. Reached \in 1 .. Len(Runtime!Authority) /\ Head(todo) = Runtime!Authority[Reached]
    BY <1>1, <1>2, <1>3, HeadIs
  <2>2. Reached = Adoption /\ Adoption \in Nat /\ Comparison \in Nat /\ Adoption < Comparison
    BY <1>1, <2>1, AuthorityIs
  <2>3. Reached <= Comparison /\ ~(Reached' > Comparison) /\ Reached' = Adoption + 1
    BY <1>5, <2>2
  <2>4. Runtime!ContentOf(disk) \in seen /\ \A f \in Runtime!Files : executed[f] = {}
    BY <1>2, <1>3, <2>3 DEF StartInv
  <2>5. \/ Runtime!ContentOf(policy)' \in seen'
        \/ \E f \in Runtime!Files :
              ~Runtime!Owned(f)'
              /\ \E k \in Reached' .. Comparison : Runtime!Authority[k] = Own(f)
    <3>1. CASE \E f \in Runtime!Files : read[f].identity # disk[f].identity
      <4>1. PICK f \in Runtime!Files : read[f].identity # disk[f].identity
        BY <3>1
      <4>2. ~Runtime!Owned(f)'
        BY <1>1, <4>1 DEF Runtime!Owned
      <4>. QED
        BY <2>3, <4>2, AuthorityIs
    <3>2. CASE \A f \in Runtime!Files : read[f].identity = disk[f].identity
      <4>1. \A f \in Runtime!Files : read[f] = disk[f]
        BY <1>2, <3>2 DEF FilesInv, Installed
      <4>2. Runtime!ContentOf(policy)' = Runtime!ContentOf(disk)
        BY <1>1, <4>1 DEF Runtime!ContentOf
      <4>. QED
        BY <1>1, <2>4, <4>2
    <3>. QED
      BY <3>1, <3>2
  <2>6. Runtime!ContentOf(disk)' \in seen' /\ \A f \in Runtime!Files : executed'[f] = {}
    BY <1>1, <2>4 DEF Runtime!ContentOf
  <2>. QED
    BY <1>1, <2>3, <2>5, <2>6 DEF StartInv
<1>7. ExecutedInv'
  BY <1>3 DEF ExecutedInv
<1>8. ImportInv'
  BY <1>1, <1>2, NothingImported DEF ImportInv, Runtime!Nothing
<1>9. QuietInv'
  BY <1>1, <1>2 DEF QuietInv, Runtime!ContentOf, Runtime!Nothing
<1>10. StateInv'
  BY <1>3 DEF StateInv
<1>. QED
  BY <1>4, <1>5, <1>6, <1>7, <1>8, <1>9, <1>10 DEF RuntimeInv

LEMMA CheckStep ==
    ASSUME RuntimeInv, Runtime!Check
    PROVE  RuntimeInv'
<1>1. /\ todo # <<>> /\ Head(todo).do \in {"verify", "own", "state", "compare"}
      /\ UNCHANGED <<disk, hooks, changes, read, policy, importing, loaded, executed, strangers>>
  BY DEF Runtime!Check, Runtime!interpreter
<1>2. FilesInv /\ WorkInv /\ StartInv /\ ExecutedInv /\ ImportInv /\ StateInv /\ QuietInv
  BY DEF RuntimeInv
<1>3. Head(todo) \in Tasks
  BY <1>1, <1>2, HeadIs
<1>4. FilesInv'
  BY <1>1, <1>2 DEF FilesInv, Installed
<1>5. ImportInv'
  BY <1>1, <1>2, NothingImported DEF ImportInv, Runtime!Nothing
<1>6. CASE Runtime!Holds(Head(todo))
  <2>1. /\ todo' = Tail(todo) /\ stage' = stage
        /\ seen' = IF Head(todo).do = "compare" THEN {} ELSE seen
    BY <1>6 DEF Runtime!Check
  <2>2. WorkInv' /\ (stage = "starting" => Reached' = Reached + 1)
    BY <1>1, <1>2, <2>1, TailIs
  <2>3. Head(todo).do = "own" => Runtime!Owned(Head(todo).file)
    BY <1>6 DEF Runtime!Holds
  <2>4. Head(todo).do = "compare" => Runtime!ContentOf(read) = Runtime!Recorded
    BY <1>6 DEF Runtime!Holds
  <2>5. ExecutedInv'
    BY <1>1, <1>2, <2>1, <2>3, ExecutedKept
  <2>6. QuietInv'
    <3>1. stage # "refused"
      BY <1>1, <1>2 DEF WorkInv
    <3>. QED
      BY <1>1, <1>2, <2>1, <3>1 DEF QuietInv, Runtime!Nothing
  <2>7. StartInv'
    <3>. SUFFICES ASSUME stage = "starting" PROVE StartInv'
      BY <2>1 DEF StartInv
    <3>1. Reached \in 1 .. Len(Runtime!Authority) /\ Head(todo) = Runtime!Authority[Reached]
      BY <1>1, <1>2, HeadIs
    <3>2. /\ Reached # Adoption /\ (Head(todo).do = "compare" <=> Reached = Comparison)
          /\ Adoption \in Nat /\ Comparison \in Nat /\ Adoption < Comparison
      BY <1>1, <3>1, AuthorityIs
    <3>3. /\ Reached \in Nat /\ Reached' = Reached + 1
      BY <2>2, <3>1
    <3>4. /\ Reached' <= Comparison => Reached <= Comparison /\ Reached # Comparison
          /\ Adoption < Reached' => Adoption < Reached
          /\ Reached' > Comparison => Reached > Comparison \/ Reached = Comparison
      BY <3>2, <3>3
    <3>5. Reached' <= Comparison => Runtime!ContentOf(disk)' \in seen'
      BY <1>1, <1>2, <2>1, <3>2, <3>4 DEF StartInv, Runtime!ContentOf
    <3>6. ASSUME Adoption < Reached', Reached' <= Comparison
          PROVE  /\ policy' = read'
                 /\ \/ Runtime!ContentOf(policy)' \in seen'
                    \/ \E f \in Runtime!Files :
                          ~Runtime!Owned(f)'
                          /\ \E k \in Reached' .. Comparison : Runtime!Authority[k] = Own(f)
      <4>1. Adoption < Reached /\ Reached <= Comparison /\ seen' = seen
        BY <2>1, <3>2, <3>4, <3>6
      <4>2. policy' = read'
        BY <1>1, <1>2, <4>1 DEF StartInv
      <4>3. CASE Runtime!ContentOf(policy) \in seen
        BY <1>1, <4>1, <4>2, <4>3 DEF Runtime!ContentOf
      <4>4. ASSUME NEW f \in Runtime!Files, ~Runtime!Owned(f),
                   NEW k \in Reached .. Comparison, Runtime!Authority[k] = Own(f)
            PROVE  ~Runtime!Owned(f)'
                   /\ \E j \in Reached' .. Comparison : Runtime!Authority[j] = Own(f)
        <5>1. k # Reached
          BY <2>3, <3>1, <4>4, OwnIs
        <5>2. k \in Reached' .. Comparison
          BY <3>2, <3>3, <4>4, <5>1
        <5>3. ~Runtime!Owned(f)'
          BY <1>1, <4>4 DEF Runtime!Owned
        <5>. QED
          BY <4>4, <5>2, <5>3
      <4>5. \/ Runtime!ContentOf(policy) \in seen
            \/ \E f \in Runtime!Files :
                  ~Runtime!Owned(f)
                  /\ \E k \in Reached .. Comparison : Runtime!Authority[k] = Own(f)
        BY <1>2, <4>1 DEF StartInv
      <4>. QED
        BY <4>2, <4>3, <4>4, <4>5
    <3>7. ASSUME Reached' > Comparison
          PROVE  Runtime!ContentOf(policy)' = Runtime!Recorded
      <4>1. CASE Reached > Comparison
        BY <1>1, <1>2, <4>1 DEF StartInv, Runtime!ContentOf
      <4>2. CASE Reached = Comparison
        <5>1. Adoption < Reached /\ Reached <= Comparison
          BY <3>2, <3>3, <4>2
        <5>2. policy = read
          BY <1>2, <5>1 DEF StartInv
        <5>3. Runtime!ContentOf(read) = Runtime!Recorded
          BY <2>4, <3>2, <4>2
        <5>. QED
          BY <1>1, <5>2, <5>3 DEF Runtime!ContentOf
      <4>. QED
        BY <3>4, <3>7, <4>1, <4>2
    <3>8. \A f \in Runtime!Files : executed'[f] = {}
      BY <1>1, <1>2 DEF StartInv
    <3>. QED
      BY <3>5, <3>6, <3>7, <3>8 DEF StartInv
  <2>8. StateInv'
    <3>1. Head(todo).do = "state" => Runtime!StateIsFixed
      BY <1>6 DEF Runtime!Holds
    <3>. QED
      BY <1>1, <1>2, <2>1, <3>1, StateKept
  <2>. QED
    BY <1>4, <1>5, <2>2, <2>5, <2>6, <2>7, <2>8 DEF RuntimeInv
<1>7. CASE ~Runtime!Holds(Head(todo))
  <2>1. todo' = <<>> /\ stage' = "refused"
    BY <1>7 DEF Runtime!Check
  <2>2. WorkInv'
    BY <2>1 DEF WorkInv
  <2>3. StartInv' /\ ExecutedInv' /\ StateInv'
    BY <2>1 DEF StartInv, ExecutedInv, StateInv
  <2>4. QuietInv'
    <3>. SUFFICES ASSUME changes = 0 PROVE Runtime!ContentOf(disk) # Runtime!Recorded
      BY <1>1, <1>2, <2>1 DEF QuietInv, Runtime!ContentOf, Runtime!Nothing
    <3>1. Runtime!StateIsFixed /\ read = disk /\ policy = disk
      BY <1>2 DEF QuietInv, Runtime!StateIsFixed
    <3>2. Head(todo).do = "compare"
      BY <1>1, <1>7, <3>1 DEF Runtime!Holds, Runtime!Owned
    <3>. QED
      BY <1>7, <3>1, <3>2 DEF Runtime!Holds
  <2>. QED
    BY <1>4, <1>5, <2>2, <2>3, <2>4 DEF RuntimeInv
<1>. QED
  BY <1>6, <1>7

LEMMA ChecksAre ==
    ASSUME NEW s \in {"binding", "bound", "requested", "answering", "recorded"}
    PROVE  /\ Runtime!Checks(s) \in Seq(Tasks)
           /\ \A k \in 1 .. Len(Runtime!Checks(s)) : Runtime!Checks(s)[k].do # "adopt"
           /\ s # "answering" => \A f \in Runtime!Files : Own(f) \in Among(Runtime!Checks(s))
           /\ s # "answering" => StateTask \in Among(Runtime!Checks(s))
<1>. DEFINE S == { t \in Tasks : t.do # "adopt" }
<1>1. PICK c : /\ c = Runtime!Checkpoint /\ c \in Seq(S) /\ StateTask \in Among(c)
               /\ \A f \in Runtime!Files : Own(f) \in Among(c)
  BY CheckpointIs
<1>. HIDE DEF S
<1>2. PICK d : /\ d = c \o c /\ d \in Seq(S) /\ StateTask \in Among(d)
               /\ \A f \in Runtime!Files : Own(f) \in Among(d)
  <2>1. c \o c \in Seq(S) /\ Among(c \o c) = Among(c) \cup Among(c)
    BY <1>1, OneAfterTheOther
  <2>2. StateTask \in Among(c \o c) /\ \A f \in Runtime!Files : Own(f) \in Among(c \o c)
    BY <1>1, <2>1
  <2>. QED
    BY Zenon, <2>1, <2>2
<1>3. <<>> \in Seq(S)
  OBVIOUS
<1>4. /\ s \in {"binding", "bound"} => Runtime!Checks(s) = c
      /\ s \in {"requested", "recorded"} => Runtime!Checks(s) = d
      /\ s = "answering" => Runtime!Checks(s) = <<>>
  BY <1>1, <1>2 DEF Runtime!Checks
<1>5. PICK r : r = Runtime!Checks(s)
  OBVIOUS
<1>6. /\ r \in Seq(S) /\ (s # "answering" => \A f \in Runtime!Files : Own(f) \in Among(r))
      /\ s # "answering" => StateTask \in Among(r)
  BY <1>1, <1>2, <1>3, <1>4, <1>5
<1>7. \A k \in 1 .. Len(r) : r[k] \in S
  BY <1>6
<1>8. r \in Seq(Tasks)
  BY <1>6 DEF S
<1>9. \A k \in 1 .. Len(r) : r[k].do # "adopt"
  BY <1>7 DEF S
<1>. QED
  BY <1>5, <1>6, <1>8, <1>9

LEMMA ProceedStep ==
    ASSUME RuntimeInv, Runtime!Proceed
    PROVE  RuntimeInv'
<1>1. /\ todo = <<>> /\ stage # "refused" /\ importing = Runtime!Nothing
      /\ stage' = Runtime!Following[stage] /\ todo' = Runtime!Checks(stage')
      /\ UNCHANGED <<disk, hooks, changes, read, policy, importing, loaded, executed, strangers, seen>>
  BY DEF Runtime!Proceed, Runtime!interpreter
<1>2. FilesInv /\ WorkInv /\ StartInv /\ ExecutedInv /\ ImportInv /\ StateInv /\ QuietInv
  BY DEF RuntimeInv
<1>3. /\ stage \in {"starting", "binding", "bound", "requested", "answering", "recorded"}
      /\ stage' \in {"binding", "bound", "requested", "answering", "recorded"}
      /\ stage \in {"binding", "answering", "starting"} => stage' # "answering"
  BY <1>1, <1>2 DEF WorkInv, Runtime!Following
<1>4. /\ todo' \in Seq(Tasks) /\ \A k \in 1 .. Len(todo') : todo'[k].do # "adopt"
      /\ stage' # "answering" => \A f \in Runtime!Files : Own(f) \in Among(todo')
      /\ stage' # "answering" => StateTask \in Among(todo')
  BY <1>1, <1>3, ChecksAre
<1>5. WorkInv'
  BY <1>3, <1>4 DEF WorkInv, Runtime!Following
<1>6. FilesInv'
  BY <1>1, <1>2 DEF FilesInv, Installed
<1>7. StartInv'
  BY <1>3 DEF StartInv
<1>8. ImportInv'
  BY <1>1, <1>2 DEF ImportInv, Runtime!Nothing
<1>9. QuietInv'
  BY <1>1, <1>2, <1>3 DEF QuietInv, Runtime!Nothing
<1>10. ExecutedInv'
  <2>1. CASE stage = "starting"
    <3>1. Reached > Comparison
      <4>1. Len(todo) = 0
        BY <1>1
      <4>2. Reached = Len(Runtime!Authority) + 1 - 0
        BY <4>1 DEF Reached
      <4>3. Len(Runtime!Authority) \in Nat /\ Comparison \in Nat /\ Comparison < Len(Runtime!Authority)
        BY AuthorityIs
      <4>. QED
        BY <4>2, <4>3
    <3>2. /\ Runtime!ContentOf(policy) = Runtime!Recorded
          /\ \A f \in Runtime!Files : executed[f] = {}
      BY <1>2, <2>1, <3>1 DEF StartInv
    <3>. QED
      BY <1>1, <3>2 DEF ExecutedInv, Runtime!ContentOf, Runtime!Accounted
  <2>2. CASE stage # "starting"
    <3>1. Runtime!ContentOf(policy) = Runtime!Recorded
      BY <1>1, <1>2, <2>2 DEF ExecutedInv
    <3>2. ASSUME NEW f \in Runtime!Files, ~(executed[f] \subseteq Runtime!Accounted(f))
          PROVE  ~Runtime!Owned(f)' /\ Own(f) \in Among(todo')
      <4>1. ~Runtime!Owned(f) /\ (Own(f) \in Among(todo) \/ Runtime!Importable)
        BY <1>1, <1>2, <2>2, <3>2 DEF ExecutedInv
      <4>2. Among(todo) = {}
        BY <1>1 DEF Among
      <4>3. stage \in {"binding", "answering"}
        BY <4>1, <4>2 DEF Runtime!Importable
      <4>4. ~Runtime!Owned(f)'
        BY <1>1, <4>1 DEF Runtime!Owned
      <4>. QED
        BY <1>3, <1>4, <4>3, <4>4
    <3>. QED
      BY <1>1, <3>1, <3>2 DEF ExecutedInv, Runtime!ContentOf, Runtime!Accounted
  <2>. QED
    BY <2>1, <2>2
<1>11. StateInv'
  <2>1. CASE stage' # "answering"
    BY <1>4, <2>1 DEF StateInv
  <2>2. CASE stage' = "answering"
    BY <1>1, <2>2, <1>4, ChecksAre DEF StateInv, Runtime!Importable, Runtime!Checks
  <2>. QED
    BY <2>1, <2>2
<1>. QED
  BY <1>5, <1>6, <1>7, <1>8, <1>9, <1>10, <1>11 DEF RuntimeInv

LEMMA InstallStep ==
    ASSUME RuntimeInv, NEW f \in Runtime!Files, NEW content \in Contents, Runtime!Install(f, content)
    PROVE  RuntimeInv'
<1>1. /\ changes' = changes + 1
      /\ disk' = [disk EXCEPT ![f] = [content |-> content, identity |-> changes + 1]]
      /\ seen' = IF stage = "starting" THEN seen \cup {Runtime!ContentOf(disk)'} ELSE seen
      /\ UNCHANGED <<hooks, read, policy, stage, todo, importing, loaded, executed, strangers>>
  BY DEF Runtime!Install, Runtime!session, Runtime!interpreter
<1>2. FilesInv /\ WorkInv /\ StartInv /\ ExecutedInv /\ ImportInv /\ StateInv /\ QuietInv
  BY DEF RuntimeInv
<1>3. changes \in Nat /\ Installed(disk) /\ Installed(read) /\ Installed(policy)
  BY <1>2 DEF FilesInv
<1>4. /\ disk' \in [Runtime!Files -> [content : Contents, identity : Nat]]
      /\ disk'[f].identity = changes + 1
      /\ \A g \in Runtime!Files : g # f => disk'[g] = disk[g]
  BY <1>1, <1>3 DEF Installed
<1>5. ASSUME NEW files, Installed(files) PROVE
      /\ files \in [Runtime!Files -> [content : Contents, identity : Nat]]
      /\ \A g \in Runtime!Files :
            /\ files[g].identity <= changes'
            /\ files[g].identity = disk'[g].identity => files[g] = disk'[g]
  BY <1>1, <1>3, <1>4, <1>5 DEF Installed
<1>6. Installed(read)' /\ Installed(policy)'
  BY <1>1, <1>3, <1>5 DEF Installed
<1>7. Installed(disk)'
  BY <1>1, <1>3, <1>4 DEF Installed
<1>8. FilesInv'
  BY <1>1, <1>3, <1>6, <1>7 DEF FilesInv
<1>9. \A g \in Runtime!Files : ~Runtime!Owned(g) => ~Runtime!Owned(g)'
  BY <1>1, <1>3, <1>4 DEF Installed, Runtime!Owned
<1>10. WorkInv' /\ ImportInv'
  BY <1>1, <1>2 DEF WorkInv, Reached, ImportInv, Runtime!Importable, Runtime!Nothing
<1>11. ExecutedInv'
  BY <1>1, <1>2, <1>9 DEF ExecutedInv, Runtime!ContentOf, Runtime!Importable, Runtime!Accounted
<1>12. StartInv'
  <2>. SUFFICES ASSUME stage = "starting" PROVE StartInv'
    BY <1>1 DEF StartInv
  <2>1. Reached' = Reached /\ seen' = seen \cup {Runtime!ContentOf(disk)'}
    BY <1>1 DEF Reached
  <2>2. Runtime!ContentOf(policy)' = Runtime!ContentOf(policy)
    BY <1>1 DEF Runtime!ContentOf
  <2>. QED
    BY <1>1, <1>2, <1>9, <2>1, <2>2 DEF StartInv
<1>13. QuietInv'
  BY <1>1, <1>3 DEF QuietInv
<1>14. StateInv'
  BY <1>1, <1>2 DEF StateInv, Runtime!StateIsFixed, Runtime!Importable
<1>. QED
  BY <1>8, <1>10, <1>11, <1>12, <1>13, <1>14 DEF RuntimeInv

LEMMA HooksStep ==
    ASSUME RuntimeInv, Runtime!ChangeHooks
    PROVE  RuntimeInv'
<1>1. /\ stage \in {"binding", "answering"} /\ todo = <<>> /\ changes' = changes + 1
      /\ UNCHANGED <<disk, read, policy, stage, todo, importing, loaded, executed, strangers, seen>>
  BY DEF Runtime!ChangeHooks, Runtime!Importable, Runtime!session, Runtime!interpreter
<1>2. FilesInv /\ WorkInv /\ StartInv /\ ExecutedInv /\ ImportInv
  BY DEF RuntimeInv
<1>3. FilesInv'
  BY <1>1, <1>2 DEF FilesInv, Installed
<1>4. WorkInv' /\ ImportInv'
  BY <1>1, <1>2 DEF WorkInv, Reached, ImportInv, Runtime!Importable, Runtime!Nothing
<1>5. ExecutedInv'
  BY <1>1, <1>2 DEF ExecutedInv, Runtime!ContentOf, Runtime!Importable, Runtime!Owned, Runtime!Accounted
<1>6. StartInv'
  BY <1>1 DEF StartInv
<1>7. QuietInv'
  BY <1>1, <1>2 DEF FilesInv, QuietInv
<1>8. StateInv'
  BY <1>1 DEF StateInv, Runtime!Importable
<1>. QED
  BY <1>3, <1>4, <1>5, <1>6, <1>7, <1>8 DEF RuntimeInv

(* What an import does leaves all but itself as it is.                         *)
Imports ==
    /\ UNCHANGED <<disk, hooks, changes, read, policy, stage, todo, seen>>
    /\ Runtime!Importable

LEMMA ImportKeeps ==
    ASSUME RuntimeInv, Imports
    PROVE  FilesInv' /\ WorkInv' /\ StartInv' /\ StateInv'
<1>1. FilesInv /\ WorkInv
  BY DEF RuntimeInv
<1>2. FilesInv' /\ WorkInv'
  BY <1>1 DEF Imports, FilesInv, Installed, WorkInv, Reached
<1>3. StartInv' /\ StateInv'
  BY DEF Imports, Runtime!Importable, StartInv, StateInv
<1>. QED
  BY <1>2, <1>3

LEMMA ImportingIs ==
    ASSUME ImportInv, importing.at \in {"found", "validated", "executed"}
    PROVE  /\ Runtime!Importable
           /\ importing \in [at : {"found", "validated", "executed"}, file : Runtime!Files,
                             finder : {"guard", "unaudited"}]
<1>1. importing # Runtime!Nothing
  BY DEF Runtime!Nothing
<1>. QED
  BY <1>1 DEF ImportInv

LEMMA ExecutedStays ==
    ASSUME RuntimeInv, Imports, UNCHANGED executed
    PROVE  ExecutedInv'
BY DEF RuntimeInv, Imports, ExecutedInv, Runtime!ContentOf, Runtime!Importable, Runtime!Owned,
       Runtime!Accounted

(* Without a change it is the guard that finds everything.                     *)
LEMMA QuietStays ==
    ASSUME RuntimeInv, Imports,
           changes = 0 => /\ strangers' = {}
                          /\ importing' = Runtime!Nothing \/ importing'.finder = "guard"
    PROVE  QuietInv'
BY DEF RuntimeInv, Imports, QuietInv, Runtime!ContentOf, Runtime!Nothing

LEMMA FindStep ==
    ASSUME RuntimeInv, NEW f \in Runtime!Files, NEW event \in BOOLEAN, Runtime!FindSpec(f, event)
    PROVE  RuntimeInv'
<1>. DEFINE finder == Runtime!Finder(event)
<1>1. /\ Imports /\ UNCHANGED <<executed, strangers>>
      /\ importing' = [at |-> "found", file |-> f, finder |-> finder]
  BY DEF Runtime!FindSpec, Imports, Runtime!session
<1>2. finder \in {"guard", "unaudited"} /\ (hooks = "fixed" => finder = "guard")
  BY DEF Runtime!FindSpec, Runtime!Audit, Runtime!Finder
<1>. HIDE DEF finder
<1>3. ImportInv'
  BY <1>1, <1>2 DEF RuntimeInv, ImportInv, Imports, Runtime!Importable
<1>4. QuietInv'
  <2>1. changes = 0 => strangers' = {} /\ importing'.finder = "guard"
    BY <1>1, <1>2 DEF RuntimeInv, QuietInv
  <2>. QED
    BY <1>1, <2>1, QuietStays
<1>. QED
  BY <1>1, <1>3, <1>4, ImportKeeps, ExecutedStays DEF RuntimeInv

LEMMA BeginStep ==
    ASSUME RuntimeInv, Runtime!BeginModule
    PROVE  RuntimeInv'
<1>1. /\ Runtime!Importable
      /\ importing \in [at : {"found", "validated", "executed"}, file : Runtime!Files,
                        finder : {"guard", "unaudited"}]
  BY ImportingIs DEF RuntimeInv, Runtime!BeginModule
<1>2. Imports /\ UNCHANGED <<executed, strangers>>
  BY <1>1 DEF Runtime!BeginModule, Imports, Runtime!session
<1>3. \/ importing' = Runtime!Nothing
      \/ importing' = [importing EXCEPT !.at = "validated"]
  BY DEF Runtime!BeginModule
<1>4. ImportInv'
  BY <1>1, <1>2, <1>3 DEF RuntimeInv, ImportInv, Imports, Runtime!Importable, Runtime!Nothing
<1>5. QuietInv'
  <2>1. importing # Runtime!Nothing
    BY DEF Runtime!BeginModule, Runtime!Nothing
  <2>2. changes = 0 => strangers = {} /\ importing.finder = "guard"
    BY <2>1 DEF RuntimeInv, QuietInv
  <2>3. changes = 0 => strangers' = {} /\ (importing' = Runtime!Nothing \/ importing'.finder = "guard")
    BY <1>1, <1>2, <1>3, <2>2
  <2>. QED
    BY <1>2, <2>3, QuietStays
<1>. QED
  BY <1>2, <1>4, <1>5, ImportKeeps, ExecutedStays DEF RuntimeInv

LEMMA ExecuteStep ==
    ASSUME RuntimeInv, Runtime!ExecuteModule
    PROVE  RuntimeInv'
<1>1. PICK i : i = importing
  OBVIOUS
<1>2. /\ Runtime!Importable
      /\ i \in [at : {"found", "validated", "executed"}, file : Runtime!Files,
                finder : {"guard", "unaudited"}]
  BY <1>1, ImportingIs DEF RuntimeInv, Runtime!ExecuteModule
<1>3. PICK f \in Runtime!Files : f = i.file
  BY <1>2
<1>. DEFINE item == [finder |-> i.finder, code |-> Runtime!Executes(f, i.finder)]
<1>4. /\ executed' = [executed EXCEPT ![f] = executed[f] \cup {item}]
      /\ importing' = [i EXCEPT !.at = "executed"] /\ UNCHANGED strangers
  BY <1>1, <1>2, <1>3 DEF Runtime!ExecuteModule
<1>5. Imports
  BY <1>2 DEF Runtime!ExecuteModule, Imports, Runtime!session
<1>6. DOMAIN executed = Runtime!Files
  BY DEF RuntimeInv, ImportInv
<1>7. ImportInv'
  BY <1>2, <1>4, <1>5, <1>6 DEF ImportInv, Imports, Runtime!Importable
<1>8. /\ stage \in {"binding", "answering"} /\ UNCHANGED <<disk, policy, stage, todo>>
  BY <1>5 DEF Imports, Runtime!Importable
<1>9. Runtime!ContentOf(policy) = Runtime!Recorded
  BY <1>8 DEF RuntimeInv, ExecutedInv
<1>10. policy[f].content = Runtime!Recorded[f]
  <2>1. Runtime!ContentOf(policy)[f] = policy[f].content
    BY DEF Runtime!ContentOf
  <2>. QED
    BY <1>9, <2>1
<1>11. item \in Runtime!Accounted(f) \/ ~Runtime!Owned(f)
  <2>1. Runtime!Owned(f) => policy[f] = disk[f]
    BY DEF RuntimeInv, FilesInv, Installed, Runtime!Owned
  <2>. QED
    BY <1>2, <1>10, <2>1 DEF Runtime!Executes, Runtime!Accounted
<1>. HIDE DEF item
<1>12. ASSUME NEW g \in Runtime!Files, ~(executed'[g] \subseteq Runtime!Accounted(g))
       PROVE  ~Runtime!Owned(g)' /\ Runtime!Importable'
  <2>1. Runtime!Importable' /\ (Runtime!Owned(g)' <=> Runtime!Owned(g))
    BY <1>2, <1>8 DEF Runtime!Importable, Runtime!Owned
  <2>2. executed[g] \subseteq Runtime!Accounted(g) \/ ~Runtime!Owned(g)
    BY <1>8 DEF RuntimeInv, ExecutedInv
  <2>3. CASE g = f
    BY <1>4, <1>6, <1>11, <1>12, <2>1, <2>2, <2>3
  <2>4. CASE g # f
    BY <1>4, <1>6, <1>12, <2>1, <2>2, <2>4
  <2>. QED
    BY <2>3, <2>4
<1>13. ExecutedInv'
  <2>1. Runtime!ContentOf(policy)' = Runtime!Recorded
    BY <1>8, <1>9 DEF Runtime!ContentOf
  <2>. QED
    BY <1>12, <2>1 DEF ExecutedInv, Runtime!Accounted
<1>14. QuietInv'
  <2>1. importing # Runtime!Nothing
    BY DEF Runtime!ExecuteModule, Runtime!Nothing
  <2>2. changes = 0 => strangers = {} /\ i.finder = "guard"
    BY <1>1, <2>1 DEF RuntimeInv, QuietInv
  <2>3. changes = 0 => strangers' = {} /\ importing'.finder = "guard"
    BY <1>2, <1>4, <2>2
  <2>. QED
    BY <1>5, <2>3, QuietStays
<1>. QED
  BY <1>5, <1>7, <1>13, <1>14, ImportKeeps DEF RuntimeInv

LEMMA EndStep ==
    ASSUME RuntimeInv, Runtime!EndModule \/ Runtime!EndForeignModule
    PROVE  RuntimeInv'
<1>1. Runtime!Importable /\ importing # Runtime!Nothing
  BY ImportingIs DEF RuntimeInv, Runtime!EndModule, Runtime!EndForeignModule, Runtime!Nothing
<1>2. Imports /\ UNCHANGED executed /\ importing' = Runtime!Nothing
  BY <1>1 DEF Runtime!EndModule, Runtime!EndForeignModule, Imports, Runtime!session
<1>3. ImportInv'
  BY <1>2 DEF RuntimeInv, ImportInv, Runtime!Nothing
<1>4. QuietInv'
  <2>1. changes = 0 => strangers = {} /\ importing.finder = "guard"
    BY <1>1 DEF RuntimeInv, QuietInv
  <2>2. importing.finder = "guard" => UNCHANGED strangers
    BY DEF Runtime!EndModule, Runtime!EndForeignModule
  <2>3. changes = 0 => strangers' = {}
    BY <2>1, <2>2
  <2>. QED
    BY <1>2, <2>3, QuietStays
<1>. QED
  BY <1>2, <1>3, <1>4, ImportKeeps, ExecutedStays DEF RuntimeInv

-----------------------------------------------------------------------------
(* RuntimeProvenance: the theorems                                             *)

LEMMA RuntimeAtFirst ==
    ASSUME Runtime!Init
    PROVE  RuntimeInv
<1>1. /\ disk \in [Runtime!Files -> [content : Contents, identity : {0}]]
      /\ hooks = "fixed" /\ changes = 0 /\ read = disk /\ policy = disk
      /\ stage = "starting" /\ todo = Runtime!Authority
      /\ importing = Runtime!Nothing /\ executed = [f \in Runtime!Files |-> {}] /\ strangers = {}
      /\ seen = {Runtime!ContentOf(disk)}
  BY DEF Runtime!Init
<1>2. /\ Runtime!Authority \in Seq(Tasks) /\ Adoption \in Nat \ {0} /\ Comparison \in Nat
      /\ Adoption < Comparison
  BY AuthorityIs
<1>3. FilesInv
  BY <1>1 DEF FilesInv, Installed
<1>4. Reached = 1
  BY <1>1, <1>2 DEF Reached
<1>5. WorkInv
  BY <1>1, <1>2, <1>4 DEF WorkInv, Runtime!Following
<1>6. ~(Adoption < Reached) /\ ~(Reached > Comparison)
  BY <1>2, <1>4
<1>7. StartInv
  BY <1>1, <1>6 DEF StartInv
<1>8. ExecutedInv /\ ImportInv /\ StateInv /\ QuietInv
  BY <1>1 DEF ExecutedInv, ImportInv, StateInv, QuietInv
<1>. QED
  BY <1>3, <1>5, <1>7, <1>8 DEF RuntimeInv

LEMMA RuntimeSteps ==
    ASSUME RuntimeInv, Runtime!Next
    PROVE  RuntimeInv'
BY ReadStep, AdoptStep, CheckStep, ProceedStep, InstallStep, HooksStep, FindStep, BeginStep,
   ExecuteStep, EndStep DEF Runtime!Next

LEMMA RuntimeRests ==
    ASSUME RuntimeInv, UNCHANGED runtime
    PROVE  RuntimeInv'
<1>1. UNCHANGED <<disk, hooks, changes, read, policy, stage, todo, importing, loaded, executed, strangers, seen>>
  BY DEF runtime
<1>2. FilesInv' /\ WorkInv' /\ QuietInv'
  BY <1>1 DEF RuntimeInv, FilesInv, Installed, WorkInv, Reached, QuietInv, Runtime!ContentOf, Runtime!Nothing
<1>3. StartInv'
  BY <1>1 DEF RuntimeInv, StartInv, Reached, Runtime!ContentOf, Runtime!Owned
<1>4. ExecutedInv' /\ ImportInv' /\ StateInv'
  BY <1>1 DEF RuntimeInv, ExecutedInv, ImportInv, StateInv, Runtime!ContentOf, Runtime!Owned,
              Runtime!Importable, Runtime!Nothing, Runtime!Accounted, Runtime!StateIsFixed
<1>. QED
  BY <1>2, <1>3, <1>4 DEF RuntimeInv

RuntimeIs == part = "runtime" => RuntimeInv

LEMMA RuntimeInvariance == MCSpec => []RuntimeIs
<1>1. MCInit => RuntimeIs
  BY RuntimeAtFirst DEF MCInit, RuntimeIs
<1>2. RuntimeIs /\ [MCNext]_<<part, pc, closure, runtime, planning, output>> => RuntimeIs'
  <2>. SUFFICES ASSUME RuntimeIs, [MCNext]_<<part, pc, closure, runtime, planning, output>>,
                       part' = "runtime"
                PROVE  RuntimeInv'
    BY DEF RuntimeIs
  <2>1. part' = part /\ (Runtime!Next \/ UNCHANGED runtime)
    BY DEF MCNext
  <2>. QED
    BY <2>1, RuntimeSteps, RuntimeRests DEF RuntimeIs
<1>. QED
  BY <1>1, <1>2, PTL DEF MCSpec

(* For any packages, files and number of changes: when a request is made or    *)
(* its answer recorded, the guard has found only recorded code in the name of  *)
(* a file, other code has run only by imports that raise no audit event, with  *)
(* nothing of them left in the import state, and a session is refused only     *)
(* over a change or another installation.                                      *)
THEOREM RecordedUnderGuard == MCSpec => []GuardRunsRecordedCode
<1>1. RuntimeIs => GuardRunsRecordedCode
  <2>. SUFFICES ASSUME RuntimeInv PROVE Runtime!GuardRunsRecordedCode
    BY DEF RuntimeIs, GuardRunsRecordedCode
  <2>1. ASSUME todo = <<>>, stage \in {"requested", "recorded"}
        PROVE  /\ Runtime!StateIsFixed
               /\ \A f \in Runtime!Files : executed[f] \subseteq Runtime!Accounted(f)
    <3>1. ~Runtime!Importable /\ Among(todo) = {}
      BY <2>1 DEF Runtime!Importable, Among
    <3>. QED
      BY <2>1, <3>1 DEF RuntimeInv, ExecutedInv, StateInv
  <2>2. stage = "refused" => changes > 0 \/ Runtime!ContentOf(disk) # Runtime!Recorded
    BY DEF RuntimeInv, QuietInv, FilesInv
  <2>. QED
    BY <2>1, <2>2 DEF Runtime!GuardRunsRecordedCode
<1>. QED
  BY <1>1, RuntimeInvariance, PTL

(* For any packages and number of changes during the capture: what the policy  *)
(* compares with the capsule was installed all at one time.                    *)
THEOREM InstalledTogether == MCSpec => []OneInstallation
<1>1. RuntimeIs => OneInstallation
  <2>. SUFFICES ASSUME RuntimeInv, stage = "starting", todo # <<>>, Head(todo).do = "compare"
                PROVE  Runtime!ContentOf(policy) \in seen
    BY DEF RuntimeIs, OneInstallation, Runtime!OneInstallation
  <2>1. Reached \in 1 .. Len(Runtime!Authority) /\ Head(todo) = Runtime!Authority[Reached]
    BY HeadIs DEF RuntimeInv
  <2>2. /\ Reached = Comparison /\ Adoption < Reached /\ Reached <= Comparison
        /\ Comparison \in Nat /\ \A k \in Reached .. Comparison : k = Reached
    BY <2>1, AuthorityIs
  <2>3. \A f : Runtime!Authority[Reached] # Own(f)
    BY <2>1, OwnIs
  <2>. QED
    BY <2>2, <2>3 DEF RuntimeInv, StartInv
<1>. QED
  BY <1>1, RuntimeInvariance, PTL

-----------------------------------------------------------------------------
(* CapsulePlanning: sequences put one after the other                          *)

Flattens(f, ss) == f[0] = <<>> /\ \A i \in 1 .. Len(ss) : f[i] = f[i - 1] \o ss[i]

LEMMA Flattening ==
    ASSUME NEW S, NEW ss \in Seq(Seq(S))
    PROVE  \E f : Flattens(f, ss) /\ f[Len(ss)] = FlattenSeq(ss) /\ \A i \in 0 .. Len(ss) : f[i] \in Seq(S)
<1>. DEFINE n == Len(ss)
<1>0. n \in Nat /\ \A i \in 1 .. n : ss[i] \in Seq(S)
  OBVIOUS
<1>1. \E f : Flattens(f, ss) /\ f[n] = FlattenSeq(ss)
  <2>1. CASE n = 0
    <3>1. FlattenSeq(ss) = ss
      BY <2>1, Zenon DEF FlattenSeq
    <3>. DEFINE f == [i \in {0} |-> <<>>]
    <3>2. f[0] = <<>> /\ ss = <<>>
      BY <2>1
    <3>. HIDE DEF f
    <3>3. Flattens(f, ss) /\ f[n] = FlattenSeq(ss)
      BY <2>1, <3>1, <3>2 DEF Flattens
    <3>. QED
      BY <3>3
  <2>2. CASE n # 0
    <3>1. FlattenSeq(ss) = Runtime!FlattenSeq(ss)
      BY Zenon DEF FlattenSeq, Runtime!FlattenSeq
    <3>2. PICK g : g[n] = FlattenSeq(ss) /\ \A i \in 1 .. n : g[i] = Flat(ss, g, i)
      BY <2>2, <3>1, FlattenIs
    <3>. DEFINE f == [i \in 0 .. n |-> IF i = 0 THEN <<>> ELSE g[i]]
    <3>3. f[0] = <<>> /\ \A i \in 1 .. n : f[i] = g[i]
      BY <1>0
    <3>. HIDE DEF f
    <3>4. ASSUME NEW i \in 1 .. n PROVE f[i] = f[i - 1] \o ss[i]
      <4>1. g[i] = Flat(ss, g, i) /\ ss[i] \in Seq(S)
        BY <1>0, <3>2
      <4>2. CASE i = 1
        <5>1. g[i] = ss[i]
          BY <4>1, <4>2 DEF Flat
        <5>2. f[i] = ss[i] /\ f[i - 1] = <<>>
          BY <3>3, <4>2, <5>1
        <5>3. <<>> \o ss[i] = ss[i]
          BY <4>1
        <5>. QED
          BY <5>2, <5>3, Zenon
      <4>3. CASE i # 1
        <5>1. i - 1 \in 1 .. n
          BY <1>0, <4>3
        <5>. QED
          BY <3>3, <4>1, <4>3, <5>1 DEF Flat
      <4>. QED
        BY <4>2, <4>3
    <3>5. Flattens(f, ss)
      BY <3>3, <3>4, Zenon DEF Flattens
    <3>6. f[n] = FlattenSeq(ss)
      BY <1>0, <2>2, <3>2, <3>3
    <3>. QED
      BY <3>5, <3>6
  <2>. QED
    BY <2>1, <2>2
<1>2. PICK f : Flattens(f, ss) /\ f[n] = FlattenSeq(ss)
  BY <1>1
<1>. DEFINE T == { i \in 0 .. n : f[i] \in Seq(S) }
<1>3. 0 \in T
  <2>1. f[0] = <<>>
    BY <1>2, Zenon DEF Flattens
  <2>2. <<>> \in Seq(S) /\ 0 \in 0 .. n
    BY <1>0
  <2>. QED
    BY <2>1, <2>2, Zenon
<1>4. ASSUME NEW i \in 0 .. n - 1, i \in T PROVE i + 1 \in T
  <2>1. i + 1 \in 1 .. n /\ i + 1 \in 0 .. n /\ (i + 1) - 1 = i
    BY <1>0
  <2>2. f[i + 1] = f[i] \o ss[i + 1]
    BY <1>2, <2>1 DEF Flattens
  <2>3. f[i] \o ss[i + 1] \in Seq(S)
    BY <1>0, <1>4, <2>1
  <2>. QED
    BY <2>1, <2>2, <2>3, Zenon
<1>5. \A i \in 0 .. n : i \in T
  <2>. HIDE DEF T
  <2>. QED
    BY <1>0, <1>3, <1>4, UpTo
<1>. QED
  BY <1>2, <1>5

(* There is one way to put them together.                                      *)
LEMMA OneWay ==
    ASSUME NEW f, NEW g, NEW ss, NEW tt, NEW n \in Nat, n <= Len(ss), n <= Len(tt),
           Len(ss) \in Nat, Len(tt) \in Nat,
           Flattens(f, ss), Flattens(g, tt), \A i \in 1 .. n : ss[i] = tt[i]
    PROVE  \A i \in 0 .. n : f[i] = g[i]
<1>. DEFINE T == { i \in 0 .. n : f[i] = g[i] }
<1>1. 0 \in T
  BY DEF Flattens
<1>2. ASSUME NEW i \in 0 .. n - 1, i \in T PROVE i + 1 \in T
  <2>1. i + 1 \in 1 .. n /\ i + 1 \in 1 .. Len(ss) /\ i + 1 \in 1 .. Len(tt) /\ (i + 1) - 1 = i
    OBVIOUS
  <2>2. f[i + 1] = f[i] \o ss[i + 1] /\ g[i + 1] = g[i] \o tt[i + 1]
    BY <2>1 DEF Flattens
  <2>3. f[i] = g[i] /\ ss[i + 1] = tt[i + 1] /\ i + 1 \in 0 .. n
    BY <1>2, <2>1
  <2>4. f[i + 1] = g[i + 1]
    BY <2>2, <2>3, Zenon
  <2>. QED
    BY <2>3, <2>4
<1>3. \A i \in 0 .. n : i \in T
  <2>. HIDE DEF T
  <2>. QED
    BY <1>1, <1>2, UpTo
<1>. QED
  BY <1>3

LEMMA FlattenMore ==
    ASSUME NEW S, NEW ss \in Seq(Seq(S)), NEW t \in Seq(S)
    PROVE  /\ FlattenSeq(Append(ss, t)) = FlattenSeq(ss) \o t
           /\ FlattenSeq(ss) \in Seq(S)
<1>. DEFINE tt == Append(ss, t)
            n == Len(ss)
<1>1. /\ n \in Nat /\ tt \in Seq(Seq(S)) /\ Len(tt) = n + 1 /\ tt[n + 1] = t
      /\ \A i \in 1 .. n : ss[i] = tt[i]
  OBVIOUS
<1>. HIDE DEF tt
<1>2. PICK f : Flattens(f, ss) /\ f[n] = FlattenSeq(ss) /\ \A i \in 0 .. n : f[i] \in Seq(S)
  BY Flattening
<1>3. PICK g : Flattens(g, tt) /\ g[n + 1] = FlattenSeq(tt)
  BY <1>1, Flattening
<1>4. f[n] = g[n]
  <2>1. n <= Len(tt) /\ Len(tt) \in Nat /\ n <= Len(ss) /\ n \in 0 .. n
    BY <1>1
  <2>2. \A i \in 0 .. n : f[i] = g[i]
    <3>1. n \in Nat /\ Flattens(f, ss) /\ Flattens(g, tt) /\ \A i \in 1 .. n : ss[i] = tt[i]
      BY <1>1, <1>2, <1>3
    <3>. HIDE DEF n
    <3>2. n <= Len(ss) /\ Len(ss) \in Nat
      BY <1>1 DEF n
    <3>. QED
      BY <2>1, <3>1, <3>2, OneWay
  <2>. QED
    BY <2>1, <2>2
<1>5. g[n + 1] = g[n] \o t
  <2>1. n + 1 \in 1 .. Len(tt) /\ (n + 1) - 1 = n
    BY <1>1
  <2>2. g[n + 1] = g[(n + 1) - 1] \o tt[n + 1]
    BY <1>3, <2>1, Zenon DEF Flattens
  <2>. QED
    BY <1>1, <2>1, <2>2
<1>. QED
  BY <1>1, <1>2, <1>3, <1>4, <1>5 DEF tt

-----------------------------------------------------------------------------
(* CapsulePlanning: index rows and the files they come from                    *)

IndexRows ==
    [source : SourceOrdinals, record : 0 .. MaxRecords - 1, dataset : Datasets, id : CaseIds,
     scenario : Scenarios, locale : Locales, scenarioUid : Datasets \X Scenarios,
     uid : (Datasets \X Scenarios) \X CaseIds \X Locales]

LEMMA RowIs ==
    ASSUME NEW row \in SubmittedRows
    PROVE  row \in IndexRows /\ row.scenarioUid = ScenarioUid(row.dataset, row.scenario)
<1>1. PICK s \in SourceOrdinals, n \in 0 .. MaxRecords - 1, d \in Datasets, e \in Datasets,
           id \in CaseIds, scenario \in Scenarios, locale \in Locales :
           \/ row = IndexRow(s, n, d, id, scenario, locale)
           \/ row = [IndexRow(s, n, d, id, scenario, locale)
                        EXCEPT !.uid = CaseUid(e, scenario, id, locale)]
  BY DEF SubmittedRows
<1>2. CASE row = IndexRow(s, n, d, id, scenario, locale)
  BY <1>1, <1>2 DEF IndexRow, IndexRows, ScenarioUid, CaseUid
<1>3. CASE row = [IndexRow(s, n, d, id, scenario, locale)
                     EXCEPT !.uid = CaseUid(e, scenario, id, locale)]
  BY <1>1, <1>3 DEF IndexRow, IndexRows, ScenarioUid, CaseUid
<1>. QED
  BY <1>1, <1>2, <1>3

Chosen(index, s) == [i \in DOMAIN index |-> IF index[i].source = s THEN <<index[i]>> ELSE <<>>]

LEMMA SequenceIs ==
    ASSUME NEW S, NEW n \in Nat, NEW s \in [1 .. n -> S]
    PROVE  s \in Seq(S) /\ Len(s) = n
OBVIOUS

LEMMA AppendIs ==
    ASSUME NEW S, NEW s \in Seq(S), NEW x \in S
    PROVE  Append(s, x) = [i \in 1 .. Len(s) + 1 |-> IF i = Len(s) + 1 THEN x ELSE s[i]]
<1>. DEFINE t == [i \in 1 .. Len(s) + 1 |-> IF i = Len(s) + 1 THEN x ELSE s[i]]
<1>1. Len(s) + 1 \in Nat /\ t \in [1 .. Len(s) + 1 -> S]
  OBVIOUS
<1>2. \A i \in 1 .. Len(s) + 1 : t[i] = Append(s, x)[i]
  OBVIOUS
<1>. HIDE DEF t
<1>3. t \in Seq(S) /\ Len(t) = Len(s) + 1
  BY <1>1, SequenceIs
<1>4. Append(s, x) \in Seq(S) /\ Len(Append(s, x)) = Len(s) + 1
  OBVIOUS
<1>5. Append(s, x) = t
  BY <1>2, <1>3, <1>4
<1>. QED
  BY <1>5 DEF t

LEMMA FileIs ==
    ASSUME NEW R, NEW index \in Seq(R), NEW s \in SourceOrdinals
    PROVE  FilesOf(index)[s] = FlattenSeq(Chosen(index, s)) /\ Chosen(index, s) \in Seq(Seq(R))
<1>1. FilesOf(index)[s] = FlattenSeq(Chosen(index, s))
  BY Zenon DEF FilesOf, Chosen
<1>2. Chosen(index, s) \in [1 .. Len(index) -> Seq(R)]
  BY DEF Chosen
<1>3. Len(index) \in Nat
  OBVIOUS
<1>4. Chosen(index, s) \in Seq(Seq(R))
  BY <1>2, <1>3, SequenceIs
<1>. QED
  BY <1>1, <1>4

LEMMA FilesGrow ==
    ASSUME NEW R, NEW index \in Seq(R), NEW row \in R, NEW s \in SourceOrdinals
    PROVE  /\ FilesOf(Append(index, row))[s] =
                IF row.source = s THEN Append(FilesOf(index)[s], row) ELSE FilesOf(index)[s]
           /\ FilesOf(index)[s] \in Seq(R)
<1>. DEFINE last == IF row.source = s THEN <<row>> ELSE <<>>
            more == Append(index, row)
<1>1. last \in Seq(R) /\ more \in Seq(R)
  OBVIOUS
<1>2. Chosen(more, s) = Append(Chosen(index, s), last)
  <2>1. /\ Len(index) \in Nat /\ DOMAIN index = 1 .. Len(index)
        /\ DOMAIN more = 1 .. Len(index) + 1 /\ more[Len(index) + 1] = row
        /\ \A i \in 1 .. Len(index) : more[i] = index[i]
    OBVIOUS
  <2>. HIDE DEF more, last
  <2>2. Chosen(index, s) \in Seq(Seq(R))
    BY FileIs
  <2>3. Len(Chosen(index, s)) = Len(index)
    BY <2>1, <2>2 DEF Chosen
  <2>4. Append(Chosen(index, s), last) =
          [i \in 1 .. Len(index) + 1 |->
              IF i = Len(index) + 1 THEN last ELSE Chosen(index, s)[i]]
    BY <1>1, <2>2, <2>3, AppendIs
  <2>5. Chosen(more, s) = [i \in 1 .. Len(index) + 1 |->
                              IF more[i].source = s THEN <<more[i]>> ELSE <<>>]
    BY <2>1 DEF Chosen
  <2>6. ASSUME NEW i \in 1 .. Len(index) + 1
        PROVE  (IF more[i].source = s THEN <<more[i]>> ELSE <<>>) =
                  IF i = Len(index) + 1 THEN last ELSE Chosen(index, s)[i]
    <3>1. CASE i = Len(index) + 1
      BY <2>1, <3>1, Zenon DEF last
    <3>2. CASE i # Len(index) + 1
      <4>1. i \in 1 .. Len(index)
        BY <2>1, <3>2
      <4>. QED
        BY <2>1, <3>2, <4>1, Zenon DEF Chosen
    <3>. QED
      BY <3>1, <3>2
  <2>. QED
    BY <2>4, <2>5, <2>6, Zenon
<1>3. /\ FilesOf(index)[s] = FlattenSeq(Chosen(index, s)) /\ Chosen(index, s) \in Seq(Seq(R))
      /\ FilesOf(more)[s] = FlattenSeq(Chosen(more, s))
  <2>. HIDE DEF more
  <2>. QED
    BY <1>1, FileIs
<1>. HIDE DEF last, more
<1>4. FilesOf(more)[s] = FilesOf(index)[s] \o last /\ FilesOf(index)[s] \in Seq(R)
  BY <1>1, <1>2, <1>3, FlattenMore
<1>5. CASE row.source = s
  <2>1. FilesOf(index)[s] \o <<row>> = Append(FilesOf(index)[s], row)
    BY <1>4
  <2>. QED
    BY <1>4, <1>5, <2>1, Zenon DEF last, more
<1>6. CASE row.source # s
  <2>1. FilesOf(index)[s] \o <<>> = FilesOf(index)[s]
    BY <1>4
  <2>. QED
    BY <1>4, <1>6, <2>1, Zenon DEF last, more
<1>. QED
  BY <1>5, <1>6

LEMMA FilesOfOthers ==
    ASSUME NEW R, NEW index \in Seq(R), NEW s \in SourceOrdinals,
           \A i \in DOMAIN index : index[i].source # s
    PROVE  FilesOf(index)[s] = <<>>
<1>. DEFINE ss == Chosen(index, s)
            n == Len(ss)
<1>1. FilesOf(index)[s] = FlattenSeq(ss) /\ ss \in Seq(Seq(R))
  BY FileIs
<1>2. n \in Nat /\ \A i \in 1 .. n : ss[i] = <<>>
  BY <1>1 DEF Chosen
<1>. HIDE DEF ss
<1>3. PICK f : Flattens(f, ss) /\ f[n] = FlattenSeq(ss)
  BY <1>1, Flattening
<1>. DEFINE T == { i \in 0 .. n : f[i] = <<>> }
<1>4. 0 \in T
  <2>1. f[0] = <<>>
    BY <1>3, Zenon DEF Flattens
  <2>. QED
    BY <1>2, <2>1
<1>5. ASSUME NEW i \in 0 .. n - 1, i \in T PROVE i + 1 \in T
  <2>1. i + 1 \in 1 .. n /\ i + 1 \in 0 .. n /\ (i + 1) - 1 = i
    BY <1>2
  <2>2. f[i + 1] = f[i] \o ss[i + 1]
    BY <1>3, <2>1 DEF Flattens
  <2>3. f[i] = <<>> /\ ss[i + 1] = <<>> /\ <<>> \o <<>> = <<>>
    BY <1>2, <1>5, <2>1
  <2>4. f[i + 1] = <<>>
    BY <2>2, <2>3, Zenon
  <2>. QED
    BY <2>1, <2>4
<1>6. n \in T
  <2>. HIDE DEF T, n
  <2>1. \A i \in 0 .. n : i \in T
    BY <1>2, <1>4, <1>5, UpTo
  <2>. QED
    BY <1>2, <2>1
<1>. QED
  BY <1>1, <1>3, <1>6

LEMMA SourcesIs == /\ Sources \in Nat \ {0} /\ MaxRecords \in Nat \ {0} /\ Repetitions \in Nat \ {0}
                   /\ IsFiniteSet(Arms) /\ Arms # {}
                   /\ \A i \in 1 .. Sources : i - 1 \in SourceOrdinals
                   /\ \A s \in SourceOrdinals : s \in Nat /\ s + 1 \in 1 .. Sources /\ (s + 1) - 1 = s
BY AllConstantsAreLegal DEF ConstantsAreLegal, SourceOrdinals

Row(files, s, k) ==
    IndexRow(s, k - 1, Owner(s), files[s][k].id, files[s][k].scenario, files[s][k].locale)
RowsOf(files) == [i \in 1 .. Sources |-> [k \in DOMAIN files[i - 1] |-> Row(files, i - 1, k)]]
AnyRow(files) ==
    UNION { { Row(files, s, k) : k \in DOMAIN files[s] } : s \in SourceOrdinals }

LEMMA IndexIs ==
    ASSUME NEW R, NEW files, \A s \in SourceOrdinals : files[s] \in Seq(R)
    PROVE  /\ IndexOf(files) = FlattenSeq(RowsOf(files))
           /\ RowsOf(files) \in Seq(Seq(AnyRow(files))) /\ Len(RowsOf(files)) = Sources
           /\ \A i \in 1 .. Sources : Len(RowsOf(files)[i]) = Len(files[i - 1])
<1>1. IndexOf(files) = FlattenSeq(RowsOf(files))
  BY Zenon DEF IndexOf, RowsOf, Row
<1>2. ASSUME NEW i \in 1 .. Sources
      PROVE  RowsOf(files)[i] \in Seq(AnyRow(files)) /\ Len(RowsOf(files)[i]) = Len(files[i - 1])
  <2>1. i - 1 \in SourceOrdinals /\ files[i - 1] \in Seq(R)
    BY SourcesIs
  <2>2. DOMAIN files[i - 1] = 1 .. Len(files[i - 1]) /\ Len(files[i - 1]) \in Nat
    BY <2>1
  <2>3. RowsOf(files)[i] = [k \in 1 .. Len(files[i - 1]) |-> Row(files, i - 1, k)]
    BY <2>2, Zenon DEF RowsOf
  <2>4. ASSUME NEW k \in 1 .. Len(files[i - 1]) PROVE Row(files, i - 1, k) \in AnyRow(files)
    <3>1. \A s \in SourceOrdinals : \A x \in DOMAIN files[s] : Row(files, s, x) \in AnyRow(files)
      BY DEF AnyRow
    <3>2. k \in DOMAIN files[i - 1]
      BY <2>2, Zenon
    <3>. QED
      BY <2>1, <3>1, <3>2, Zenon
  <2>5. RowsOf(files)[i] \in [1 .. Len(files[i - 1]) -> AnyRow(files)]
    BY <2>3, <2>4
  <2>. QED
    BY <2>2, <2>5, SequenceIs
<1>3. RowsOf(files) \in [1 .. Sources -> Seq(AnyRow(files))]
  BY <1>2 DEF RowsOf
<1>4. RowsOf(files) \in Seq(Seq(AnyRow(files))) /\ Len(RowsOf(files)) = Sources
  BY <1>3, SourcesIs, SequenceIs
<1>. QED
  BY <1>1, <1>2, <1>4

LEMMA JoinIs ==
    ASSUME NEW S, NEW g \in Seq(S), NEW t \in Seq(S), t # <<>>
    PROVE  /\ g \o t \in Seq(S) /\ Len(g \o t) = Len(g) + Len(t)
           /\ Len(t) \in Nat \ {0} /\ Len(g) \in Nat
           /\ \A k \in 1 .. Len(g) : (g \o t)[k] = g[k]
           /\ \A k \in 1 .. Len(t) : (g \o t)[Len(g) + k] = t[k]
           /\ DOMAIN (g \o t) = 1 .. Len(g) + Len(t)
           /\ DOMAIN g = 1 .. Len(g) /\ DOMAIN t = 1 .. Len(t)
<1>1. /\ g \o t \in Seq(S) /\ Len(g \o t) = Len(g) + Len(t)
      /\ Len(t) \in Nat \ {0} /\ Len(g) \in Nat
  OBVIOUS
<1>2. \A k \in 1 .. Len(g) : (g \o t)[k] = g[k]
  OBVIOUS
<1>3. \A k \in 1 .. Len(t) : (g \o t)[Len(g) + k] = t[k]
  BY <1>1
<1>4. DOMAIN (g \o t) = 1 .. Len(g) + Len(t) /\ DOMAIN g = 1 .. Len(g) /\ DOMAIN t = 1 .. Len(t)
  BY <1>1
<1>. QED
  BY <1>1, <1>2, <1>3, <1>4

(* The last row is the last one of the last file that has any.                 *)
EndsWith(files, g, s) ==
    /\ s \in SourceOrdinals /\ Len(files[s]) > 0
    /\ g[Len(g)] = Row(files, s, Len(files[s]))
    /\ \A i \in DOMAIN g : g[i].source <= s

LEMMA LastRow ==
    ASSUME NEW R, NEW files, \A s \in SourceOrdinals : files[s] \in Seq(R),
           IndexOf(files) # <<>>
    PROVE  \E s \in SourceOrdinals : EndsWith(files, IndexOf(files), s)
<1>. DEFINE ss == RowsOf(files)
            S == AnyRow(files)
<1>1. /\ IndexOf(files) = FlattenSeq(ss) /\ ss \in Seq(Seq(S)) /\ Len(ss) = Sources
      /\ \A i \in 1 .. Sources : Len(ss[i]) = Len(files[i - 1])
  BY IndexIs
<1>2. \A i \in 1 .. Sources : \A k \in DOMAIN ss[i] : ss[i][k] = Row(files, i - 1, k)
  BY Zenon DEF RowsOf
<1>3. \A s, k : Row(files, s, k).source = s
  BY DEF Row, IndexRow
<1>. HIDE DEF ss, S
<1>4. PICK f : /\ Flattens(f, ss) /\ f[Len(ss)] = FlattenSeq(ss)
               /\ \A i \in 0 .. Len(ss) : f[i] \in Seq(S)
  BY <1>1, Flattening
<1>. DEFINE T == { i \in 0 .. Sources :
                     f[i] # <<>> => \E s \in 0 .. i - 1 : EndsWith(files, f[i], s) }
<1>5. 0 \in T
  <2>1. f[0] = <<>>
    BY <1>4, Zenon DEF Flattens
  <2>. QED
    BY <2>1, SourcesIs
<1>6. ASSUME NEW i \in 0 .. Sources - 1, i \in T PROVE i + 1 \in T
  <2>1. /\ i + 1 \in 1 .. Sources /\ i + 1 \in 0 .. Sources /\ (i + 1) - 1 = i /\ i \in SourceOrdinals
        /\ i \in 0 .. Sources /\ i \in Nat
    BY SourcesIs DEF SourceOrdinals
  <2>2. f[i + 1] = f[i] \o ss[i + 1]
    BY <1>1, <1>4, <2>1 DEF Flattens
  <2>3. f[i] \in Seq(S) /\ ss[i + 1] \in Seq(S) /\ Len(ss[i + 1]) = Len(files[i])
    BY <1>1, <1>4, <2>1
  <2>. DEFINE g == f[i]
              t == ss[i + 1]
  <2>4. CASE t = <<>>
    <3>1. g \o t = g
      BY <2>3, <2>4
    <3>2. f[i + 1] = g
      BY <2>2, <3>1
    <3>3. g # <<>> => \E s \in 0 .. i - 1 : EndsWith(files, g, s)
      BY <1>6
    <3>4. 0 .. i - 1 \subseteq 0 .. (i + 1) - 1
      BY <2>1
    <3>. QED
      BY <2>1, <3>2, <3>3, <3>4, Zenon
  <2>5. CASE t # <<>>
    <3>. DEFINE h == g \o t
    <3>1. /\ h \in Seq(S) /\ Len(h) = Len(g) + Len(t) /\ Len(t) \in Nat \ {0} /\ Len(g) \in Nat
          /\ \A k \in 1 .. Len(g) : h[k] = g[k]
          /\ \A k \in 1 .. Len(t) : h[Len(g) + k] = t[k]
          /\ DOMAIN h = 1 .. Len(g) + Len(t) /\ DOMAIN g = 1 .. Len(g) /\ DOMAIN t = 1 .. Len(t)
      <4>1. g \in Seq(S) /\ t \in Seq(S) /\ t # <<>>
        BY <2>3, <2>5
      <4>. HIDE DEF g, t
      <4>. QED
        BY <4>1, JoinIs DEF h
    <3>2. \A k \in 1 .. Len(t) : t[k] = Row(files, i, k) /\ t[k].source = i
      BY <1>2, <1>3, <2>1, <3>1
    <3>3. \A k \in 1 .. Len(g) : g[k].source <= i
      <4>1. CASE g = <<>>
        BY <4>1
      <4>2. CASE g # <<>>
        <5>1. PICK s \in 0 .. i - 1 : EndsWith(files, g, s)
          BY <1>6, <4>2
        <5>2. s <= i /\ s \in Nat /\ \A k \in DOMAIN g : g[k].source <= s
          BY <2>1, <5>1 DEF EndsWith
        <5>3. ASSUME NEW k \in 1 .. Len(g) PROVE g[k].source \in Nat
          <6>1. g[k] \in S
            BY <2>3
          <6>2. \A x \in S : x.source \in Nat
            BY <1>3, SourcesIs DEF S, AnyRow
          <6>. QED
            BY <6>1, <6>2
        <5>4. ASSUME NEW k \in 1 .. Len(g) PROVE g[k].source <= i
          <6>1. k \in DOMAIN g
            BY <3>1
          <6>2. g[k].source <= s /\ g[k].source \in Nat
            BY <5>2, <5>3, <6>1
          <6>. QED
            BY <2>1, <5>2, <6>2
        <5>. QED
          BY <5>4
      <4>. QED
        BY <4>1, <4>2
    <3>. HIDE DEF h, g, t
    <3>4. h[Len(h)] = Row(files, i, Len(files[i]))
      <4>1. Len(t) \in 1 .. Len(t) /\ Len(t) = Len(files[i])
        BY <2>3, <3>1 DEF t
      <4>2. h[Len(g) + Len(t)] = t[Len(t)] /\ t[Len(t)] = Row(files, i, Len(t))
        BY <3>1, <3>2, <4>1
      <4>. QED
        BY <3>1, <4>1, <4>2
    <3>5. ASSUME NEW k \in DOMAIN h PROVE h[k].source <= i
      <4>1. CASE k \in 1 .. Len(g)
        BY <3>1, <3>3, <4>1
      <4>2. CASE k \notin 1 .. Len(g)
        <5>1. k - Len(g) \in 1 .. Len(t) /\ Len(g) + (k - Len(g)) = k
          BY <3>1, <4>2
        <5>2. h[k].source = i
          BY <3>1, <3>2, <5>1
        <5>. QED
          BY <2>1, <5>2
      <4>. QED
        BY <4>1, <4>2
    <3>6. Len(files[i]) > 0
      BY <2>3, <3>1 DEF t
    <3>7. EndsWith(files, h, i) /\ i \in 0 .. (i + 1) - 1
      BY <2>1, <3>4, <3>5, <3>6 DEF EndsWith
    <3>8. f[i + 1] = h
      BY <2>2 DEF h, g, t
    <3>. QED
      BY <2>1, <3>7, <3>8, Zenon
  <2>. QED
    BY <2>4, <2>5
<1>7. Sources \in T
  <2>. HIDE DEF T
  <2>1. \A m \in 0 .. Sources : m \in T
    BY <1>5, <1>6, SourcesIs, UpTo
  <2>. QED
    BY <2>1, SourcesIs
<1>8. \E s \in 0 .. Sources - 1 : EndsWith(files, IndexOf(files), s)
  BY <1>1, <1>4, <1>7
<1>. QED
  BY <1>8 DEF EndsWith

LEMMA RowsJoined ==
    ASSUME NEW S, NEW g \in Seq(S), NEW t \in Seq(S), NEW x
    PROVE  g \o (t \o <<x>>) = (g \o t) \o <<x>> /\ g \o <<x>> = Append(g, x)
           /\ (g \o <<x>>) \o <<>> = g \o <<x>> /\ g \o <<>> = g
<1>. DEFINE U == S \cup {x}
<1>1. g \in Seq(U) /\ t \in Seq(U) /\ <<x>> \in Seq(U)
  OBVIOUS
<1>2. g \o <<x>> \in Seq(U)
  BY <1>1
<1>. HIDE DEF U
<1>3. g \o (t \o <<x>>) = (g \o t) \o <<x>>
  BY <1>1
<1>4. g \o <<x>> = Append(g, x)
  BY <1>1
<1>5. (g \o <<x>>) \o <<>> = g \o <<x>>
  BY <1>2
<1>. QED
  BY <1>3, <1>4, <1>5

(* A row for the last file so far makes one more row of the index, with the    *)
(* number and the owner that the materializer gives it.                        *)
Given(index, row) ==
    IndexRow(row.source, Len(FilesOf(index)[row.source]), Owner(row.source),
             row.id, row.scenario, row.locale)

LEMMA IndexGrows ==
    ASSUME NEW R, NEW index \in Seq(R), NEW row \in R, row.source \in SourceOrdinals,
           \A i \in DOMAIN index : index[i].source \in Nat /\ index[i].source <= row.source
    PROVE  IndexOf(FilesOf(Append(index, row))) = Append(IndexOf(FilesOf(index)), Given(index, row))
<1>. DEFINE files == FilesOf(index)
            more == FilesOf(Append(index, row))
            p == row.source + 1
            ss == RowsOf(files)
            tt == RowsOf(more)
            x == Given(index, row)
            S == AnyRow(files)
<1>1. /\ Append(index, row) \in Seq(R) /\ p \in 1 .. Sources /\ p - 1 = row.source
      /\ p - 1 \in 0 .. Sources /\ Sources \in Nat /\ p \in Nat
  BY SourcesIs
<1>2. /\ \A s \in SourceOrdinals : files[s] \in Seq(R) /\ more[s] \in Seq(R)
      /\ \A s \in SourceOrdinals : s # row.source => more[s] = files[s]
      /\ more[row.source] = Append(files[row.source], row)
  <2>1. ASSUME NEW s \in SourceOrdinals
        PROVE  /\ files[s] \in Seq(R) /\ more[s] \in Seq(R)
               /\ more[s] = IF row.source = s THEN Append(files[s], row) ELSE files[s]
    <3>1. /\ more[s] = IF row.source = s THEN Append(files[s], row) ELSE files[s]
          /\ files[s] \in Seq(R)
      BY FilesGrow
    <3>. HIDE DEF files, more
    <3>2. Append(files[s], row) \in Seq(R)
      BY <3>1
    <3>. QED
      BY <3>1, <3>2
  <2>. HIDE DEF files, more
  <2>. QED
    BY <2>1
<1>3. ASSUME NEW s \in SourceOrdinals, s > row.source PROVE files[s] = <<>>
  <2>1. \A i \in DOMAIN index : index[i].source # s
    BY <1>3, SourcesIs
  <2>. QED
    BY <2>1, FilesOfOthers
<1>4. x = Row(more, row.source, Len(files[row.source]) + 1)
  <2>1. files[row.source] \in Seq(R)
    BY <1>2
  <2>2. Len(files[row.source]) \in Nat
    BY <2>1
  <2>3. (Len(files[row.source]) + 1) - 1 = Len(files[row.source])
    BY <2>2
  <2>4. more[row.source][Len(files[row.source]) + 1] = row
    BY <1>2, <2>1
  <2>. QED
    BY <2>3, <2>4, Zenon DEF Row, Given
<1>. HIDE DEF files, more
<1>5. /\ IndexOf(files) = FlattenSeq(ss) /\ ss \in Seq(Seq(S)) /\ Len(ss) = Sources
      /\ \A i \in 1 .. Sources : Len(ss[i]) = Len(files[i - 1])
  BY <1>2, IndexIs
<1>6. /\ IndexOf(more) = FlattenSeq(tt) /\ tt \in Seq(Seq(AnyRow(more))) /\ Len(tt) = Sources
  BY <1>2, IndexIs
<1>7. ASSUME NEW i \in 1 .. Sources, i # p PROVE tt[i] = ss[i]
  <2>1. i - 1 \in SourceOrdinals /\ i - 1 # row.source
    BY <1>1, <1>7, SourcesIs
  <2>2. more[i - 1] = files[i - 1]
    BY <1>2, <2>1
  <2>. QED
    BY <2>2, Zenon DEF RowsOf, Row
<1>8. ASSUME NEW i \in 1 .. Sources, i > p PROVE ss[i] = <<>> /\ tt[i] = <<>>
  <2>1. i - 1 \in SourceOrdinals /\ i - 1 > row.source /\ i # p
    BY <1>1, <1>8, SourcesIs
  <2>2. files[i - 1] = <<>> /\ ss[i] \in Seq(S) /\ Len(ss[i]) = Len(files[i - 1])
    BY <1>3, <1>5, <2>1
  <2>3. ss[i] = <<>>
    <3>. HIDE DEF ss, S
    <3>. QED
      BY <2>2
  <2>. QED
    BY <1>7, <2>1, <2>3
<1>9. tt[p] = ss[p] \o <<x>>
  <2>. DEFINE n == Len(files[row.source])
  <2>1. files[row.source] \in Seq(R)
    BY <1>2
  <2>2. n \in Nat /\ DOMAIN files[row.source] = 1 .. n /\ DOMAIN more[row.source] = 1 .. n + 1
    BY <1>2, <2>1
  <2>3. \A k \in 1 .. n : more[row.source][k] = files[row.source][k]
    BY <1>2, <2>1
  <2>4. /\ tt[p] = [k \in 1 .. n + 1 |-> Row(more, row.source, k)]
        /\ ss[p] = [k \in 1 .. n |-> Row(files, row.source, k)]
    BY <1>1, <2>2 DEF RowsOf
  <2>5. \A k \in 1 .. n : Row(more, row.source, k) = Row(files, row.source, k)
    BY <2>3 DEF Row
  <2>6. ss[p] \in Seq(S) /\ Len(ss[p]) = n
    BY <1>1, <1>5
  <2>. HIDE DEF n, ss, tt, x, S
  <2>. DEFINE U == S \cup {x}
  <2>7. ss[p] \in Seq(U) /\ x \in U
    BY <2>6
  <2>8. \A k \in 1 .. n : ss[p][k] = Row(files, row.source, k)
    BY <2>4
  <2>9. Append(ss[p], x) = [k \in 1 .. n + 1 |-> IF k = n + 1 THEN x ELSE ss[p][k]]
    <3>. HIDE DEF U
    <3>. QED
      BY <2>6, <2>7, AppendIs
  <2>10. ASSUME NEW k \in 1 .. n + 1
         PROVE  Row(more, row.source, k) = IF k = n + 1 THEN x ELSE ss[p][k]
    <3>1. CASE k = n + 1
      BY <1>4, <3>1 DEF n
    <3>2. CASE k # n + 1
      <4>1. k \in 1 .. n
        BY <2>2, <3>2
      <4>. QED
        BY <2>5, <2>8, <3>2, <4>1, Zenon
    <3>. QED
      BY <3>1, <3>2
  <2>11. tt[p] = Append(ss[p], x)
    BY <2>4, <2>9, <2>10, Zenon
  <2>12. ss[p] \o <<x>> = Append(ss[p], x)
    BY <2>6, RowsJoined
  <2>. QED
    BY <2>11, <2>12
<1>. HIDE DEF ss, tt, S, x, p
<1>10. PICK f : /\ Flattens(f, ss) /\ f[Sources] = FlattenSeq(ss)
                /\ \A i \in 0 .. Sources : f[i] \in Seq(S)
  <2>1. \E f : /\ Flattens(f, ss) /\ f[Len(ss)] = FlattenSeq(ss)
               /\ \A i \in 0 .. Len(ss) : f[i] \in Seq(S)
    BY <1>5, Flattening
  <2>. QED
    BY <1>5, <2>1
<1>11. PICK g : Flattens(g, tt) /\ g[Sources] = FlattenSeq(tt)
  <2>1. \E g : Flattens(g, tt) /\ g[Len(tt)] = FlattenSeq(tt)
    BY <1>6, Flattening
  <2>. QED
    BY <1>6, <2>1
<1>12. f[p - 1] = g[p - 1]
  <2>. DEFINE n == p - 1
  <2>1. /\ n \in Nat /\ n <= Len(ss) /\ n <= Len(tt) /\ Len(ss) \in Nat /\ Len(tt) \in Nat
        /\ \A i \in 1 .. n : ss[i] = tt[i]
    BY <1>1, <1>5, <1>6, <1>7
  <2>2. n \in 0 .. n
    BY <2>1
  <2>. HIDE DEF n
  <2>3. \A i \in 0 .. n : f[i] = g[i]
    BY <1>10, <1>11, <2>1, OneWay
  <2>4. f[n] = g[n]
    BY <2>2, <2>3
  <2>. QED
    BY <2>4 DEF n
<1>13. \A i \in 1 .. Sources : f[i] = f[i - 1] \o ss[i] /\ g[i] = g[i - 1] \o tt[i]
  BY <1>5, <1>6, <1>10, <1>11, Zenon DEF Flattens
<1>14. g[p] = f[p] \o <<x>>
  <2>1. f[p] = f[p - 1] \o ss[p] /\ g[p] = f[p - 1] \o (ss[p] \o <<x>>)
    BY <1>1, <1>9, <1>12, <1>13
  <2>2. f[p - 1] \in Seq(S) /\ ss[p] \in Seq(S)
    BY <1>1, <1>5, <1>10
  <2>3. f[p - 1] \o (ss[p] \o <<x>>) = (f[p - 1] \o ss[p]) \o <<x>>
    <3>1. \A u, v \in Seq(S) : u \o (v \o <<x>>) = (u \o v) \o <<x>>
      BY RowsJoined
    <3>. QED
      BY <2>2, <3>1, Zenon
  <2>. QED
    BY <2>1, <2>3
<1>. DEFINE T == { i \in 0 .. Sources - p : g[p + i] = f[p + i] \o <<x>> }
            m == Sources - p
<1>15. 0 \in T /\ m \in Nat
  <2>1. p + 0 = p /\ 0 \in 0 .. Sources - p /\ m \in Nat
    BY <1>1
  <2>. QED
    BY <1>14, <2>1
<1>16. ASSUME NEW i \in 0 .. m - 1, i \in T PROVE i + 1 \in T
  <2>. DEFINE k == p + (i + 1)
  <2>1. k \in 1 .. Sources /\ k > p /\ k - 1 = p + i /\ i + 1 \in 0 .. m /\ k - 1 \in 0 .. Sources
    BY <1>1
  <2>2. ss[k] = <<>> /\ tt[k] = <<>>
    BY <1>8, <2>1
  <2>3. f[k] = f[k - 1] \o ss[k] /\ g[k] = g[k - 1] \o tt[k]
    BY <1>13, <2>1
  <2>4. g[k - 1] = f[k - 1] \o <<x>> /\ f[k - 1] \in Seq(S)
    BY <1>10, <1>16, <2>1
  <2>. HIDE DEF k
  <2>5. f[k - 1] \o <<>> = f[k - 1] /\ (f[k - 1] \o <<x>>) \o <<>> = f[k - 1] \o <<x>>
    BY <2>4, RowsJoined
  <2>6. g[k] = f[k] \o <<x>>
    BY <2>2, <2>3, <2>4, <2>5, Zenon
  <2>. QED
    BY <2>1, <2>6 DEF k
<1>17. m \in T
  <2>. HIDE DEF T, m
  <2>1. \A i \in 0 .. m : i \in T
    BY <1>15, <1>16, UpTo
  <2>. QED
    BY <1>15, <2>1
<1>18. g[Sources] = f[Sources] \o <<x>>
  <2>1. p + m = Sources
    BY <1>1
  <2>2. g[p + m] = f[p + m] \o <<x>>
    BY <1>17
  <2>. QED
    BY <2>1, <2>2
<1>19. f[Sources] \o <<x>> = Append(f[Sources], x)
  <2>1. f[Sources] \in Seq(S)
    BY <1>1, <1>10
  <2>. QED
    BY <2>1, RowsJoined
<1>. QED
  BY <1>5, <1>6, <1>10, <1>11, <1>18, <1>19 DEF files, more, x

-----------------------------------------------------------------------------
(* CapsulePlanning: the rules of the index                                     *)

(* The materializer makes of what has been read so far what has been read.     *)
IndexInv ==
    /\ rows \in Seq(SubmittedRows) /\ IsConsistent(rows)
    /\ IndexOf(FilesOf(rows)) = rows
    /\ \A s \in SourceOrdinals : Len(FilesOf(rows)[s]) = ReadOf(s)

LEMMA LastIsGiven ==
    ASSUME NEW index \in Seq(SubmittedRows), NEW row \in SubmittedRows,
           IndexOf(FilesOf(Append(index, row))) = Append(index, row)
    PROVE  row = Given(index, row) /\ \A i \in DOMAIN index : index[i].source <= row.source
<1>. DEFINE more == Append(index, row)
            files == FilesOf(more)
<1>1. /\ more \in Seq(SubmittedRows) /\ more # <<>> /\ more[Len(more)] = row
      /\ \A i \in DOMAIN index : i \in DOMAIN more /\ more[i] = index[i]
  OBVIOUS
<1>2. \A s \in SourceOrdinals : files[s] \in Seq(SubmittedRows)
  <2>. HIDE DEF more
  <2>. QED
    BY <1>1, FilesGrow
<1>3. PICK s \in SourceOrdinals : EndsWith(files, more, s)
  <2>. HIDE DEF more, files
  <2>1. IndexOf(files) = more
    BY DEF more, files
  <2>. QED
    BY <1>1, <1>2, <2>1, LastRow
<1>. DEFINE n == Len(FilesOf(index)[s])
<1>4. row = Row(files, s, Len(files[s])) /\ \A i \in DOMAIN index : index[i].source <= s
  <2>. HIDE DEF more, files
  <2>. QED
    BY <1>1, <1>3 DEF EndsWith
<1>5. row.source = s
  BY <1>4 DEF Row, IndexRow
<1>6. files[s] = Append(FilesOf(index)[s], row) /\ FilesOf(index)[s] \in Seq(SubmittedRows)
  BY <1>5, FilesGrow
<1>. HIDE DEF files
<1>7. Len(files[s]) = n + 1 /\ files[s][n + 1] = row /\ (n + 1) - 1 = n
  BY <1>6
<1>8. row = Given(index, row)
  BY <1>4, <1>5, <1>7, Zenon DEF Row, Given
<1>. QED
  BY <1>4, <1>5, <1>8

LEMMA ConsistentMore ==
    ASSUME NEW S, NEW index \in Seq(S), NEW row \in S
    PROVE  IsConsistent(Append(index, row)) <=>
             /\ IsConsistent(index) /\ row.id.suffix = row.locale
             /\ \A i \in DOMAIN index :
                  /\ index[i].id # row.id /\ index[i].uid # row.uid
                  /\ <<Group(index[i]), index[i].locale>> # <<Group(row), row.locale>>
                  /\ index[i].scenarioUid = row.scenarioUid => Group(index[i]) = Group(row)
<1>. DEFINE more == Append(index, row)
            n == Len(index)
<1>1. /\ n \in Nat /\ DOMAIN index = 1 .. n /\ DOMAIN more = 1 .. n + 1 /\ more[n + 1] = row
      /\ \A i \in 1 .. n : more[i] = index[i]
  OBVIOUS
<1>2. /\ \A i \in 1 .. n + 1 : i = n + 1 \/ i \in 1 .. n
      /\ \A i \in 1 .. n : i # n + 1 /\ i \in 1 .. n + 1 /\ i < n + 1
      /\ n + 1 \in 1 .. n + 1 /\ \A i \in 1 .. n + 1 : ~(n + 1 < i)
  BY <1>1
<1>. HIDE DEF more, n
<1>. DEFINE Pair(p, q) ==
              /\ p.id # q.id /\ p.uid # q.uid
              /\ <<Group(p), p.locale>> # <<Group(q), q.locale>>
              /\ p.scenarioUid = q.scenarioUid => Group(p) = Group(q)
<1>3. IsConsistent(more) <=>
        /\ \A i \in 1 .. n + 1 : more[i].id.suffix = more[i].locale
        /\ \A i, j \in 1 .. n + 1 : i < j => Pair(more[i], more[j])
  BY <1>1, Zenon DEF IsConsistent
<1>4. IsConsistent(index) <=>
        /\ \A i \in 1 .. n : index[i].id.suffix = index[i].locale
        /\ \A i, j \in 1 .. n : i < j => Pair(index[i], index[j])
  BY <1>1, Zenon DEF IsConsistent
<1>. HIDE DEF Pair
<1>5. (\A i, j \in 1 .. n + 1 : i < j => Pair(more[i], more[j])) <=>
        /\ \A i, j \in 1 .. n : i < j => Pair(index[i], index[j])
        /\ \A i \in 1 .. n : Pair(index[i], row)
  BY <1>1, <1>2
<1>6. (\A i \in 1 .. n + 1 : more[i].id.suffix = more[i].locale) <=>
        /\ \A i \in 1 .. n : index[i].id.suffix = index[i].locale
        /\ row.id.suffix = row.locale
  BY <1>1, <1>2
<1>7. IsConsistent(more) <=>
        /\ IsConsistent(index) /\ row.id.suffix = row.locale
        /\ \A i \in 1 .. n : Pair(index[i], row)
  BY <1>3, <1>4, <1>5, <1>6
<1>. QED
  BY <1>1, <1>7, Zenon DEF Pair, more

LEMMA GivenIs ==
    ASSUME NEW row \in SubmittedRows, IndexInv
    PROVE  row = Given(rows, row) <=>
             /\ row.record = ReadOf(row.source) /\ row.dataset = Owner(row.source)
             /\ row.uid = CaseUid(row.dataset, row.scenario, row.id, row.locale)
<1>1. row \in IndexRows /\ row.scenarioUid = ScenarioUid(row.dataset, row.scenario)
  BY RowIs
<1>2. Len(FilesOf(rows)[row.source]) = ReadOf(row.source)
  BY <1>1 DEF IndexInv, IndexRows
<1>. DEFINE x == Given(rows, row)
<1>3. /\ x.record = ReadOf(row.source) /\ x.dataset = Owner(row.source)
      /\ x.uid = CaseUid(x.dataset, row.scenario, row.id, row.locale)
  BY <1>2 DEF Given, IndexRow
<1>4. ASSUME /\ row.record = ReadOf(row.source) /\ row.dataset = Owner(row.source)
             /\ row.uid = CaseUid(row.dataset, row.scenario, row.id, row.locale)
      PROVE  row = x
  <2>1. row = [source |-> row.source, record |-> row.record, dataset |-> row.dataset, id |-> row.id,
               scenario |-> row.scenario, locale |-> row.locale,
               scenarioUid |-> row.scenarioUid, uid |-> row.uid]
    BY <1>1 DEF IndexRows
  <2>2. x = [source |-> row.source, record |-> row.record, dataset |-> row.dataset, id |-> row.id,
             scenario |-> row.scenario, locale |-> row.locale,
             scenarioUid |-> ScenarioUid(row.dataset, row.scenario),
             uid |-> CaseUid(row.dataset, row.scenario, row.id, row.locale)]
    BY <1>2, <1>4, Zenon DEF Given, IndexRow
  <2>. QED
    BY <1>1, <1>4, <2>1, <2>2, Zenon
<1>. QED
  BY <1>3, <1>4

LEMMA Lexicographic ==
    ASSUME NEW s \in Nat, NEW t \in Nat, NEW m \in Nat \ {0}, NEW k \in 0 .. m - 1, NEW l \in 0 .. m - 1
    PROVE  s * m + k > t * m + l <=> (s > t \/ (s = t /\ k > l))
OBVIOUS

LEMMA LastRead ==
    ASSUME IndexInv, rows # <<>>
    PROVE  /\ Last(rows) \in SubmittedRows
           /\ Last(rows).record = ReadOf(Last(rows).source) - 1
           /\ \A i \in DOMAIN rows : rows[i].source <= Last(rows).source
<1>1. rows \in Seq(SubmittedRows) /\ IndexOf(FilesOf(rows)) = rows
  BY DEF IndexInv
<1>2. Last(rows) = rows[Len(rows)] /\ Last(rows) \in SubmittedRows
  BY <1>1 DEF Last
<1>3. \A s \in SourceOrdinals : FilesOf(rows)[s] \in Seq(SubmittedRows)
  BY <1>1, <1>2, FilesGrow
<1>4. PICK s \in SourceOrdinals : EndsWith(FilesOf(rows), rows, s)
  BY <1>1, <1>3, LastRow
<1>5. Last(rows) = Row(FilesOf(rows), s, Len(FilesOf(rows)[s])) /\ Len(FilesOf(rows)[s]) = ReadOf(s)
  BY <1>2, <1>4 DEF EndsWith, IndexInv
<1>6. Last(rows).source = s /\ Last(rows).record = ReadOf(s) - 1
  BY <1>5 DEF Row, IndexRow
<1>. QED
  BY <1>2, <1>4, <1>6 DEF EndsWith

(* One rule written twice: each row against those before it, and the whole     *)
(* index against the one that the materializer makes of the same files.        *)
LEMMA RulesAgree ==
    ASSUME IndexInv, NEW row \in SubmittedRows
    PROVE  Agrees(row) <=> IsMaterialized(Append(rows, row))
<1>. DEFINE more == Append(rows, row)
<1>1. /\ rows \in Seq(SubmittedRows) /\ IsConsistent(rows) /\ IndexOf(FilesOf(rows)) = rows
      /\ more \in Seq(SubmittedRows)
  BY DEF IndexInv
<1>2. row.source \in SourceOrdinals /\ row.record \in 0 .. MaxRecords - 1 /\ row.source \in Nat
  BY RowIs, SourcesIs DEF IndexRows
<1>3. row.scenarioUid = ScenarioUid(row.dataset, row.scenario)
  BY RowIs
<1>4. \A i \in DOMAIN rows : rows[i] \in SubmittedRows /\ rows[i].source \in Nat
                              /\ rows[i].record \in 0 .. MaxRecords - 1
  <2>1. \A r \in SubmittedRows : r.source \in Nat /\ r.record \in 0 .. MaxRecords - 1
    BY RowIs, SourcesIs DEF IndexRows
  <2>. QED
    BY <1>1, <2>1
<1>5. rows # <<>> => /\ Last(rows).source \in Nat /\ Last(rows).record \in 0 .. MaxRecords - 1
                     /\ Len(rows) \in DOMAIN rows /\ Last(rows) = rows[Len(rows)]
  BY <1>1, <1>4 DEF Last
<1>6. rows # <<>> =>
        (Position(row) > Position(Last(rows)) <=>
           \/ row.source > Last(rows).source
           \/ row.source = Last(rows).source /\ row.record > Last(rows).record)
  BY <1>2, <1>5, SourcesIs, Lexicographic DEF Position
<1>7. IsConsistent(more) <=>
        /\ row.id.suffix = row.locale
        /\ \A i \in DOMAIN rows :
             /\ rows[i].id # row.id /\ rows[i].uid # row.uid
             /\ <<Group(rows[i]), rows[i].locale>> # <<Group(row), row.locale>>
             /\ rows[i].scenarioUid = row.scenarioUid => Group(rows[i]) = Group(row)
  BY <1>1, ConsistentMore
<1>8. ASSUME Agrees(row) PROVE IsMaterialized(more)
  <2>1. /\ HasOwners /\ row.record = ReadOf(row.source) /\ row.dataset = Owner(row.source)
        /\ row.uid = CaseUid(row.dataset, row.scenario, row.id, row.locale)
        /\ rows # <<>> => Position(row) > Position(Last(rows))
    BY <1>8, Zenon DEF Agrees
  <2>2. IsConsistent(more)
    BY <1>7, <1>8 DEF Agrees
  <2>3. row = Given(rows, row)
    BY <2>1, GivenIs
  <2>4. ASSUME NEW i \in DOMAIN rows PROVE rows[i].source \in Nat /\ rows[i].source <= row.source
    <3>1. rows # <<>>
      BY <1>1
    <3>2. Last(rows).source <= row.source
      BY <1>2, <1>5, <1>6, <2>1, <3>1
    <3>3. rows[i].source <= Last(rows).source /\ rows[i].source \in Nat
      BY <1>4, <3>1, LastRead
    <3>. QED
      BY <1>2, <1>5, <3>1, <3>2, <3>3
  <2>5. IndexOf(FilesOf(more)) = Append(IndexOf(FilesOf(rows)), Given(rows, row))
    BY <1>1, <1>2, <2>4, IndexGrows
  <2>. QED
    BY <1>1, <2>1, <2>2, <2>3, <2>5, Zenon DEF IsMaterialized
<1>9. ASSUME IsMaterialized(more) PROVE Agrees(row)
  <2>1. HasOwners /\ IsConsistent(more) /\ IndexOf(FilesOf(more)) = more
    BY <1>9, Zenon DEF IsMaterialized
  <2>2. row = Given(rows, row) /\ \A i \in DOMAIN rows : rows[i].source <= row.source
    BY <1>1, <2>1, LastIsGiven
  <2>3. /\ row.record = ReadOf(row.source) /\ row.dataset = Owner(row.source)
        /\ row.uid = CaseUid(row.dataset, row.scenario, row.id, row.locale)
    BY <2>2, GivenIs
  <2>4. ASSUME rows # <<>> PROVE Position(row) > Position(Last(rows))
    <3>1. Last(rows).source <= row.source
      BY <1>5, <2>2, <2>4
    <3>2. Last(rows).source = row.source => row.record > Last(rows).record
      <4>1. Last(rows).record = ReadOf(Last(rows).source) - 1
        BY <2>4, LastRead
      <4>. QED
        BY <1>2, <2>3, <4>1
    <3>. QED
      BY <1>2, <1>5, <1>6, <2>4, <3>1, <3>2
  <2>5. \A i \in DOMAIN rows : /\ rows[i].id # row.id /\ rows[i].uid # row.uid
                               /\ rows[i].scenarioUid = row.scenarioUid => Group(rows[i]) = Group(row)
                               /\ Group(rows[i]) = Group(row) => rows[i].locale # row.locale
    BY <1>7, <2>1
  <2>6. row.id.suffix = row.locale
    BY <1>7, <2>1
  <2>. QED
    BY <1>3, <2>1, <2>3, <2>4, <2>5, <2>6, Zenon DEF Agrees
<1>. QED
  BY <1>8, <1>9

LEMMA IndexAtFirst ==
    ASSUME rows = <<>>
    PROVE  IndexInv
<1>1. rows \in Seq(SubmittedRows) /\ DOMAIN rows = {} /\ Len(rows) = 0
  OBVIOUS
<1>2. IsConsistent(rows)
  BY <1>1 DEF IsConsistent
<1>3. \A s \in SourceOrdinals : FilesOf(rows)[s] = <<>>
  BY <1>1, FilesOfOthers
<1>4. IndexOf(FilesOf(rows)) = <<>>
  <2>. DEFINE files == FilesOf(rows)
  <2>0. <<>> \in Seq(SubmittedRows) /\ Len(<<>>) = 0
    OBVIOUS
  <2>1. \A s \in SourceOrdinals : files[s] \in Seq(SubmittedRows) /\ Len(files[s]) = 0
    BY <1>3, <2>0, Zenon
  <2>. HIDE DEF files
  <2>2. ASSUME IndexOf(files) # <<>> PROVE FALSE
    <3>1. PICK s \in SourceOrdinals : EndsWith(files, IndexOf(files), s)
      BY <2>1, <2>2, LastRow
    <3>. QED
      BY <2>1, <3>1 DEF EndsWith
  <2>. QED
    BY <2>2 DEF files
<1>5. \A s \in SourceOrdinals : ReadOf(s) = 0
  BY <1>1, FS_EmptySet DEF ReadOf
<1>. QED
  BY <1>1, <1>2, <1>3, <1>4, <1>5 DEF IndexInv

(* IndexOf, as a function of the manifest too.                                 *)
IndexWith(owners, files) ==
    FlattenSeq([i \in 1 .. Sources |->
        [k \in DOMAIN files[i - 1] |->
            LET case == files[i - 1][k]
            IN  IndexRow(i - 1, k - 1, CHOOSE d \in Datasets : i - 1 \in owners[d],
                         case.id, case.scenario, case.locale)]])

LEMMA IndexStep ==
    ASSUME IndexInv, NEW row \in SubmittedRows, ReadRow(row)
    PROVE  IndexInv'
<1>1. rows' = Append(rows, row) /\ rows \in Seq(SubmittedRows) /\ UNCHANGED owned
  BY DEF ReadRow, IndexInv
<1>2. IsMaterialized(Append(rows, row))
  BY RulesAgree DEF ReadRow
<1>3. rows' \in Seq(SubmittedRows)
  BY <1>1
<1>4. IsConsistent(rows') /\ IndexOf(FilesOf(Append(rows, row))) = Append(rows, row)
  BY <1>1, <1>2 DEF IsMaterialized
<1>5. (IndexOf(FilesOf(rows)))' = rows'
  <2>1. /\ (IndexOf(FilesOf(rows)))' = IndexWith(owned', (FilesOf(rows))')
        /\ IndexOf(FilesOf(rows')) = IndexWith(owned, FilesOf(rows'))
    BY Zenon DEF IndexOf, IndexWith, Owner
  <2>2. (FilesOf(rows))' = FilesOf(rows') /\ owned' = owned
    BY <1>1, Zenon DEF FilesOf
  <2>. QED
    BY <1>1, <1>4, <2>1, <2>2
<1>6. ASSUME NEW s \in SourceOrdinals PROVE Len(FilesOf(rows')[s]) = ReadOf(s)'
  <2>. DEFINE Of(index) == { i \in DOMAIN index : index[i].source = s }
              n == Len(rows) + 1
  <2>1. /\ FilesOf(rows')[s] = IF row.source = s THEN Append(FilesOf(rows)[s], row)
                               ELSE FilesOf(rows)[s]
        /\ FilesOf(rows)[s] \in Seq(SubmittedRows)
    BY <1>1, FilesGrow
  <2>2. Len(FilesOf(rows)[s]) = Cardinality(Of(rows)) /\ ReadOf(s)' = Cardinality(Of(rows'))
    BY DEF IndexInv, ReadOf
  <2>3. /\ DOMAIN rows = 1 .. Len(rows) /\ DOMAIN rows' = 1 .. n /\ rows'[n] = row /\ Len(rows) \in Nat
        /\ \A i \in 1 .. Len(rows) : rows'[i] = rows[i]
    BY <1>1
  <2>4. n \notin Of(rows) /\ IsFiniteSet(Of(rows))
    <3>0. 1 \in Int /\ Len(rows) \in Int
      BY <2>3
    <3>1. IsFiniteSet(1 .. Len(rows)) /\ Of(rows) \subseteq 1 .. Len(rows)
      BY <2>3, <3>0, FS_Interval
    <3>2. IsFiniteSet(Of(rows))
      BY <3>1, FS_Subset
    <3>. QED
      BY <2>3, <3>2
  <2>5. CASE row.source = s
    <3>1. Of(rows') = Of(rows) \cup {n}
      BY <2>3, <2>5
    <3>. HIDE DEF Of, n
    <3>2. Cardinality(Of(rows')) = Cardinality(Of(rows)) + 1
      BY <2>4, <3>1, FS_AddElement
    <3>3. Len(Append(FilesOf(rows)[s], row)) = Len(FilesOf(rows)[s]) + 1
      BY <2>1
    <3>. QED
      BY <2>1, <2>2, <2>5, <3>2, <3>3
  <2>6. CASE row.source # s
    <3>1. Of(rows') = Of(rows)
      BY <2>3, <2>6
    <3>. QED
      BY <2>1, <2>2, <2>6, <3>1
  <2>. QED
    BY <2>5, <2>6
<1>7. \A s \in SourceOrdinals : (FilesOf(rows)[s])' = FilesOf(rows')[s]
  BY Zenon DEF FilesOf
<1>. QED
  BY <1>3, <1>4, <1>5, <1>6, <1>7, Zenon DEF IndexInv

-----------------------------------------------------------------------------
(* CapsulePlanning: the blocks of the plan                                     *)

ArmCount == Cardinality(Arms)
BlockNo(k) == <<rows[k \div Repetitions + 1].uid, k % Repetitions>>
InBlock(i) == (i - 1) \div ArmCount

Uids == (Datasets \X Scenarios) \X CaseIds \X Locales
PlanEntries ==
    [ordinal : Nat, block : Uids \X Nat, uid : Uids, repetition : Nat, arm : Arms, position : Nat]

(* Before the last block every block is whole.                                 *)
PlanInv ==
    /\ pc \in {"reading", "planning", "planned", "rejected"} /\ plan \in Seq(PlanEntries)
    /\ Len(plan) = Current * ArmCount /\ Current <= Len(rows) * Repetitions
    /\ \A i \in DOMAIN plan :
         /\ plan[i].ordinal = i - 1 /\ plan[i].block = BlockNo(InBlock(i))
         /\ plan[i].block = <<plan[i].uid, plan[i].repetition>>
    /\ \A k \in 0 .. Current - 1, arm \in Arms :
         \E i \in DOMAIN plan : InBlock(i) = k /\ plan[i].arm = arm
    /\ pc = "reading" => plan = <<>>
    /\ pc \in {"planning", "planned"} => IsComplete /\ Fits
    /\ pc = "planned" => Len(plan) = Cardinal
    /\ pc = "rejected" => ~(IsComplete /\ Fits)

LEMMA ArmCountIs == ArmCount \in Nat \ {0}
BY SourcesIs, FS_CardinalityType, FS_EmptySet DEF ArmCount

LEMMA DivIs ==
    ASSUME NEW n \in Nat, NEW r \in Nat \ {0}
    PROVE  /\ n \div r \in Nat /\ n % r \in 0 .. r - 1
           /\ n = (n \div r) * r + (n % r)
OBVIOUS

LEMMA Divided ==
    ASSUME NEW q \in Nat, NEW r \in Nat \ {0}, NEW m \in 0 .. r - 1
    PROVE  (q * r + m) \div r = q /\ (q * r + m) % r = m
OBVIOUS

LEMMA DivBelow ==
    ASSUME NEW n \in Nat, NEW r \in Nat \ {0}, NEW q \in Nat
    PROVE  n < q * r <=> n \div r < q
<1>1. n \div r \in Nat /\ n % r \in 0 .. r - 1 /\ n = (n \div r) * r + (n % r)
  BY DivIs
<1>. DEFINE d == n \div r
            m == n % r
<1>. HIDE DEF d, m
<1>2. d \in Nat /\ m \in 0 .. r - 1 /\ n = d * r + m
  BY <1>1 DEF d, m
<1>3. ASSUME d < q PROVE n < q * r
  <2>1. (d + 1) * r <= q * r
    BY <1>2, <1>3
  <2>2. (d + 1) * r = d * r + r
    BY <1>2
  <2>3. d * r \in Nat /\ q * r \in Nat
    BY <1>2
  <2>. QED
    BY <1>2, <2>1, <2>2, <2>3
<1>4. ASSUME ~(d < q) PROVE ~(n < q * r)
  <2>1. q * r <= d * r
    BY <1>2, <1>4
  <2>3. d * r \in Nat /\ q * r \in Nat
    BY <1>2
  <2>. QED
    BY <1>2, <2>1, <2>3
<1>. QED
  BY <1>3, <1>4 DEF d

(* Blocks differ: no two cases have one identifier.                            *)
LEMMA BlocksDiffer ==
    ASSUME IndexInv, NEW j \in Nat, NEW k \in Nat, j < Len(rows) * Repetitions,
           k < Len(rows) * Repetitions, BlockNo(j) = BlockNo(k)
    PROVE  j = k
<1>. DEFINE x == j \div Repetitions
            y == k \div Repetitions
<1>1. Repetitions \in Nat \ {0} /\ Len(rows) \in Nat /\ rows \in Seq(SubmittedRows)
  BY SourcesIs DEF IndexInv
<1>2. /\ x \in Nat /\ y \in Nat /\ x < Len(rows) /\ y < Len(rows)
      /\ j = x * Repetitions + (j % Repetitions) /\ k = y * Repetitions + (k % Repetitions)
  BY <1>1, DivIs, DivBelow
<1>3. rows[x + 1].uid = rows[y + 1].uid /\ j % Repetitions = k % Repetitions
  BY DEF BlockNo
<1>. HIDE DEF x, y
<1>4. x + 1 \in DOMAIN rows /\ y + 1 \in DOMAIN rows
  BY <1>1, <1>2
<1>5. \A p, q \in DOMAIN rows : p < q => rows[p].uid # rows[q].uid
  BY DEF IndexInv, IsConsistent
<1>6. x = y
  BY <1>2, <1>3, <1>4, <1>5
<1>. QED
  BY <1>2, <1>3, <1>6

(* A sequence that repeats no arm has them all.                                *)
LEMMA EveryArm ==
    ASSUME NEW order \in SetToSeqs(Arms)
    PROVE  order \in [1 .. ArmCount -> Arms] /\ \A arm \in Arms : \E i \in 1 .. ArmCount : order[i] = arm
<1>1. order \in [1 .. ArmCount -> Arms] /\ \A i, j \in 1 .. ArmCount : i # j => order[i] # order[j]
  BY DEF SetToSeqs, ArmCount
<1>2. ASSUME NEW arm \in Arms, \A i \in 1 .. ArmCount : order[i] # arm PROVE FALSE
  <2>. DEFINE T == Arms \ {arm}
              S == 1 .. ArmCount
  <2>1. order \in [S -> T]
    BY <1>1, <1>2
  <2>2. IsFiniteSet(T) /\ Cardinality(T) = ArmCount - 1
    BY SourcesIs, FS_RemoveElement DEF ArmCount
  <2>3. IsFiniteSet(S) /\ Cardinality(S) = ArmCount
    <3>1. 1 \in Int /\ ArmCount \in Int /\ ~(1 > ArmCount) /\ ArmCount - 1 + 1 = ArmCount
      BY ArmCountIs
    <3>. QED
      BY <3>1, FS_Interval
  <2>. HIDE DEF S, T
  <2>4. Cardinality(T) < Cardinality(S)
    BY <2>2, <2>3, ArmCountIs
  <2>5. \E i, j \in S : i # j /\ order[i] = order[j]
    BY <2>1, <2>2, <2>3, <2>4, FS_PigeonHole
  <2>. QED
    BY <1>1, <2>5 DEF S
<1>. QED
  BY <1>1, <1>2

(* The next block is one the plan does not have yet.                           *)
LEMMA NextBlock ==
    ASSUME IndexInv, PlanInv, pc = "planning", Len(plan) < Cardinal
    PROVE  /\ Current \in Nat /\ Current < Len(rows) * Repetitions
           /\ CurrentCase \in SubmittedRows
           /\ BlockId(CurrentCase.uid, Repetition) = BlockNo(Current)
           /\ BlockNo(Current) \notin Blocks
<1>1. /\ Repetitions \in Nat \ {0} /\ Len(rows) \in Nat /\ rows \in Seq(SubmittedRows)
      /\ ArmCount \in Nat \ {0} /\ Len(plan) \in Nat /\ plan \in Seq(PlanEntries)
  BY SourcesIs, ArmCountIs DEF IndexInv, PlanInv
<1>. DEFINE all == Len(rows) * Repetitions
<1>2. all \in Nat
  BY <1>1
<1>3. Current = Len(plan) \div ArmCount /\ Cardinal = all * ArmCount
  BY DEF Current, Cardinal, ArmCount
<1>. HIDE DEF all
<1>4. Current \in Nat /\ Current < all
  BY <1>1, <1>2, <1>3, DivIs, DivBelow
<1>5. Current \div Repetitions \in Nat /\ Current \div Repetitions < Len(rows)
  BY <1>1, <1>4, DivIs, DivBelow DEF all
<1>6. CurrentCase \in SubmittedRows
  BY <1>1, <1>5 DEF CurrentCase
<1>7. BlockId(CurrentCase.uid, Repetition) = BlockNo(Current)
  BY Zenon DEF BlockId, CurrentCase, Repetition, BlockNo
<1>8. ASSUME BlockNo(Current) \in Blocks PROVE FALSE
  <2>1. PICK i \in DOMAIN plan : plan[i].block = BlockNo(Current)
    BY <1>8 DEF Blocks
  <2>2. i - 1 \in Nat /\ i - 1 < Len(plan) /\ Len(plan) = Current * ArmCount
    BY <1>1 DEF PlanInv
  <2>3. InBlock(i) \in Nat /\ InBlock(i) < Current
    BY <1>1, <1>4, <2>2, DivIs, DivBelow DEF InBlock
  <2>4. BlockNo(InBlock(i)) = BlockNo(Current)
    BY <2>1 DEF PlanInv
  <2>5. InBlock(i) < Len(rows) * Repetitions /\ Current < Len(rows) * Repetitions
    BY <1>2, <1>4, <2>3 DEF all
  <2>. QED
    BY <1>4, <2>3, <2>4, <2>5, BlocksDiffer
<1>. QED
  BY <1>4, <1>6, <1>7, <1>8 DEF all

Added(order) ==
    [i \in DOMAIN order |->
        [ordinal |-> Len(plan) + i - 1, block |-> BlockNo(Current),
         uid |-> CurrentCase.uid, repetition |-> Repetition,
         arm |-> order[i], position |-> i - 1]]

LEMMA BlockStep ==
    ASSUME IndexInv, PlanInv, PlanBlock
    PROVE  PlanInv'
<1>1. pc = "planning" /\ Len(plan) < Cardinal /\ UNCHANGED <<owned, rows>>
  BY DEF PlanBlock
<1>2. /\ Current \in Nat /\ Current < Len(rows) * Repetitions /\ CurrentCase \in SubmittedRows
      /\ BlockId(CurrentCase.uid, Repetition) = BlockNo(Current) /\ BlockNo(Current) \notin Blocks
  BY <1>1, NextBlock
<1>3. PICK order \in SetToSeqs(Arms) : plan' = plan \o Added(order) /\ pc' = pc
  <2>1. UNCHANGED pc /\ \E order \in SetToSeqs(Arms) : plan' = plan \o Added(order)
    BY <1>2, Zenon DEF PlanBlock, Added
  <2>. QED
    BY <2>1
<1>. DEFINE k == Current
            n == Len(plan)
            t == Added(order)
<1>4. /\ ArmCount \in Nat \ {0} /\ k \in Nat /\ n = k * ArmCount /\ n \in Nat /\ plan \in Seq(PlanEntries)
      /\ Repetitions \in Nat \ {0} /\ DOMAIN plan = 1 .. n /\ Len(rows) \in Nat
  BY <1>2, ArmCountIs, SourcesIs DEF PlanInv, IndexInv
<1>5. /\ order \in [1 .. ArmCount -> Arms] /\ DOMAIN order = 1 .. ArmCount
      /\ \A arm \in Arms : \E i \in 1 .. ArmCount : order[i] = arm
  BY EveryArm
<1>6. CurrentCase.uid \in Uids /\ Repetition \in Nat /\ BlockNo(k) = <<CurrentCase.uid, Repetition>>
  <2>1. CurrentCase.uid \in Uids
    BY <1>2, RowIs DEF IndexRows, Uids
  <2>2. Repetition \in Nat
    BY <1>4, DivIs DEF Repetition
  <2>. QED
    BY <1>2, <2>1, <2>2 DEF BlockId
<1>7. /\ t \in Seq(PlanEntries) /\ Len(t) = ArmCount
      /\ \A i \in 1 .. ArmCount : /\ t[i].ordinal = n + i - 1 /\ t[i].block = BlockNo(k)
                               /\ t[i].uid = CurrentCase.uid /\ t[i].repetition = Repetition
                               /\ t[i].arm = order[i]
  <2>1. t = [i \in 1 .. ArmCount |->
               [ordinal |-> n + i - 1, block |-> BlockNo(k), uid |-> CurrentCase.uid,
                repetition |-> Repetition, arm |-> order[i], position |-> i - 1]]
    BY <1>5 DEF Added
  <2>2. BlockNo(k) \in Uids \X Nat
    BY <1>6
  <2>. HIDE DEF t, n, k
  <2>3. \A i \in 1 .. ArmCount : n + i - 1 \in Nat /\ i - 1 \in Nat
    BY <1>4
  <2>4. t \in [1 .. ArmCount -> PlanEntries]
    BY <1>5, <1>6, <2>1, <2>2, <2>3 DEF PlanEntries
  <2>5. t \in Seq(PlanEntries) /\ Len(t) = ArmCount
    BY <1>4, <2>4, SequenceIs
  <2>6. \A i \in 1 .. ArmCount : /\ t[i].ordinal = n + i - 1 /\ t[i].block = BlockNo(k)
                              /\ t[i].uid = CurrentCase.uid /\ t[i].repetition = Repetition
                              /\ t[i].arm = order[i]
    BY <2>1
  <2>. QED
    BY <2>5, <2>6
<1>8. /\ plan' \in Seq(PlanEntries) /\ Len(plan') = n + ArmCount /\ DOMAIN plan' = 1 .. n + ArmCount
      /\ \A i \in 1 .. n : plan'[i] = plan[i]
      /\ \A i \in 1 .. ArmCount : plan'[n + i] = t[i]
  <2>. HIDE DEF t
  <2>1. t # <<>>
    BY <1>4, <1>7
  <2>2. t \in Seq(PlanEntries) /\ plan \in Seq(PlanEntries)
    BY <1>4, <1>7
  <2>3. /\ plan \o t \in Seq(PlanEntries) /\ Len(plan \o t) = Len(plan) + Len(t)
        /\ \A i \in 1 .. Len(plan) : (plan \o t)[i] = plan[i]
        /\ \A i \in 1 .. Len(t) : (plan \o t)[Len(plan) + i] = t[i]
        /\ DOMAIN (plan \o t) = 1 .. Len(plan) + Len(t)
    BY <2>1, <2>2, JoinIs
  <2>4. plan \o t = plan' /\ Len(t) = ArmCount
    BY <1>3, <1>7 DEF t
  <2>. HIDE DEF n
  <2>. QED
    BY <2>3, <2>4 DEF n
<1>. HIDE DEF t
<1>9. Current' = k + 1 /\ Len(plan') = (k + 1) * ArmCount
  <2>1. Len(plan') = (k + 1) * ArmCount /\ k + 1 \in Nat /\ 0 \in 0 .. ArmCount - 1
    BY <1>4, <1>8
  <2>2. Current' = Len(plan') \div ArmCount
    BY DEF Current, ArmCount
  <2>3. ((k + 1) * ArmCount + 0) \div ArmCount = k + 1
    BY <1>4, <2>1, Divided
  <2>4. (k + 1) * ArmCount + 0 = (k + 1) * ArmCount
    BY <1>4
  <2>. QED
    BY <2>1, <2>2, <2>3, <2>4
<1>10. ASSUME NEW i \in 1 .. ArmCount PROVE InBlock(n + i) = k
  <2>1. i - 1 \in 0 .. ArmCount - 1 /\ (n + i) - 1 = k * ArmCount + (i - 1)
    BY <1>4
  <2>2. (k * ArmCount + (i - 1)) \div ArmCount = k
    BY <1>4, <2>1, Divided
  <2>. QED
    BY <2>1, <2>2 DEF InBlock
<1>11. \A i : BlockNo(i)' = BlockNo(i) /\ InBlock(i)' = InBlock(i)
  BY <1>1 DEF BlockNo, InBlock, ArmCount
<1>12. ASSUME NEW i \in 1 .. n + ArmCount
       PROVE  /\ plan'[i].ordinal = i - 1 /\ plan'[i].block = BlockNo(InBlock(i))
              /\ plan'[i].block = <<plan'[i].uid, plan'[i].repetition>>
  <2>1. CASE i \in 1 .. n
    BY <1>4, <1>8, <2>1 DEF PlanInv
  <2>2. CASE i \notin 1 .. n
    <3>1. i - n \in 1 .. ArmCount /\ n + (i - n) = i
      BY <1>4, <2>2
    <3>2. plan'[i] = t[i - n] /\ InBlock(i) = k
      BY <1>8, <1>10, <3>1
    <3>3. t[i - n].ordinal = n + (i - n) - 1
      BY <1>7, <3>1
    <3>4. plan'[i].ordinal = i - 1
      BY <1>4, <3>1, <3>2, <3>3
    <3>. QED
      BY <1>6, <1>7, <3>1, <3>2, <3>4
  <2>. QED
    BY <2>1, <2>2
<1>13. ASSUME NEW j \in 0 .. (k + 1) - 1, NEW arm \in Arms
       PROVE  \E i \in 1 .. n + ArmCount : InBlock(i) = j /\ plan'[i].arm = arm
  <2>1. CASE j = k
    <3>1. PICK i \in 1 .. ArmCount : order[i] = arm
      BY <1>5
    <3>2. n + i \in 1 .. n + ArmCount
      BY <1>4, <3>1
    <3>3. plan'[n + i].arm = arm
      BY <1>7, <1>8, <3>1
    <3>4. InBlock(n + i) = k
      BY <1>10, <3>1
    <3>. HIDE DEF n, k
    <3>. QED
      BY <2>1, <3>2, <3>3, <3>4
  <2>2. CASE j # k
    <3>1. j \in 0 .. k - 1
      BY <1>4, <2>2
    <3>2. PICK i \in DOMAIN plan : InBlock(i) = j /\ plan[i].arm = arm
      BY <3>1 DEF PlanInv
    <3>3. i \in 1 .. n + ArmCount /\ plan'[i] = plan[i]
      BY <1>4, <1>8, <3>2
    <3>. QED
      BY <3>2, <3>3
  <2>. QED
    BY <2>1, <2>2
<1>14. k + 1 <= Len(rows') * Repetitions
  BY <1>1, <1>2, <1>4
<1>15. (IsComplete' <=> IsComplete) /\ (Fits' <=> Fits)
  BY <1>1 DEF IsComplete, EveryScenarioIsTranslated, LocalesOf, Group, Fits, Cardinal
<1>16. pc' = "planning" /\ IsComplete' /\ Fits'
  BY <1>1, <1>3, <1>15 DEF PlanInv
<1>. HIDE DEF k, n
<1>17. \A i \in DOMAIN plan' : /\ plan'[i].ordinal = i - 1 /\ plan'[i].block = BlockNo(InBlock(i))'
                               /\ plan'[i].block = <<plan'[i].uid, plan'[i].repetition>>
  BY <1>8, <1>11, <1>12 DEF BlockNo, InBlock, ArmCount
<1>18. \A j \in 0 .. Current' - 1, arm \in Arms :
          \E i \in DOMAIN plan' : InBlock(i)' = j /\ plan'[i].arm = arm
  BY <1>8, <1>9, <1>11, <1>13
<1>. QED
  BY <1>8, <1>9, <1>14, <1>16, <1>17, <1>18 DEF PlanInv, ArmCount

LEMMA PlanAtFirst ==
    ASSUME Init
    PROVE  IndexInv /\ PlanInv
<1>1. rows = <<>> /\ plan = <<>> /\ pc = "reading" /\ Len(plan) = 0 /\ Len(rows) = 0 /\ DOMAIN plan = {}
  BY DEF Init
<1>2. IndexInv
  BY <1>1, IndexAtFirst
<1>3. Current = 0
  <2>1. 0 = 0 * ArmCount + 0 /\ 0 \in 0 .. ArmCount - 1
    BY ArmCountIs
  <2>2. (0 * ArmCount + 0) \div ArmCount = 0
    BY <2>1, ArmCountIs, Divided
  <2>3. 0 \div ArmCount = 0
    BY <2>1, <2>2
  <2>. QED
    BY <1>1, <2>3 DEF Current, ArmCount
<1>4. 0 * ArmCount = 0 /\ 0 * Repetitions = 0
  BY ArmCountIs, SourcesIs
<1>5. plan \in Seq(PlanEntries)
  BY <1>1
<1>6. Len(plan) = Current * ArmCount /\ Current <= Len(rows) * Repetitions
  BY <1>1, <1>3, <1>4
<1>7. 0 .. Current - 1 = {}
  BY <1>3
<1>. QED
  BY <1>1, <1>2, <1>5, <1>6, <1>7 DEF PlanInv

LEMMA PlanReads ==
    ASSUME PlanInv, NEW row \in SubmittedRows, ReadRow(row), IndexInv
    PROVE  PlanInv'
<1>1. pc' = "reading" /\ plan' = <<>> /\ Len(plan') = 0 /\ DOMAIN plan' = {} /\ Len(rows') \in Nat
  BY DEF ReadRow, PlanInv, IndexInv
<1>2. Current = 0 /\ Current' = Current
  <2>1. plan = <<>> /\ plan' = plan
    BY DEF ReadRow, PlanInv
  <2>2. Current' = Current
    BY <2>1 DEF Current
  <2>3. Current \in Nat /\ Current * ArmCount = 0
    BY <2>1, ArmCountIs, DivIs DEF PlanInv, Current, ArmCount
  <2>. QED
    BY <2>2, <2>3, ArmCountIs
<1>3. 0 <= Len(rows') * Repetitions /\ 0 * ArmCount = 0
  BY <1>1, SourcesIs, ArmCountIs
<1>4. plan' \in Seq(PlanEntries)
  BY <1>1
<1>5. Len(plan') = Current' * ArmCount /\ Current' <= Len(rows') * Repetitions
  BY <1>1, <1>2, <1>3
<1>6. 0 .. Current' - 1 = {}
  BY <1>2
<1>. QED
  BY <1>1, <1>4, <1>5, <1>6 DEF PlanInv, ArmCount

LEMMA PlanRests ==
    ASSUME PlanInv, UNCHANGED <<rows, plan>>
    PROVE  /\ plan' \in Seq(PlanEntries)
           /\ Len(plan') = Current' * ArmCount /\ Current' <= Len(rows') * Repetitions
           /\ \A i \in DOMAIN plan' : /\ plan'[i].ordinal = i - 1 /\ plan'[i].block = BlockNo(InBlock(i))'
                                      /\ plan'[i].block = <<plan'[i].uid, plan'[i].repetition>>
           /\ \A k \in 0 .. Current' - 1, arm \in Arms :
                 \E i \in DOMAIN plan' : InBlock(i)' = k /\ plan'[i].arm = arm
           /\ (IsComplete' <=> IsComplete) /\ (Fits' <=> Fits) /\ Cardinal' = Cardinal
<1>1. Current' = Current /\ \A i : BlockNo(InBlock(i))' = BlockNo(InBlock(i)) /\ InBlock(i)' = InBlock(i)
  BY DEF Current, BlockNo, InBlock, ArmCount
<1>2. (IsComplete' <=> IsComplete) /\ (Fits' <=> Fits) /\ Cardinal' = Cardinal
  BY DEF IsComplete, EveryScenarioIsTranslated, LocalesOf, Group, Fits, Cardinal
<1>. QED
  BY <1>1, <1>2 DEF PlanInv

LEMMA IndexRests ==
    ASSUME IndexInv, UNCHANGED <<owned, rows>>
    PROVE  IndexInv'
<1>1. /\ (IndexOf(FilesOf(rows)))' = IndexWith(owned', (FilesOf(rows))')
      /\ IndexOf(FilesOf(rows)) = IndexWith(owned, FilesOf(rows))
  BY Zenon DEF IndexOf, IndexWith, Owner
<1>2. (FilesOf(rows))' = FilesOf(rows') /\ \A s : ReadOf(s)' = ReadOf(s)
  BY DEF FilesOf, ReadOf
<1>3. (IndexOf(FilesOf(rows)))' = IndexOf(FilesOf(rows))
  BY <1>1, <1>2
<1>4. (IsConsistent(rows))' = IsConsistent(rows)
  BY DEF IsConsistent, Group
<1>. QED
  BY <1>2, <1>3, <1>4 DEF IndexInv

LEMMA PlanSteps ==
    ASSUME IndexInv, PlanInv, Next \/ UNCHANGED <<owned, rows, plan, pc>>
    PROVE  IndexInv' /\ PlanInv'
<1>1. ASSUME NEW row \in SubmittedRows, ReadRow(row) PROVE IndexInv' /\ PlanInv'
  BY <1>1, IndexStep, PlanReads
<1>2. CASE EndRows
  <2>1. /\ UNCHANGED <<owned, rows, plan>> /\ pc' \in {"planning", "rejected"}
        /\ pc' = IF IsComplete /\ Fits THEN "planning" ELSE "rejected"
    BY <1>2 DEF EndRows
  <2>2. IndexInv'
    BY <2>1, IndexRests
  <2>. QED
    BY <2>1, <2>2, PlanRests DEF PlanInv
<1>3. CASE PlanBlock
  <2>1. IndexInv'
    BY <1>3, IndexRests DEF PlanBlock
  <2>. QED
    BY <1>3, <2>1, BlockStep
<1>4. CASE EndPlan
  <2>1. UNCHANGED <<owned, rows, plan>> /\ pc = "planning" /\ pc' = "planned" /\ Len(plan) = Cardinal
    BY <1>4 DEF EndPlan
  <2>2. IndexInv'
    BY <2>1, IndexRests
  <2>3. IsComplete /\ Fits
    BY <2>1 DEF PlanInv
  <2>. QED
    BY <2>1, <2>2, <2>3, PlanRests DEF PlanInv
<1>5. CASE UNCHANGED <<owned, rows, plan, pc>>
  <2>1. IndexInv'
    BY <1>5, IndexRests
  <2>. QED
    BY <1>5, <2>1, PlanRests DEF PlanInv
<1>. QED
  BY <1>1, <1>2, <1>3, <1>4, <1>5 DEF Next

-----------------------------------------------------------------------------
(* CapsulePlanning: the theorem                                                *)

(* The arms a block has among the first entries.                               *)
ArmsOf(blk, stop) ==
    { plan[i].arm : i \in { j \in 1 .. stop : plan[j].block = blk } }

LEMMA PlannedArm ==
    ASSUME NEW p \in Seq(PlanEntries)
    PROVE  \A i \in DOMAIN p : p[i].arm \in Arms
<1>1. \A e \in PlanEntries : e.arm \in Arms
  BY DEF PlanEntries
<1>2. ASSUME NEW i \in DOMAIN p PROVE p[i] \in PlanEntries
  OBVIOUS
<1>. QED
  BY <1>1, <1>2

LEMMA PartlyDone ==
    ASSUME IndexInv, PlanInv, NEW stop \in 0 .. Len(plan), NEW blk \in Blocks,
           ArmsOf(blk, stop) \notin {{}, Arms}
    PROVE  blk = BlockNo(stop \div ArmCount)
<1>1. /\ ArmCount \in Nat \ {0} /\ Len(plan) \in Nat /\ plan \in Seq(PlanEntries)
      /\ DOMAIN plan = 1 .. Len(plan) /\ Len(plan) = Current * ArmCount
      /\ Current \in Nat /\ Current <= Len(rows) * Repetitions
      /\ Len(rows) * Repetitions \in Nat
  <2>1. /\ ArmCount \in Nat \ {0} /\ Len(plan) \in Nat /\ plan \in Seq(PlanEntries)
        /\ DOMAIN plan = 1 .. Len(plan)
    BY ArmCountIs DEF PlanInv
  <2>2. Current \in Nat
    BY <2>1, DivIs DEF Current, ArmCount
  <2>3. Len(rows) \in Nat /\ Repetitions \in Nat
    BY SourcesIs DEF IndexInv
  <2>. QED
    BY <2>1, <2>2, <2>3 DEF PlanInv
<1>2. \A i \in DOMAIN plan : /\ InBlock(i) \in Nat /\ InBlock(i) < Current
                             /\ InBlock(i) < Len(rows) * Repetitions
                             /\ plan[i].block = BlockNo(InBlock(i)) /\ plan[i].arm \in Arms
  <2>1. ASSUME NEW i \in DOMAIN plan
        PROVE  InBlock(i) \in Nat /\ InBlock(i) < Current
    <3>1. i - 1 \in Nat /\ i - 1 < Current * ArmCount
      BY <1>1
    <3>. QED
      BY <1>1, <3>1, DivIs, DivBelow DEF InBlock
  <2>2. \A i \in DOMAIN plan : plan[i].arm \in Arms
    BY <1>1, PlannedArm
  <2>. QED
    BY <1>1, <2>1, <2>2 DEF PlanInv
<1>3. PICK x \in DOMAIN plan : plan[x].block = blk
  BY DEF Blocks
<1>. DEFINE k == InBlock(x)
<1>4. k \in Nat /\ k < Current /\ k < Len(rows) * Repetitions /\ blk = BlockNo(k)
  BY <1>2, <1>3
<1>. HIDE DEF k
<1>5. ASSUME NEW i \in 1 .. stop
      PROVE  i \in DOMAIN plan /\ (plan[i].block = blk <=> InBlock(i) = k)
  <2>1. i \in DOMAIN plan
    BY <1>1
  <2>. QED
    BY <1>2, <1>4, <2>1, BlocksDiffer
<1>6. stop \div ArmCount = k
  <2>1. stop \in Nat /\ (k + 1) * ArmCount = k * ArmCount + ArmCount /\ k * ArmCount \in Nat
    BY <1>1, <1>4
  <2>2. CASE stop <= k * ArmCount
    <3>1. ASSUME NEW i \in 1 .. stop PROVE InBlock(i) # k
      <4>1. i - 1 \in Nat /\ i - 1 < k * ArmCount
        BY <2>1, <2>2
      <4>2. InBlock(i) < k
        BY <1>1, <1>4, <4>1, DivBelow DEF InBlock
      <4>. QED
        BY <1>2, <1>4, <1>5, <4>2
    <3>2. ArmsOf(blk, stop) = {}
      BY <1>5, <3>1 DEF ArmsOf
    <3>. QED
      BY <3>2
  <2>3. CASE (k + 1) * ArmCount <= stop
    <3>1. ASSUME NEW arm \in Arms PROVE arm \in ArmsOf(blk, stop)
      <4>1. PICK i \in DOMAIN plan : InBlock(i) = k /\ plan[i].arm = arm
        BY <1>1, <1>4 DEF PlanInv
      <4>2. i - 1 \in Nat /\ k < k + 1 /\ k + 1 \in Nat
        BY <1>1, <1>4
      <4>3. i - 1 < (k + 1) * ArmCount
        BY <1>1, <4>1, <4>2, DivBelow DEF InBlock
      <4>4. i \in 1 .. stop
        BY <1>1, <2>1, <2>3, <4>2, <4>3
      <4>. QED
        BY <1>5, <4>1, <4>4 DEF ArmsOf
    <3>2. ArmsOf(blk, stop) \subseteq Arms
      BY <1>2, <1>5 DEF ArmsOf
    <3>3. ArmsOf(blk, stop) = Arms
      BY <3>1, <3>2
    <3>. QED
      BY <3>3
  <2>4. CASE k * ArmCount < stop /\ stop < (k + 1) * ArmCount
    <3>1. stop - k * ArmCount \in 0 .. ArmCount - 1 /\ k * ArmCount + (stop - k * ArmCount) = stop
      BY <1>1, <2>1, <2>4
    <3>2. (k * ArmCount + (stop - k * ArmCount)) \div ArmCount = k
      BY <1>1, <1>4, <3>1, Divided
    <3>. QED
      BY <3>1, <3>2
  <2>5. \/ stop <= k * ArmCount \/ (k + 1) * ArmCount <= stop
        \/ k * ArmCount < stop /\ stop < (k + 1) * ArmCount
    <3>. DEFINE low == k * ArmCount
                high == (k + 1) * ArmCount
    <3>1. low \in Nat /\ high \in Nat /\ stop \in Nat
      BY <1>1, <2>1
    <3>. HIDE DEF low, high
    <3>2. stop <= low \/ high <= stop \/ (low < stop /\ stop < high)
      BY <3>1
    <3>. QED
      BY <3>2 DEF low, high
  <2>. QED
    BY <2>2, <2>3, <2>4, <2>5, Zenon
<1>. QED
  BY <1>4, <1>6

LEMMA WholePlan ==
    ASSUME IndexInv, PlanInv, pc = "planned"
    PROVE  { <<r.uid, r.repetition, r.arm>> : r \in ToSet(plan) } =
             { rows[i].uid : i \in DOMAIN rows } \X (0 .. Repetitions - 1) \X Arms
<1>. DEFINE Cases == { rows[i].uid : i \in DOMAIN rows }
            Reps == 0 .. Repetitions - 1
            all == Len(rows) * Repetitions
<1>1. /\ ArmCount \in Nat \ {0} /\ Repetitions \in Nat \ {0} /\ Len(rows) \in Nat
      /\ DOMAIN rows = 1 .. Len(rows) /\ DOMAIN plan = 1 .. Len(plan) /\ Len(plan) \in Nat
      /\ plan \in Seq(PlanEntries)
  BY ArmCountIs, SourcesIs DEF PlanInv, IndexInv
<1>2. all \in Nat /\ Current = all
  <2>1. all \in Nat /\ Len(plan) = all * ArmCount /\ 0 \in 0 .. ArmCount - 1
    BY <1>1 DEF PlanInv, Cardinal, ArmCount
  <2>2. (all * ArmCount + 0) \div ArmCount = all
    BY <1>1, <2>1, Divided
  <2>3. all * ArmCount + 0 = Len(plan)
    BY <1>1, <2>1
  <2>. QED
    BY <2>1, <2>2, <2>3 DEF Current, ArmCount
<1>3. ASSUME NEW i \in DOMAIN plan
      PROVE  plan[i].uid \in Cases /\ plan[i].repetition \in Reps /\ plan[i].arm \in Arms
  <2>. DEFINE k == InBlock(i)
  <2>1. i - 1 \in Nat /\ i - 1 < Current * ArmCount
    BY <1>1 DEF PlanInv
  <2>2. k \in Nat /\ k < all
    BY <1>1, <1>2, <2>1, DivIs, DivBelow DEF InBlock
  <2>3. <<plan[i].uid, plan[i].repetition>> = BlockNo(k)
    BY DEF PlanInv
  <2>. HIDE DEF k
  <2>4. /\ k \div Repetitions \in Nat /\ k \div Repetitions < Len(rows)
        /\ k % Repetitions \in Reps
    BY <1>1, <2>2, DivIs, DivBelow
  <2>5. k \div Repetitions + 1 \in DOMAIN rows
    BY <1>1, <2>4
  <2>6. plan[i].uid = rows[k \div Repetitions + 1].uid /\ plan[i].repetition = k % Repetitions
    BY <2>3 DEF BlockNo
  <2>7. plan[i].uid \in Cases
    BY <2>5, <2>6
  <2>8. plan[i].arm \in Arms
    BY <1>1, PlannedArm
  <2>. QED
    BY <2>4, <2>6, <2>7, <2>8
<1>4. ASSUME NEW c \in DOMAIN rows, NEW r \in Reps, NEW arm \in Arms
      PROVE  \E i \in DOMAIN plan :
               plan[i].uid = rows[c].uid /\ plan[i].repetition = r /\ plan[i].arm = arm
  <2>. DEFINE q == c - 1
              k == q * Repetitions + r
  <2>1. q \in Nat /\ q < Len(rows) /\ q + 1 = c /\ k \in Nat
    BY <1>1
  <2>2. k \div Repetitions = q /\ k % Repetitions = r
    BY <1>1, <2>1, Divided
  <2>. HIDE DEF k, q
  <2>3. k < all
    BY <1>1, <2>1, <2>2, DivBelow
  <2>4. k \in 0 .. Current - 1
    BY <1>2, <2>1, <2>3
  <2>5. PICK i \in DOMAIN plan : InBlock(i) = k /\ plan[i].arm = arm
    BY <2>4 DEF PlanInv
  <2>6. <<plan[i].uid, plan[i].repetition>> = <<rows[c].uid, r>>
    BY <2>1, <2>2, <2>5 DEF PlanInv, BlockNo
  <2>. QED
    BY <2>5, <2>6
<1>5. ToSet(plan) = { plan[i] : i \in DOMAIN plan }
  BY Zenon DEF ToSet
<1>. DEFINE Asked == { <<r.uid, r.repetition, r.arm>> : r \in ToSet(plan) }
            Wanted == Cases \X Reps \X Arms
<1>6. ASSUME NEW x \in Asked PROVE x \in Wanted
  <2>1. PICK i \in DOMAIN plan : x = <<plan[i].uid, plan[i].repetition, plan[i].arm>>
    BY <1>5, <1>6
  <2>2. plan[i].uid \in Cases /\ plan[i].repetition \in Reps /\ plan[i].arm \in Arms
    BY <1>3
  <2>. HIDE DEF Cases, Reps
  <2>. QED
    BY <2>1, <2>2
<1>7. ASSUME NEW x \in Wanted PROVE x \in Asked
  <2>1. PICK u \in Cases, r \in Reps, arm \in Arms : x = <<u, r, arm>>
    <3>. HIDE DEF Cases, Reps
    <3>. QED
      BY <1>7
  <2>2. PICK c \in DOMAIN rows : u = rows[c].uid
    BY <2>1
  <2>3. PICK i \in DOMAIN plan :
           plan[i].uid = rows[c].uid /\ plan[i].repetition = r /\ plan[i].arm = arm
    BY <1>4, <2>1
  <2>4. plan[i] \in ToSet(plan) /\ x = <<plan[i].uid, plan[i].repetition, plan[i].arm>>
    BY <1>5, <2>1, <2>2, <2>3
  <2>. QED
    BY <2>4
<1>. HIDE DEF Asked, Wanted
<1>8. Asked = Wanted
  BY <1>6, <1>7
<1>. QED
  BY <1>8 DEF Asked, Wanted

LEMMA Paired ==
    ASSUME IndexInv, PlanInv
    PROVE  PlanIsPaired
<1>1. ASSUME NEW stop \in 0 .. Len(plan)
      PROVE  Cardinality({ blk \in Blocks : ArmsOf(blk, stop) \notin {{}, Arms} }) <= 1
  <2>. DEFINE Partly == { blk \in Blocks : ArmsOf(blk, stop) \notin {{}, Arms} }
              One == {BlockNo(stop \div ArmCount)}
  <2>1. Partly \in SUBSET One
    BY PartlyDone
  <2>2. IsFiniteSet(One) /\ Cardinality(One) = 1
    BY FS_Singleton
  <2>. HIDE DEF Partly, One
  <2>3. Cardinality(Partly) <= 1
    BY <2>1, <2>2, FS_Subset
  <2>. QED
    BY <2>3 DEF Partly
<1>2. \A stop \in 0 .. Len(plan) :
         Cardinality({ blk \in Blocks :
             { plan[i].arm : i \in { j \in 1 .. stop : plan[j].block = blk } } \notin {{}, Arms} }) <= 1
  BY <1>1, Zenon DEF ArmsOf
<1>3. ASSUME pc = "planned"
      PROVE  /\ { <<r.uid, r.repetition, r.arm>> : r \in ToSet(plan) } =
                  { rows[i].uid : i \in DOMAIN rows } \X (0 .. Repetitions - 1) \X Arms
             /\ \A i \in DOMAIN plan : plan[i].ordinal = i - 1
             /\ Len(plan) <= PlanRows /\ Len(plan) * TokensPerRow <= PlanTokens
  <2>1. Len(plan) = Cardinal /\ Fits /\ \A i \in DOMAIN plan : plan[i].ordinal = i - 1
    BY <1>3 DEF PlanInv
  <2>2. Len(plan) <= PlanRows /\ Len(plan) * TokensPerRow <= PlanTokens
    BY <2>1 DEF Fits
  <2>. QED
    BY <1>3, <2>1, <2>2, WholePlan
<1>4. pc = "rejected" => ~(IsComplete /\ Fits)
  BY DEF PlanInv
<1>. QED
  BY <1>2, <1>3, <1>4, Zenon DEF PlanIsPaired

PlanningIs == part = "planning" => IndexInv /\ PlanInv

(* For any sources, arms, repetitions and limits: row for row the planner      *)
(* accepts what the materializer makes of some files and nothing else; and the *)
(* plan of an accepted index has at most one block unfinished wherever it      *)
(* stops, asks for every case, repetition and arm, and is refused only if the  *)
(* index is incomplete or the plan too long.                                   *)
THEOREM SoundPlan == MCSpec => []PlanIsSound
<1>1. MCInit => PlanningIs
  BY PlanAtFirst DEF MCInit, PlanningIs
<1>2. PlanningIs /\ [MCNext]_<<part, pc, closure, runtime, planning, output>> => PlanningIs'
  <2>. SUFFICES ASSUME PlanningIs, [MCNext]_<<part, pc, closure, runtime, planning, output>>,
                       part' = "planning"
                PROVE  IndexInv' /\ PlanInv'
    BY DEF PlanningIs
  <2>1. part' = part /\ (Next \/ UNCHANGED <<owned, rows, plan, pc>>)
    BY DEF MCNext, planning
  <2>. QED
    BY <2>1, PlanSteps DEF PlanningIs
<1>3. PlanningIs => PlanIsSound
  <2>. SUFFICES ASSUME IndexInv, PlanInv PROVE IndexRulesAgree /\ PlanIsPaired
    BY DEF PlanningIs, PlanIsSound
  <2>. QED
    BY RulesAgree, Paired DEF IndexRulesAgree
<1>. QED
  BY <1>1, <1>2, <1>3, PTL DEF MCSpec

-----------------------------------------------------------------------------
(* DependencyClosure: recursion and counting                                   *)

(* A function that gives each step what the one before made of it.             *)
Recurs(f, base, n, step) == f[0] = base /\ \A i \in 1 .. n : f[i] = step[i][f[i - 1]]
Stays(step, n, S) == \A i \in 1 .. n : \A x \in S : step[i][x] \in S

LEMMA Recursion ==
    ASSUME NEW S, NEW base \in S, NEW n \in Nat, NEW step, Stays(step, n, S)
    PROVE  \E f : f \in [0 .. n -> S] /\ Recurs(f, base, n, step)
<1>. DEFINE Good(m, f) == /\ f \in [0 .. m -> S] /\ f[0] = base
                          /\ \A i \in 1 .. m : f[i] = step[i][f[i - 1]]
            T == { m \in 0 .. n : \E f : Good(m, f) }
<1>0. \A i \in 1 .. n : \A x \in S : step[i][x] \in S
  BY DEF Stays
<1>1. 0 \in T
  <2>. DEFINE f == [i \in 0 .. 0 |-> base]
  <2>1. Good(0, f)
    OBVIOUS
  <2>. HIDE DEF Good, f
  <2>. QED
    BY <2>1
<1>2. ASSUME NEW m \in 0 .. n - 1, m \in T PROVE m + 1 \in T
  <2>1. PICK f : Good(m, f)
    BY <1>2
  <2>. DEFINE x == step[m + 1][f[m]]
              h == [i \in 0 .. m + 1 |-> IF i = m + 1 THEN x ELSE f[i]]
  <2>2. f[m] \in S /\ m + 1 \in 1 .. n /\ m + 1 \in 0 .. n
    BY <2>1
  <2>3. x \in S
    BY <1>0, <2>2
  <2>. HIDE DEF x
  <2>4. h \in [0 .. m + 1 -> S] /\ h[0] = base
    BY <2>1, <2>3
  <2>5. ASSUME NEW i \in 1 .. m + 1 PROVE h[i] = step[i][h[i - 1]]
    <3>1. i - 1 \in 0 .. m /\ h[i - 1] = f[i - 1]
      OBVIOUS
    <3>2. CASE i = m + 1
      <4>1. h[i] = x /\ i - 1 = m
        BY <3>2
      <4>. QED
        BY <3>1, <3>2, <4>1 DEF x
    <3>3. CASE i # m + 1
      <4>1. i \in 1 .. m /\ h[i] = f[i]
        BY <3>3
      <4>. QED
        BY <2>1, <3>1, <4>1
    <3>. QED
      BY <3>2, <3>3
  <2>6. Good(m + 1, h)
    BY <2>4, <2>5
  <2>. HIDE DEF Good, h
  <2>. QED
    BY <2>2, <2>6
<1>3. n \in T
  <2>. HIDE DEF T
  <2>1. \A k \in 0 .. n : k \in T
    BY <1>1, <1>2, UpTo
  <2>. QED
    BY <2>1 DEF T
<1>. QED
  BY <1>3 DEF Recurs

LEMMA ProductIsFinite ==
    ASSUME NEW S, NEW T, IsFiniteSet(S), IsFiniteSet(T)
    PROVE  IsFiniteSet(S \X T)
<1>1. PICK n \in Nat : ExistsSurjection(1 .. n, S)
  BY FS_NatSurjection
<1>2. PICK m \in Nat : ExistsSurjection(1 .. m, T)
  BY FS_NatSurjection
<1>3. PICK f \in Surjection(1 .. n, S) : TRUE
  BY <1>1 DEF ExistsSurjection
<1>4. PICK g \in Surjection(1 .. m, T) : TRUE
  BY <1>2 DEF ExistsSurjection
<1>5. f \in [1 .. n -> S] /\ \A s \in S : \E i \in 1 .. n : f[i] = s
  BY DEF Surjection
<1>6. g \in [1 .. m -> T] /\ \A t \in T : \E i \in 1 .. m : g[i] = t
  BY DEF Surjection
<1>7. CASE m = 0
  <2>1. S \X T = {}
    BY <1>6, <1>7
  <2>. QED
    BY <2>1, FS_EmptySet
<1>8. CASE m # 0
  <2>. DEFINE one(k) == (k - 1) \div m + 1
              two(k) == ((k - 1) % m) + 1
  <2>1. n * m \in Nat
    OBVIOUS
  <2>2. ASSUME NEW k \in 1 .. n * m PROVE one(k) \in 1 .. n /\ two(k) \in 1 .. m
    <3>1. k - 1 \in Nat /\ m \in Nat \ {0} /\ k - 1 < n * m
      BY <1>8, <2>1
    <3>2. (k - 1) \div m \in Nat /\ (k - 1) % m \in 0 .. m - 1 /\ (k - 1) \div m < n
      BY <3>1, DivIs, DivBelow
    <3>. QED
      BY <3>2
  <2>. DEFINE h == [k \in 1 .. n * m |-> <<f[one(k)], g[two(k)]>>]
  <2>3. h \in [1 .. n * m -> S \X T]
    <3>. HIDE DEF one, two
    <3>. QED
      BY <1>5, <1>6, <2>2
  <2>4. ASSUME NEW s \in S, NEW t \in T PROVE \E k \in 1 .. n * m : h[k] = <<s, t>>
    <3>1. PICK i \in 1 .. n : f[i] = s
      BY <1>5
    <3>2. PICK j \in 1 .. m : g[j] = t
      BY <1>6
    <3>. DEFINE q == (i - 1) * m + (j - 1)
    <3>3. i - 1 \in Nat /\ j - 1 \in 0 .. m - 1 /\ m \in Nat \ {0} /\ i - 1 < n
      BY <1>8
    <3>4. q \div m = i - 1 /\ q % m = j - 1 /\ q \in Nat
      BY <3>3, Divided
    <3>. HIDE DEF q
    <3>5. q < n * m
      BY <3>3, <3>4, DivBelow
    <3>6. q + 1 \in 1 .. n * m /\ (q + 1) - 1 = q
      BY <2>1, <3>4, <3>5
    <3>7. one(q + 1) = i /\ two(q + 1) = j
      BY <3>3, <3>4, <3>6
    <3>. HIDE DEF one, two
    <3>8. h[q + 1] = <<s, t>>
      BY <3>1, <3>2, <3>6, <3>7
    <3>. QED
      BY <3>6, <3>8
  <2>. HIDE DEF h
  <2>5. h \in Surjection(1 .. n * m, S \X T)
    <3>1. ASSUME NEW x \in S \X T PROVE \E k \in 1 .. n * m : h[k] = x
      <4>1. PICK s \in S, t \in T : x = <<s, t>>
        OBVIOUS
      <4>. QED
        BY <2>4, <4>1
    <3>. QED
      BY <2>3, <3>1, Zenon DEF Surjection
  <2>. QED
    BY <2>1, <2>5, FS_NatSurjection DEF ExistsSurjection
<1>. QED
  BY <1>7, <1>8

(* Of sets that do not meet.                                                   *)
LEMMA SumOfParts ==
    ASSUME NEW S, NEW T, IsFiniteSet(S), IsFiniteSet(T), S \cap T = {}
    PROVE  IsFiniteSet(S \cup T) /\ Cardinality(S \cup T) = Cardinality(S) + Cardinality(T)
<1>1. /\ IsFiniteSet(S \cup T)
      /\ Cardinality(S \cup T) = Cardinality(S) + Cardinality(T) - Cardinality(S \cap T)
  BY FS_Union
<1>2. Cardinality(S \cap T) = 0
  BY FS_EmptySet
<1>3. Cardinality(S) \in Nat /\ Cardinality(T) \in Nat
  BY FS_CardinalityType
<1>. QED
  BY <1>1, <1>2, <1>3

(* A column of pairs is as large as what it is a column of.                    *)
Column(i, name, T) == {i} \X ({name} \X T)

LEMMA ColumnIs ==
    ASSUME NEW i, NEW name, NEW T, IsFiniteSet(T)
    PROVE  IsFiniteSet(Column(i, name, T)) /\ Cardinality(Column(i, name, T)) = Cardinality(T)
<1>. DEFINE f == [c \in T |-> <<i, <<name, c>>>>]
            C == {i} \X ({name} \X T)
<1>1. f \in [T -> C]
  OBVIOUS
<1>2. f \in Injection(T, C)
  BY <1>1 DEF Injection, IsInjective
<1>3. f \in Surjection(T, C)
  <2>1. ASSUME NEW x \in C PROVE \E c \in T : f[c] = x
    <3>1. PICK c \in T : x = <<i, <<name, c>>>>
      BY <2>1
    <3>. QED
      BY <3>1
  <2>. HIDE DEF f, C
  <2>. QED
    BY <1>1, <2>1, Zenon DEF Surjection
<1>4. ExistsBijection(T, C)
  BY <1>2, <1>3 DEF ExistsBijection, Bijection
<1>. HIDE DEF C
<1>5. IsFiniteSet(C) /\ Cardinality(C) = Cardinality(T)
  BY <1>4, FS_Bijection
<1>. QED
  BY <1>5, Zenon DEF C, Column
-----------------------------------------------------------------------------
(* DependencyClosure: the least closed set of pairs                            *)

Universe == Distributions \X Closure!Contexts
RootPairs == Closure!ToSet(Roots) \X {0}
Dependents(r) == {r.to} \X ({0} \cup r.extras)

(* What the pairs demand is among them.                                        *)
IsClosed(pairs) == \A p \in pairs : \A r \in Closure!Demands(p) : Dependents(r) \subseteq pairs

LEMMA ClosureConstants ==
    /\ IsFiniteSet(Distributions) /\ Roots \in Seq(Distributions) /\ IsFiniteSet(Extras) /\ Extras \subseteq Nat \ {0}
    /\ MaxEvaluations \in Nat
<1>1. Closure!ConstantsAreLegal
  BY AllConstantsAreLegal
<1>2. \A S : Closure!IsFiniteSet(S) <=> IsFiniteSet(S)
  BY Zenon DEF Closure!IsFiniteSet, IsFiniteSet
<1>. QED
  BY <1>1, <1>2, Zenon DEF Closure!ConstantsAreLegal

LEMMA CountIs == \A S : Closure!Cardinality(S) = Cardinality(S)
BY Zenon DEF Closure!Cardinality, Cardinality

Typed == requires \in Seq(Closure!Requirements)

LEMMA RequirementIs ==
    ASSUME Typed, NEW r \in Closure!ToSet(requires)
    PROVE  /\ r.of \in Distributions /\ r.to \in Distributions /\ r.when \in Closure!Contexts
           /\ r.extras \in SUBSET Extras
<1>1. PICK i \in DOMAIN requires : r = requires[i]
  BY Zenon DEF Closure!ToSet
<1>2. r \in Closure!Requirements
  BY <1>1 DEF Typed
<1>. QED
  BY <1>2 DEF Closure!Requirements

LEMMA GrownIs ==
    ASSUME Typed, NEW pairs \in SUBSET Universe
    PROVE  /\ Closure!Grown(pairs) \in SUBSET Universe
           /\ pairs \subseteq Closure!Grown(pairs)
           /\ IsClosed(pairs) <=> Closure!Grown(pairs) \subseteq pairs
<1>. DEFINE D == UNION { Closure!Demands(p) : p \in pairs }
            A == UNION { Dependents(r) : r \in D }
<1>1. Closure!Grown(pairs) = pairs \cup A
  BY Zenon DEF Closure!Grown, Closure!Base, Dependents
<1>2. \A r \in D : r \in Closure!ToSet(requires)
  BY DEF Closure!Demands
<1>3. ASSUME NEW r \in D PROVE Dependents(r) \subseteq Universe
  <2>1. r.to \in Distributions /\ r.extras \in SUBSET Extras
    BY <1>2, RequirementIs
  <2>. QED
    BY <2>1 DEF Dependents, Universe, Closure!Contexts, Closure!Base
<1>4. A \subseteq Universe
  <2>. HIDE DEF D
  <2>. QED
    BY <1>3
<1>5. IsClosed(pairs) <=> \A r \in D : Dependents(r) \subseteq pairs
  BY DEF IsClosed
<1>6. (\A r \in D : Dependents(r) \subseteq pairs) <=> A \subseteq pairs
  <2>. HIDE DEF D
  <2>. QED
    OBVIOUS
<1>. HIDE DEF A, D
<1>. QED
  BY <1>1, <1>4, <1>5, <1>6

LEMMA GrowsWithin ==
    ASSUME NEW pairs, NEW more, pairs \subseteq more, IsClosed(more)
    PROVE  Closure!Grown(pairs) \subseteq more
<1>. DEFINE D == UNION { Closure!Demands(p) : p \in pairs }
            A == UNION { Dependents(r) : r \in D }
<1>1. Closure!Grown(pairs) = pairs \cup A
  BY Zenon DEF Closure!Grown, Closure!Base, Dependents
<1>2. \A r \in D : Dependents(r) \subseteq more
  BY DEF IsClosed
<1>. HIDE DEF D
<1>3. A \subseteq more
  BY <1>2
<1>. HIDE DEF A
<1>. QED
  BY <1>1, <1>3

(* A set grows in every round or no more, so it is closed after as many rounds *)
(* as there are pairs.                                                         *)
LEMMA ClosureIs ==
    ASSUME Typed
    PROVE  /\ Closure!Closure \in SUBSET Universe /\ IsFiniteSet(Closure!Closure)
           /\ RootPairs \subseteq Closure!Closure
           /\ IsClosed(Closure!Closure)
           /\ \A pairs \in SUBSET Universe :
                RootPairs \subseteq pairs /\ IsClosed(pairs) => Closure!Closure \subseteq pairs
<1>. DEFINE n == Cardinality(Universe)
            S == SUBSET Universe
            Grows(f) == \A i \in 1 .. n : f[i] = Closure!Grown(f[i - 1])
            Rounds(f) == f = [i \in 0 .. n |-> IF i = 0 THEN RootPairs ELSE Closure!Grown(f[i - 1])]
<1>1. IsFiniteSet(Universe) /\ n \in Nat
  <2>1. IsFiniteSet(Closure!Contexts)
    <3>1. Closure!Contexts = Extras \cup {0}
      BY DEF Closure!Contexts, Closure!Base
    <3>. QED
      BY <3>1, ClosureConstants, FS_AddElement
  <2>2. IsFiniteSet(Universe)
    BY <2>1, ClosureConstants, ProductIsFinite DEF Universe
  <2>. QED
    BY <2>2, FS_CardinalityType
<1>2. RootPairs \in S
  BY ClosureConstants DEF RootPairs, Closure!ToSet, Universe, Closure!Contexts, Closure!Base
<1>3. \E f : Rounds(f)
  <2>. DEFINE step == [i \in 1 .. n |-> [x \in S |-> Closure!Grown(x)]]
  <2>. HIDE DEF n
  <2>1. \A i \in 1 .. n : \A x \in S : step[i][x] = Closure!Grown(x)
    <3>. HIDE DEF S
    <3>. QED
      OBVIOUS
  <2>. HIDE DEF step
  <2>2. Stays(step, n, S)
    BY <2>1, GrownIs DEF Stays
  <2>3. PICK f : f \in [0 .. n -> S] /\ Recurs(f, RootPairs, n, step)
    <3>. HIDE DEF S
    <3>1. n \in Nat
      BY <1>1
    <3>. QED
      BY <1>2, <2>2, <3>1, Recursion
  <2>4. f[0] = RootPairs /\ \A i \in 1 .. n : f[i] = Closure!Grown(f[i - 1])
    <3>. HIDE DEF S
    <3>1. \A i \in 1 .. n : i - 1 \in 0 .. n /\ f[i - 1] \in S
      BY <1>1, <2>3
    <3>. QED
      BY <2>1, <2>3, <3>1 DEF Recurs
  <2>5. \A i \in 0 .. n : f[i] = IF i = 0 THEN RootPairs ELSE Closure!Grown(f[i - 1])
    BY <1>1, <2>4
  <2>6. Rounds(f)
    <3>1. f = [i \in 0 .. n |-> f[i]]
      BY <2>3
    <3>. QED
      BY <2>5, <3>1, Zenon
  <2>. QED
    BY <2>6
<1>. DEFINE g == CHOOSE f : Rounds(f)
<1>4. Closure!Closure = g[n]
  BY CountIs, Zenon DEF Closure!Closure, Closure!Base, RootPairs, Universe
<1>5. Rounds(g)
  <2>. HIDE DEF Rounds
  <2>. QED
    BY <1>3
<1>. HIDE DEF g, n
<1>6. g[0] = RootPairs /\ Grows(g)
  <2>1. \A i \in 0 .. n : g[i] = IF i = 0 THEN RootPairs ELSE Closure!Grown(g[i - 1])
    BY <1>5
  <2>2. 0 \in 0 .. n /\ \A i \in 1 .. n : i \in 0 .. n /\ i # 0
    BY <1>1
  <2>. QED
    BY <2>1, <2>2
<1>. HIDE DEF Rounds
<1>. DEFINE T == { i \in 0 .. n : g[i] \in S /\ RootPairs \subseteq g[i] }
<1>7. \A i \in 0 .. n : i \in T
  <2>1. 0 \in T
    BY <1>1, <1>2, <1>6
  <2>2. ASSUME NEW i \in 0 .. n - 1, i \in T PROVE i + 1 \in T
    <3>1. i + 1 \in 1 .. n /\ i + 1 \in 0 .. n /\ (i + 1) - 1 = i
      BY <1>1
    <3>2. g[i + 1] = Closure!Grown(g[i])
      BY <1>6, <3>1
    <3>3. g[i + 1] \in S /\ g[i] \subseteq g[i + 1]
      BY <2>2, <3>2, GrownIs
    <3>. QED
      BY <2>2, <3>1, <3>3
  <2>. HIDE DEF T
  <2>. QED
    BY <1>1, <2>1, <2>2, UpTo
<1>8. \A i \in 0 .. n : g[i] \in S /\ RootPairs \subseteq g[i]
  BY <1>7
<1>. HIDE DEF T
<1>. DEFINE V == { i \in 0 .. n : IsClosed(g[i]) \/ Cardinality(g[i]) >= i }
<1>9. \A i \in 0 .. n : i \in V
  <2>1. 0 \in V
    <3>1. IsFiniteSet(g[0])
      BY <1>1, <1>2, <1>6, FS_Subset
    <3>2. Cardinality(g[0]) \in Nat
      BY <3>1, FS_CardinalityType
    <3>. QED
      BY <1>1, <3>2
  <2>2. ASSUME NEW i \in 0 .. n - 1, i \in V PROVE i + 1 \in V
    <3>1. i + 1 \in 1 .. n /\ i + 1 \in 0 .. n /\ (i + 1) - 1 = i /\ i \in 0 .. n
      BY <1>1
    <3>2. g[i + 1] = Closure!Grown(g[i])
      BY <1>6, <3>1
    <3>3. g[i] \in S /\ g[i + 1] \in S /\ g[i] \subseteq g[i + 1]
      BY <1>8, <3>1, <3>2, GrownIs
    <3>4. IsClosed(g[i]) <=> g[i + 1] \subseteq g[i]
      BY <3>2, <3>3, GrownIs
    <3>5. CASE IsClosed(g[i])
      <4>1. g[i + 1] = g[i]
        BY <3>3, <3>4, <3>5
      <4>. QED
        BY <3>1, <3>5, <4>1
    <3>6. CASE ~IsClosed(g[i])
      <4>1. IsFiniteSet(g[i + 1]) /\ IsFiniteSet(g[i])
        BY <1>1, <3>3, FS_Subset
      <4>2. Cardinality(g[i]) <= Cardinality(g[i + 1]) /\ Cardinality(g[i]) # Cardinality(g[i + 1])
        BY <3>3, <3>4, <3>6, <4>1, FS_Subset
      <4>3. Cardinality(g[i]) \in Nat /\ Cardinality(g[i + 1]) \in Nat
        BY <4>1, FS_CardinalityType
      <4>. QED
        BY <2>2, <3>1, <3>6, <4>2, <4>3
    <3>. QED
      BY <3>5, <3>6
  <2>. HIDE DEF V
  <2>. QED
    BY <1>1, <2>1, <2>2, UpTo
<1>10. n \in 0 .. n
  BY <1>1
<1>11. g[n] \in S /\ RootPairs \subseteq g[n] /\ (IsClosed(g[n]) \/ Cardinality(g[n]) >= n)
  BY <1>8, <1>9, <1>10
<1>12. IsClosed(g[n])
  <2>. SUFFICES ASSUME Cardinality(g[n]) >= n PROVE IsClosed(g[n])
    BY <1>11
  <2>1. IsFiniteSet(g[n]) /\ Cardinality(g[n]) <= Cardinality(Universe)
    BY <1>1, <1>11, FS_Subset
  <2>2. Cardinality(g[n]) = Cardinality(Universe)
    BY <1>1, <2>1, FS_CardinalityType DEF n
  <2>3. g[n] = Universe
    BY <1>1, <1>11, <2>2, FS_Subset
  <2>. QED
    BY <2>3, GrownIs
<1>13. ASSUME NEW pairs \in SUBSET Universe, RootPairs \subseteq pairs, IsClosed(pairs)
       PROVE  g[n] \subseteq pairs
  <2>. DEFINE W == { i \in 0 .. n : g[i] \subseteq pairs }
  <2>1. 0 \in W
    BY <1>1, <1>6, <1>13
  <2>2. ASSUME NEW i \in 0 .. n - 1, i \in W PROVE i + 1 \in W
    <3>1. i + 1 \in 1 .. n /\ i + 1 \in 0 .. n /\ (i + 1) - 1 = i /\ i \in 0 .. n
      BY <1>1
    <3>2. g[i + 1] = Closure!Grown(g[i])
      BY <1>6, <3>1
    <3>3. Closure!Grown(g[i]) \subseteq pairs
      BY <1>13, <2>2, GrowsWithin
    <3>. QED
      BY <3>1, <3>2, <3>3
  <2>3. \A i \in 0 .. n : i \in W
    <3>. HIDE DEF W
    <3>. QED
      BY <1>1, <2>1, <2>2, UpTo
  <2>. QED
    BY <1>10, <2>3
<1>14. IsFiniteSet(g[n])
  BY <1>1, <1>11, FS_Subset
<1>. QED
  BY <1>4, <1>11, <1>12, <1>13, <1>14
-----------------------------------------------------------------------------
(* DependencyClosure: the walk                                                 *)

WalkStates ==
    [pc : {"walking", "rejected", "limited", "closed"}, queue : Seq(Distributions),
     requested : [Distributions -> SUBSET Extras], captured : SUBSET Distributions, evaluations : Nat]
Now == [pc |-> pc, queue |-> queue, requested |-> requested, captured |-> captured,
        evaluations |-> evaluations]

(* The distributions with the contexts that were processed, and as many        *)
(* evaluations as they may cost.                                               *)
Seen == UNION { {m} \X processed[m] : m \in Distributions }
Considered(pairs) == { x \in (DOMAIN requires) \X pairs : requires[x[1]].of = x[2][1] }

(* Only what the closure has is asked for.                                     *)
Sound(w) ==
    /\ \A m \in Distributions : \A c \in w.requested[m] : <<m, c>> \in Closure!Closure
    /\ \A m \in Closure!ToSet(w.queue) : <<m, 0>> \in Closure!Closure

(* The requirement has been followed.                                          *)
Covered(w, r) ==
    /\ r.to \in w.captured \cup Closure!ToSet(w.queue)
    /\ r.extras \subseteq w.requested[r.to]
    /\ {r.to, r} \cap broken = {}

(* What is not yet processed is still to be visited.                           *)
Remains(w, done, m) == w.requested[m] \subseteq done[m] \/ m \in Closure!ToSet(w.queue)

(* The closure needs something broken.                                         *)
Blamed ==
    broken \cap ({ p[1] : p \in Closure!Closure }
                 \cup UNION { Closure!Demands(p) : p \in Closure!Closure }) # {}

ClosureInv ==
    /\ Typed /\ Now \in WalkStates /\ processed \in [Distributions -> SUBSET Closure!Contexts]
    /\ Sound(Now) /\ Seen \subseteq Closure!Closure
    /\ \A m \in Distributions : IF m \in captured THEN 0 \in processed[m] ELSE processed[m] = {}
    /\ evaluations <= 2 * Cardinality(Considered(Seen))
    /\ pc = "rejected" => Blamed
    /\ pc = "limited" => MaxEvaluations < 2 * Cardinality(Considered(Closure!Closure))
    /\ pc \in {"walking", "closed"} =>
         /\ \A m \in Closure!ToSet(Roots) : m \in captured \cup Closure!ToSet(queue)
         /\ captured \cap broken = {}
         /\ \A m \in captured : Remains(Now, processed, m)
         /\ \A p \in Seen : \A r \in Closure!Demands(p) : Covered(Now, r)
    /\ pc = "closed" => queue = <<>>

LEMMA ListIs ==
    ASSUME NEW q \in Seq(Distributions)
    PROVE  /\ Closure!ToSet(q) \subseteq Distributions
           /\ \A x \in Distributions : /\ Append(q, x) \in Seq(Distributions)
                               /\ Closure!ToSet(Append(q, x)) = Closure!ToSet(q) \cup {x}
           /\ q # <<>> => /\ Head(q) \in Distributions /\ Tail(q) \in Seq(Distributions)
                          /\ Closure!ToSet(q) = {Head(q)} \cup Closure!ToSet(Tail(q))
<1>1. \A s : Closure!ToSet(s) = { s[i] : i \in DOMAIN s }
  BY Zenon DEF Closure!ToSet
<1>2. Closure!ToSet(q) \subseteq Distributions
  BY <1>1
<1>3. ASSUME NEW x \in Distributions
      PROVE  /\ Append(q, x) \in Seq(Distributions)
             /\ Closure!ToSet(Append(q, x)) = Closure!ToSet(q) \cup {x}
  <2>. DEFINE t == Append(q, x)
  <2>1. /\ t \in Seq(Distributions) /\ Len(t) = Len(q) + 1 /\ t[Len(q) + 1] = x /\ Len(q) \in Nat
        /\ DOMAIN t = 1 .. Len(q) + 1 /\ DOMAIN q = 1 .. Len(q)
        /\ \A i \in 1 .. Len(q) : t[i] = q[i]
    OBVIOUS
  <2>. HIDE DEF t
  <2>2. { t[i] : i \in DOMAIN t } = { q[i] : i \in DOMAIN q } \cup {x}
    <3>1. \A i \in DOMAIN t : t[i] = x \/ \E j \in DOMAIN q : t[i] = q[j]
      BY <2>1
    <3>2. \A i \in DOMAIN q : \E j \in DOMAIN t : q[i] = t[j]
      BY <2>1
    <3>3. \E j \in DOMAIN t : x = t[j]
      BY <2>1
    <3>. QED
      BY <3>1, <3>2, <3>3
  <2>3. Closure!ToSet(t) = Closure!ToSet(q) \cup {x}
    BY <1>1, <2>2
  <2>. QED
    BY <2>1, <2>3 DEF t
<1>4. ASSUME q # <<>>
      PROVE  /\ Head(q) \in Distributions /\ Tail(q) \in Seq(Distributions)
             /\ Closure!ToSet(q) = {Head(q)} \cup Closure!ToSet(Tail(q))
  <2>. DEFINE t == Tail(q)
              n == Len(q) - 1
  <2>1. /\ t \in Seq(Distributions) /\ Len(q) = n + 1 /\ n \in Nat /\ Head(q) = q[1] /\ Head(q) \in Distributions
        /\ DOMAIN t = 1 .. n /\ DOMAIN q = 1 .. n + 1
        /\ \A i \in 1 .. n : t[i] = q[i + 1]
    BY <1>4
  <2>. HIDE DEF t, n
  <2>2. { q[i] : i \in DOMAIN q } = {Head(q)} \cup { t[i] : i \in DOMAIN t }
    <3>1. ASSUME NEW i \in DOMAIN q PROVE q[i] = Head(q) \/ \E j \in DOMAIN t : q[i] = t[j]
      <4>1. CASE i = 1
        BY <2>1, <4>1
      <4>2. CASE i # 1
        <5>1. i - 1 \in DOMAIN t /\ t[i - 1] = q[i]
          BY <2>1, <4>2
        <5>. QED
          BY <5>1
      <4>. QED
        BY <4>1, <4>2
    <3>2. \A i \in DOMAIN t : \E j \in DOMAIN q : t[i] = q[j]
      BY <2>1
    <3>3. \E j \in DOMAIN q : Head(q) = q[j]
      BY <2>1
    <3>. QED
      BY <3>1, <3>2, <3>3
  <2>3. Closure!ToSet(q) = {Head(q)} \cup Closure!ToSet(t)
    BY <1>1, <2>2
  <2>. QED
    BY <2>1, <2>3 DEF t
<1>. QED
  BY <1>2, <1>3, <1>4

LEMMA TriedIs ==
    ASSUME NEW r, NEW contexts, IsFiniteSet(contexts), contexts # {}
    PROVE  /\ Cardinality(Closure!Tried(r, contexts)) \in Nat
           /\ Cardinality(contexts) \in Nat
           /\ 1 + Cardinality(Closure!Tried(r, contexts)) <= 2 * Cardinality(contexts)
<1>. DEFINE T == Closure!Tried(r, contexts)
<1>1. T \in SUBSET contexts
  BY DEF Closure!Tried
<1>. HIDE DEF T
<1>2. IsFiniteSet(T) /\ Cardinality(T) <= Cardinality(contexts)
  BY <1>1, FS_Subset
<1>3. Cardinality(T) \in Nat /\ Cardinality(contexts) \in Nat
  BY <1>2, FS_CardinalityType
<1>4. Cardinality(contexts) # 0
  BY FS_EmptySet
<1>. QED
  BY <1>2, <1>3, <1>4 DEF T

Used(w, r, contexts) == w.evaluations + 1 + Cardinality(Closure!Tried(r, contexts))

(* What following a requirement changes.                                       *)
Follows(w, d, r, contexts) ==
    /\ d.pc = "walking" /\ d.captured = w.captured /\ d.evaluations = Used(w, r, contexts)
    /\ d.requested = [w.requested EXCEPT ![r.to] = w.requested[r.to] \cup r.extras]
    /\ \/ ~Closure!Wants(w, r) /\ d.queue = w.queue
       \/ r.to \in Closure!ToSet(w.queue) /\ d.queue = w.queue
       \/ d.queue = Append(w.queue, r.to)

LEMMA DemandIs ==
    ASSUME Typed, NEW w \in WalkStates, NEW r \in Closure!ToSet(requires),
           NEW contexts, IsFiniteSet(contexts), contexts # {}, w.pc = "walking"
    PROVE  LET d == Closure!Demand(w, r, contexts) IN
           \/ Used(w, r, contexts) > MaxEvaluations /\ d = [w EXCEPT !.pc = "limited"]
           \/ /\ Used(w, r, contexts) <= MaxEvaluations /\ ~Closure!Selects(r, contexts)
              /\ d = [w EXCEPT !.evaluations = Used(w, r, contexts)]
           \/ /\ Used(w, r, contexts) <= MaxEvaluations /\ Closure!Selects(r, contexts)
              /\ {r.to, r} \cap broken # {} /\ d = [w EXCEPT !.pc = "rejected"]
           \/ /\ Used(w, r, contexts) <= MaxEvaluations /\ Closure!Selects(r, contexts)
              /\ {r.to, r} \cap broken = {} /\ d \in WalkStates /\ Follows(w, d, r, contexts)
<1>. DEFINE d == Closure!Demand(w, r, contexts)
            used == Used(w, r, contexts)
            q == IF Closure!Wants(w, r) /\ r.to \notin Closure!ToSet(w.queue)
                    THEN Append(w.queue, r.to) ELSE w.queue
            asked == [w.requested EXCEPT ![r.to] = w.requested[r.to] \cup r.extras]
            e == [w EXCEPT !.evaluations = used, !.requested = asked, !.queue = q]
<1>1. used \in Nat /\ MaxEvaluations \in Nat
  <2>1. w.evaluations \in Nat
    BY DEF WalkStates
  <2>. QED
    BY <2>1, TriedIs, ClosureConstants DEF Used
<1>2. r.to \in Distributions /\ r.extras \in SUBSET Extras
  BY RequirementIs
<1>3. d = IF used > MaxEvaluations THEN [w EXCEPT !.pc = "limited"]
          ELSE IF ~Closure!Selects(r, contexts) THEN [w EXCEPT !.evaluations = used]
          ELSE IF {r.to, r} \cap broken # {} THEN [w EXCEPT !.pc = "rejected"]
          ELSE [w EXCEPT !.evaluations = used,
                         !.requested[r.to] = @ \cup r.extras,
                         !.queue = IF Closure!Wants(w, r) /\ r.to \notin Closure!ToSet(@)
                                      THEN Append(@, r.to) ELSE @]
  BY CountIs, Zenon DEF Closure!Demand, Used
<1>4. [w EXCEPT !.evaluations = used,
                !.requested[r.to] = @ \cup r.extras,
                !.queue = IF Closure!Wants(w, r) /\ r.to \notin Closure!ToSet(@)
                             THEN Append(@, r.to) ELSE @] = e
  BY Zenon DEF WalkStates
<1>5. q \in Seq(Distributions)
  <2>1. w.queue \in Seq(Distributions)
    BY DEF WalkStates
  <2>. QED
    BY <1>2, <2>1, ListIs
<1>6. asked \in [Distributions -> SUBSET Extras]
  <2>1. w.requested \in [Distributions -> SUBSET Extras]
    BY DEF WalkStates
  <2>. QED
    BY <1>2, <2>1
<1>. HIDE DEF used, q, asked
<1>7. /\ e \in WalkStates /\ e.pc = "walking" /\ e.captured = w.captured /\ e.evaluations = used
      /\ e.requested = asked /\ e.queue = q
  BY <1>1, <1>5, <1>6 DEF WalkStates
<1>8. Follows(w, e, r, contexts)
  BY <1>7 DEF Follows, used, q, asked
<1>. HIDE DEF e
<1>. QED
  BY <1>1, <1>3, <1>4, <1>7, <1>8 DEF used

Visiting(name, contexts) ==
    /\ Typed /\ name \in Distributions /\ contexts \in SUBSET Closure!Contexts /\ contexts # {}
    /\ \A c \in contexts : <<name, c>> \in Closure!Closure
    /\ evaluations \in Nat

Load(i, name, contexts) ==
    { x \in (1 .. i) \X ({name} \X contexts) : requires[x[1]].of = name }
Cost(i, name, contexts) == evaluations + 2 * Cardinality(Load(i, name, contexts))

WalkInv(w, i, name, contexts, done) ==
    /\ w \in WalkStates /\ w.pc \in {"walking", "rejected", "limited"}
    /\ w.captured = captured \cup {name} /\ Sound(w)
    /\ w.evaluations <= Cost(i, name, contexts)
    /\ w.pc = "limited" => MaxEvaluations < Cost(i, name, contexts)
    /\ w.pc = "rejected" => Blamed
    /\ \A m \in Distributions : requested[m] \subseteq w.requested[m]
    /\ w.pc = "walking" =>
         /\ name \notin broken /\ Closure!ToSet(Tail(queue)) \subseteq Closure!ToSet(w.queue)
         /\ \A m \in captured \cup {name} : Remains(w, done, m)
         /\ \A j \in 1 .. i :
              requires[j].of = name /\ Closure!Selects(requires[j], contexts) => Covered(w, requires[j])

LEMMA ContextsAreFinite ==
    ASSUME NEW contexts \in SUBSET Closure!Contexts
    PROVE  IsFiniteSet(contexts) /\ Cardinality(contexts) \in Nat
<1>1. Closure!Contexts = Extras \cup {0}
  BY DEF Closure!Contexts, Closure!Base
<1>2. IsFiniteSet(Closure!Contexts)
  BY <1>1, ClosureConstants, FS_AddElement
<1>3. IsFiniteSet(contexts)
  BY <1>2, FS_Subset
<1>. QED
  BY <1>3, FS_CardinalityType

LEMMA LoadIs ==
    ASSUME NEW name, NEW contexts, Visiting(name, contexts), NEW i \in Nat
    PROVE  /\ IsFiniteSet(Load(i, name, contexts)) /\ Cardinality(Load(i, name, contexts)) \in Nat
           /\ Load(0, name, contexts) = {}
           /\ Cardinality(Load(i + 1, name, contexts)) =
                IF requires[i + 1].of = name
                   THEN Cardinality(Load(i, name, contexts)) + Cardinality(contexts)
                   ELSE Cardinality(Load(i, name, contexts))
<1>1. IsFiniteSet(contexts) /\ Cardinality(contexts) \in Nat
  BY ContextsAreFinite DEF Visiting
<1>. DEFINE P == {name} \X contexts
            X == Load(i, name, contexts)
            Y == Load(i + 1, name, contexts)
            Z == Column(i + 1, name, contexts)
<1>2. IsFiniteSet(Z) /\ Cardinality(Z) = Cardinality(contexts)
  BY <1>1, ColumnIs
<1>3. IsFiniteSet(P)
  <2>1. IsFiniteSet({name})
    BY FS_Singleton
  <2>. QED
    BY <1>1, <2>1, ProductIsFinite
<1>. HIDE DEF P
<1>4. IsFiniteSet((1 .. i) \X P)
  <2>1. IsFiniteSet(1 .. i)
    BY FS_Interval
  <2>. QED
    BY <1>3, <2>1, ProductIsFinite
<1>5. X \subseteq (1 .. i) \X P
  BY DEF Load, P
<1>6. IsFiniteSet(X)
  BY <1>4, <1>5, FS_Subset
<1>7. Cardinality(X) \in Nat
  BY <1>6, FS_CardinalityType
<1>8. Load(0, name, contexts) = {}
  BY DEF Load
<1>9. CASE requires[i + 1].of = name
  <2>1. Y = X \cup Z
    <3>1. \A x \in Y : x \in X \/ x \in Z
      BY DEF Load, P, Column
    <3>2. \A x \in X : x \in Y
      BY DEF Load, P
    <3>3. \A x \in Z : x \in Y
      BY <1>9 DEF Load, P, Column
    <3>. QED
      BY <3>1, <3>2, <3>3
  <2>2. X \cap Z = {}
    BY <1>5 DEF Column
  <2>. HIDE DEF X, Y, Z
  <2>3. Cardinality(Y) = Cardinality(X) + Cardinality(Z)
    BY <1>2, <1>6, <2>1, <2>2, SumOfParts
  <2>4. Cardinality(Y) = Cardinality(X) + Cardinality(contexts)
    BY <1>2, <2>3
  <2>. QED
    BY <1>6, <1>7, <1>8, <1>9, <2>4 DEF X, Y
<1>10. CASE requires[i + 1].of # name
  <2>1. Y = X
    <3>1. \A x \in Y : x \in X
      BY <1>10 DEF Load, P
    <3>2. \A x \in X : x \in Y
      BY DEF Load, P
    <3>. QED
      BY <3>1, <3>2
  <2>. HIDE DEF X, Y, Z
  <2>. QED
    BY <1>6, <1>7, <1>8, <1>10, <2>1 DEF X, Y
<1>. QED
  BY <1>9, <1>10

(* What a selected requirement asks for, the closure has.                      *)
LEMMA SelectedIsNeeded ==
    ASSUME NEW name, NEW contexts, Visiting(name, contexts), NEW r \in Closure!ToSet(requires),
           r.of = name, Closure!Selects(r, contexts)
    PROVE  /\ <<r.to, 0>> \in Closure!Closure
           /\ \A c \in r.extras : <<r.to, c>> \in Closure!Closure
           /\ {r.to, r} \cap broken # {} => Blamed
<1>1. PICK c \in contexts : r.when \in {0, c}
  BY DEF Closure!Selects, Closure!Base, Visiting
<1>. DEFINE p == <<name, c>>
<1>2. p \in Closure!Closure /\ r \in Closure!Demands(p)
  BY <1>1 DEF Visiting, Closure!Demands, Closure!Base
<1>. HIDE DEF p
<1>3. Dependents(r) \subseteq Closure!Closure
  BY <1>2, ClosureIs DEF Visiting, IsClosed
<1>4. <<r.to, 0>> \in Closure!Closure /\ \A e \in r.extras : <<r.to, e>> \in Closure!Closure
  BY <1>3 DEF Dependents
<1>5. ASSUME {r.to, r} \cap broken # {} PROVE Blamed
  <2>1. r.to \in { q[1] : q \in Closure!Closure }
    <3>. DEFINE q == <<r.to, 0>>
    <3>1. q[1] = r.to
      OBVIOUS
    <3>2. q \in Closure!Closure
      BY <1>4
    <3>. QED
      BY <3>1, <3>2, Zenon
  <2>2. r \in UNION { Closure!Demands(q) : q \in Closure!Closure }
    BY <1>2
  <2>. QED
    BY <1>5, <2>1, <2>2, Zenon DEF Blamed
<1>. QED
  BY <1>4, <1>5

LEMMA CostGrows ==
    ASSUME NEW name, NEW contexts, Visiting(name, contexts), NEW i \in Nat
    PROVE  /\ Cost(i, name, contexts) \in Nat
           /\ Cost(i, name, contexts) <= Cost(i + 1, name, contexts)
           /\ Cost(i + 1, name, contexts) \in Nat
           /\ requires[i + 1].of = name =>
                Cost(i + 1, name, contexts) = Cost(i, name, contexts) + 2 * Cardinality(contexts)
<1>1. contexts \in SUBSET Closure!Contexts /\ evaluations \in Nat
  BY DEF Visiting
<1>2. Cardinality(contexts) \in Nat
  BY <1>1, ContextsAreFinite
<1>. DEFINE X == Cardinality(Load(i, name, contexts))
            Y == Cardinality(Load(i + 1, name, contexts))
<1>3. X \in Nat /\ Y = IF requires[i + 1].of = name THEN X + Cardinality(contexts) ELSE X
  BY LoadIs
<1>4. Cost(i, name, contexts) = evaluations + 2 * X /\ Cost(i + 1, name, contexts) = evaluations + 2 * Y
  BY DEF Cost
<1>. HIDE DEF X, Y
<1>. QED
  BY <1>1, <1>2, <1>3, <1>4

(* A walk that has ended, and one that passes over another's requirement.      *)
LEMMA WalkRests ==
    ASSUME NEW name, NEW contexts, NEW done, Visiting(name, contexts), NEW i \in Nat, NEW w,
           WalkInv(w, i, name, contexts, done),
           w.pc # "walking" \/ requires[i + 1].of # name
    PROVE  WalkInv(w, i + 1, name, contexts, done)
<1>1. w.evaluations \in Nat
  BY DEF WalkInv, WalkStates
<1>2. /\ Cost(i, name, contexts) \in Nat /\ Cost(i + 1, name, contexts) \in Nat
      /\ Cost(i, name, contexts) <= Cost(i + 1, name, contexts)
  BY CostGrows
<1>3. /\ w.evaluations <= Cost(i + 1, name, contexts)
      /\ w.pc = "limited" => MaxEvaluations < Cost(i + 1, name, contexts)
  BY <1>1, <1>2, ClosureConstants DEF WalkInv
<1>4. ASSUME w.pc = "walking", NEW j \in 1 .. i + 1,
             requires[j].of = name /\ Closure!Selects(requires[j], contexts)
      PROVE  Covered(w, requires[j])
  <2>1. j # i + 1
    BY <1>4
  <2>2. j \in 1 .. i
    BY <2>1
  <2>. QED
    BY <1>4, <2>2 DEF WalkInv
<1>. QED
  BY <1>3, <1>4 DEF WalkInv

LEMMA WalkStops ==
    ASSUME NEW name, NEW contexts, NEW done, Visiting(name, contexts), NEW i \in Nat,
           NEW w, NEW d, NEW stop \in {"rejected", "limited"},
           WalkInv(w, i, name, contexts, done), d = [w EXCEPT !.pc = stop],
           stop = "rejected" => Blamed,
           stop = "limited" => MaxEvaluations < Cost(i + 1, name, contexts)
    PROVE  WalkInv(d, i + 1, name, contexts, done)
<1>1. /\ d \in WalkStates /\ d.pc = stop /\ d.captured = w.captured /\ d.queue = w.queue
      /\ d.requested = w.requested /\ d.evaluations = w.evaluations /\ w.evaluations \in Nat
  BY DEF WalkInv, WalkStates
<1>2. Sound(d)
  BY <1>1 DEF WalkInv, Sound
<1>3. /\ Cost(i, name, contexts) \in Nat /\ Cost(i + 1, name, contexts) \in Nat
      /\ Cost(i, name, contexts) <= Cost(i + 1, name, contexts)
  BY CostGrows
<1>4. d.evaluations <= Cost(i + 1, name, contexts)
  BY <1>1, <1>3 DEF WalkInv
<1>. QED
  BY <1>1, <1>2, <1>4 DEF WalkInv

(* What is covered stays so while the walk asks for more.                      *)
LEMMA CoveredStays ==
    ASSUME NEW w, NEW d, NEW r, Covered(w, r), w.captured \subseteq d.captured \cup Closure!ToSet(d.queue),
           Closure!ToSet(w.queue) \subseteq d.captured \cup Closure!ToSet(d.queue),
           w.requested[r.to] \subseteq d.requested[r.to]
    PROVE  Covered(d, r)
BY DEF Covered

LEMMA WalkPasses ==
    ASSUME NEW name, NEW contexts, NEW done, Visiting(name, contexts), NEW i \in Nat, i + 1 \in DOMAIN requires,
           NEW w, NEW d, WalkInv(w, i, name, contexts, done), w.pc = "walking",
           ~Closure!Selects(requires[i + 1], contexts),
           d = [w EXCEPT !.evaluations = Used(w, requires[i + 1], contexts)],
           requires[i + 1].of = name
    PROVE  WalkInv(d, i + 1, name, contexts, done)
<1>. DEFINE r == requires[i + 1]
            used == Used(w, r, contexts)
<1>1. IsFiniteSet(contexts) /\ contexts # {} /\ w.evaluations \in Nat
  BY ContextsAreFinite DEF Visiting, WalkInv, WalkStates
<1>2. used \in Nat /\ used <= w.evaluations + 2 * Cardinality(contexts) /\ Cardinality(contexts) \in Nat
  BY <1>1, TriedIs DEF Used
<1>. HIDE DEF used
<1>3. /\ d \in WalkStates /\ d.pc = "walking" /\ d.captured = w.captured /\ d.queue = w.queue
      /\ d.requested = w.requested /\ d.evaluations = used
  BY <1>2 DEF WalkInv, WalkStates, used
<1>4. Sound(d)
  BY <1>3 DEF WalkInv, Sound
<1>5. d.evaluations <= Cost(i + 1, name, contexts)
  <2>1. /\ Cost(i, name, contexts) \in Nat
        /\ Cost(i + 1, name, contexts) = Cost(i, name, contexts) + 2 * Cardinality(contexts)
    BY CostGrows
  <2>2. w.evaluations <= Cost(i, name, contexts)
    BY DEF WalkInv
  <2>. QED
    BY <1>1, <1>2, <1>3, <2>1, <2>2
<1>6. \A m \in captured \cup {name} : Remains(d, done, m)
  BY <1>3 DEF WalkInv, Remains
<1>7. ASSUME NEW j \in 1 .. i + 1, requires[j].of = name, Closure!Selects(requires[j], contexts)
      PROVE  Covered(d, requires[j])
  <2>1. j \in 1 .. i
    <3>1. j # i + 1
      BY <1>7
    <3>. QED
      BY <3>1
  <2>2. Covered(w, requires[j])
    BY <1>7, <2>1 DEF WalkInv
  <2>. QED
    BY <1>3, <2>2 DEF Covered
<1>. QED
  BY <1>3, <1>4, <1>5, <1>6, <1>7 DEF WalkInv

LEMMA WalkFollows ==
    ASSUME NEW name, NEW contexts, NEW done, Visiting(name, contexts), NEW i \in Nat, i + 1 \in DOMAIN requires,
           NEW w, NEW d \in WalkStates, WalkInv(w, i, name, contexts, done), w.pc = "walking",
           Closure!Selects(requires[i + 1], contexts), {requires[i + 1].to, requires[i + 1]} \cap broken = {},
           Follows(w, d, requires[i + 1], contexts), requires[i + 1].of = name
    PROVE  WalkInv(d, i + 1, name, contexts, done)
<1>. DEFINE r == requires[i + 1]
<1>1. r \in Closure!ToSet(requires)
  BY DEF Closure!ToSet
<1>2. /\ r.to \in Distributions /\ r.extras \in SUBSET Extras /\ w \in WalkStates
      /\ w.requested \in [Distributions -> SUBSET Extras] /\ w.queue \in Seq(Distributions)
      /\ w.evaluations \in Nat /\ Typed
  BY <1>1, RequirementIs DEF Visiting, WalkInv, WalkStates
<1>3. /\ <<r.to, 0>> \in Closure!Closure
      /\ \A c \in r.extras : <<r.to, c>> \in Closure!Closure
  BY <1>1, SelectedIsNeeded
<1>. HIDE DEF r
<1>4. /\ d.pc = "walking" /\ d.captured = w.captured
      /\ d.requested = [w.requested EXCEPT ![r.to] = w.requested[r.to] \cup r.extras]
      /\ d.evaluations = Used(w, r, contexts)
  BY DEF Follows, r
<1>5. /\ \A m \in Distributions : w.requested[m] \subseteq d.requested[m] /\ (m # r.to => d.requested[m] = w.requested[m])
      /\ d.requested[r.to] = w.requested[r.to] \cup r.extras
  BY <1>2, <1>4
<1>6. /\ Closure!ToSet(d.queue) \subseteq Closure!ToSet(w.queue) \cup {r.to}
      /\ Closure!ToSet(w.queue) \subseteq Closure!ToSet(d.queue)
      /\ \/ r.to \in w.captured /\ r.extras \subseteq w.requested[r.to]
         \/ r.to \in Closure!ToSet(d.queue)
  <2>1. CASE ~Closure!Wants(w, r) /\ d.queue = w.queue
    BY <2>1 DEF Closure!Wants
  <2>2. CASE r.to \in Closure!ToSet(w.queue) /\ d.queue = w.queue
    BY <2>2
  <2>3. CASE d.queue = Append(w.queue, r.to)
    <3>1. Closure!ToSet(d.queue) = Closure!ToSet(w.queue) \cup {r.to}
      BY <1>2, <2>3, ListIs
    <3>. QED
      BY <3>1
  <2>. QED
    BY <2>1, <2>2, <2>3 DEF Follows, r
<1>7. Sound(d)
  <2>1. \A m \in Closure!ToSet(d.queue) : <<m, 0>> \in Closure!Closure
    BY <1>3, <1>6 DEF WalkInv, Sound
  <2>2. ASSUME NEW m \in Distributions, NEW c \in d.requested[m] PROVE <<m, c>> \in Closure!Closure
    <3>1. CASE c \in w.requested[m]
      BY <3>1 DEF WalkInv, Sound
    <3>2. CASE c \notin w.requested[m]
      <4>1. m = r.to /\ c \in r.extras
        BY <1>5, <2>2, <3>2
      <4>. QED
        BY <1>3, <4>1
    <3>. QED
      BY <3>1, <3>2
  <2>. QED
    BY <2>1, <2>2 DEF Sound
<1>8. d.evaluations <= Cost(i + 1, name, contexts)
  <2>1. IsFiniteSet(contexts) /\ contexts # {}
    BY ContextsAreFinite DEF Visiting
  <2>2. d.evaluations \in Nat /\ d.evaluations <= w.evaluations + 2 * Cardinality(contexts) /\ Cardinality(contexts) \in Nat
    BY <1>2, <1>4, <2>1, TriedIs DEF Used
  <2>3. /\ Cost(i, name, contexts) \in Nat
        /\ Cost(i + 1, name, contexts) = Cost(i, name, contexts) + 2 * Cardinality(contexts)
    BY CostGrows DEF r
  <2>4. w.evaluations <= Cost(i, name, contexts)
    BY DEF WalkInv
  <2>. QED
    BY <1>2, <2>2, <2>3, <2>4
<1>9. ASSUME NEW m \in captured \cup {name} PROVE Remains(d, done, m)
  <2>1. m \in Distributions /\ Remains(w, done, m) /\ m \in w.captured
    BY DEF WalkInv, WalkStates
  <2>2. CASE m = r.to /\ ~(r.extras \subseteq w.requested[r.to])
    BY <1>6, <2>2 DEF Remains
  <2>3. CASE ~(m = r.to /\ ~(r.extras \subseteq w.requested[r.to]))
    <3>1. d.requested[m] = w.requested[m]
      BY <1>5, <2>1, <2>3
    <3>. QED
      BY <1>6, <2>1, <3>1 DEF Remains
  <2>. QED
    BY <2>2, <2>3
<1>10. ASSUME NEW j \in 1 .. i + 1, requires[j].of = name, Closure!Selects(requires[j], contexts)
       PROVE  Covered(d, requires[j])
  <2>1. CASE j = i + 1
    <3>1. Covered(d, r)
      <4>1. r.to \in d.captured \cup Closure!ToSet(d.queue)
        BY <1>4, <1>6
      <4>2. r.extras \subseteq d.requested[r.to]
        BY <1>5
      <4>3. {r.to, r} \cap broken = {}
        BY DEF r
      <4>. QED
        BY <4>1, <4>2, <4>3 DEF Covered
    <3>. QED
      BY <2>1, <3>1 DEF r
  <2>2. CASE j # i + 1
    <3>1. j \in 1 .. i /\ j \in DOMAIN requires
      BY <1>2, <2>2 DEF Typed
    <3>2. Covered(w, requires[j])
      BY <1>10, <3>1 DEF WalkInv
    <3>3. requires[j] \in Closure!ToSet(requires)
      BY <3>1 DEF Closure!ToSet
    <3>4. requires[j].to \in Distributions
      BY <1>2, <3>3, RequirementIs
    <3>5. /\ w.requested[requires[j].to] \subseteq d.requested[requires[j].to]
          /\ w.captured \subseteq d.captured \cup Closure!ToSet(d.queue)
          /\ Closure!ToSet(w.queue) \subseteq d.captured \cup Closure!ToSet(d.queue)
      BY <1>4, <1>5, <1>6, <3>4
    <3>. QED
      BY <3>2, <3>5, CoveredStays
  <2>. QED
    BY <2>1, <2>2
<1>11. \A m \in Distributions : requested[m] \subseteq d.requested[m]
  BY <1>5 DEF WalkInv
<1>12. name \notin broken /\ Closure!ToSet(Tail(queue)) \subseteq Closure!ToSet(d.queue)
  BY <1>6 DEF WalkInv
<1>13. d.captured = captured \cup {name}
  BY <1>4 DEF WalkInv
<1>. QED
  BY <1>4, <1>7, <1>8, <1>9, <1>10, <1>11, <1>12, <1>13 DEF WalkInv

LEMMA WalkStep ==
    ASSUME NEW name, NEW contexts, NEW done, Visiting(name, contexts), NEW i \in Nat, i + 1 \in DOMAIN requires,
           NEW w, WalkInv(w, i, name, contexts, done)
    PROVE  WalkInv(IF requires[i + 1].of = name THEN Closure!Demand(w, requires[i + 1], contexts) ELSE w,
                   i + 1, name, contexts, done)
<1>. DEFINE r == requires[i + 1]
            d == Closure!Demand(w, r, contexts)
<1>1. CASE r.of # name
  BY <1>1, WalkRests
<1>2. CASE r.of = name /\ w.pc # "walking"
  <2>1. d = w
    BY <1>2, Zenon DEF Closure!Demand
  <2>. HIDE DEF d
  <2>. QED
    BY <1>2, <2>1, WalkRests DEF d
<1>3. CASE r.of = name /\ w.pc = "walking"
  <2>1. /\ Typed /\ w \in WalkStates /\ r \in Closure!ToSet(requires)
        /\ contexts \in SUBSET Closure!Contexts /\ contexts # {} /\ w.evaluations \in Nat
    BY DEF Visiting, WalkInv, WalkStates, Closure!ToSet
  <2>2. IsFiniteSet(contexts) /\ Cardinality(contexts) \in Nat
    BY <2>1, ContextsAreFinite
  <2>3. \/ Used(w, r, contexts) > MaxEvaluations /\ d = [w EXCEPT !.pc = "limited"]
        \/ /\ ~Closure!Selects(r, contexts)
           /\ d = [w EXCEPT !.evaluations = Used(w, r, contexts)]
        \/ /\ Closure!Selects(r, contexts)
           /\ {r.to, r} \cap broken # {} /\ d = [w EXCEPT !.pc = "rejected"]
        \/ /\ Closure!Selects(r, contexts)
           /\ {r.to, r} \cap broken = {} /\ d \in WalkStates /\ Follows(w, d, r, contexts)
    <3>. HIDE DEF r
    <3>. QED
      BY <1>3, <2>1, <2>2, DemandIs
  <2>. HIDE DEF d
  <2>4. CASE Used(w, r, contexts) > MaxEvaluations /\ d = [w EXCEPT !.pc = "limited"]
    <3>1. Used(w, r, contexts) \in Nat /\ Used(w, r, contexts) <= w.evaluations + 2 * Cardinality(contexts)
      BY <2>1, <2>2, TriedIs DEF Used
    <3>2. /\ Cost(i, name, contexts) \in Nat
          /\ Cost(i + 1, name, contexts) = Cost(i, name, contexts) + 2 * Cardinality(contexts)
      BY <1>3, CostGrows
    <3>3. w.evaluations <= Cost(i, name, contexts)
      BY DEF WalkInv
    <3>4. MaxEvaluations < Cost(i + 1, name, contexts)
      BY <2>1, <2>2, <2>4, <3>1, <3>2, <3>3, ClosureConstants
    <3>5. WalkInv(d, i + 1, name, contexts, done)
      BY <2>4, <3>4, WalkStops
    <3>. QED
      BY <1>3, <3>5 DEF d
  <2>5. CASE ~Closure!Selects(r, contexts) /\ d = [w EXCEPT !.evaluations = Used(w, r, contexts)]
    <3>1. WalkInv(d, i + 1, name, contexts, done)
      BY <1>3, <2>5, WalkPasses
    <3>. QED
      BY <1>3, <3>1 DEF d
  <2>6. CASE /\ Closure!Selects(r, contexts)
             /\ {r.to, r} \cap broken # {} /\ d = [w EXCEPT !.pc = "rejected"]
    <3>1. Blamed
      BY <1>3, <2>1, <2>6, SelectedIsNeeded
    <3>2. WalkInv(d, i + 1, name, contexts, done)
      BY <2>6, <3>1, WalkStops
    <3>. QED
      BY <1>3, <3>2 DEF d
  <2>7. CASE /\ Closure!Selects(r, contexts)
             /\ {r.to, r} \cap broken = {} /\ d \in WalkStates /\ Follows(w, d, r, contexts)
    <3>1. WalkInv(d, i + 1, name, contexts, done)
      BY <1>3, <2>7, WalkFollows
    <3>. QED
      BY <1>3, <3>1 DEF d
  <2>. QED
    BY <2>3, <2>4, <2>5, <2>6, <2>7
<1>. QED
  BY <1>1, <1>2, <1>3

LEMMA DemandStays ==
    ASSUME Typed, NEW w \in WalkStates, NEW r \in Closure!ToSet(requires),
           NEW contexts, IsFiniteSet(contexts), contexts # {}
    PROVE  Closure!Demand(w, r, contexts) \in WalkStates
<1>. DEFINE d == Closure!Demand(w, r, contexts)
            used == Used(w, r, contexts)
<1>1. CASE w.pc # "walking"
  <2>1. d = w
    BY <1>1, Zenon DEF Closure!Demand
  <2>. QED
    BY <2>1
<1>2. CASE w.pc = "walking"
  <2>1. used \in Nat
    <3>1. w.evaluations \in Nat
      BY DEF WalkStates
    <3>. QED
      BY <3>1, TriedIs DEF Used
  <2>2. \/ d = [w EXCEPT !.pc = "limited"] \/ d = [w EXCEPT !.evaluations = used]
        \/ d = [w EXCEPT !.pc = "rejected"] \/ d \in WalkStates
    BY <1>2, DemandIs
  <2>. HIDE DEF d, used
  <2>3. d \in WalkStates
    BY <2>1, <2>2 DEF WalkStates
  <2>. QED
    BY <2>3 DEF d
<1>. QED
  BY <1>1, <1>2

LEMMA WalkWhole ==
    ASSUME NEW name, NEW contexts, NEW done, Visiting(name, contexts), NEW start,
           WalkInv(start, 0, name, contexts, done)
    PROVE  WalkInv(Closure!Demanded(start, name, contexts), Len(requires), name, contexts, done)
<1>. DEFINE n == Len(requires)
            After(w, i) == IF requires[i].of = name THEN Closure!Demand(w, requires[i], contexts) ELSE w
            Walk(f) == f = [i \in 0 .. n |-> IF i = 0 THEN start
                                             ELSE IF requires[i].of = name
                                                     THEN Closure!Demand(f[i - 1], requires[i], contexts)
                                             ELSE f[i - 1]]
<1>1. Typed /\ n \in Nat /\ DOMAIN requires = 1 .. n
  BY DEF Visiting, Typed
<1>2. start \in WalkStates /\ IsFiniteSet(contexts) /\ contexts # {}
  BY ContextsAreFinite DEF WalkInv, Visiting
<1>3. \E f : Walk(f)
  <2>. DEFINE step == [i \in 1 .. n |-> [w \in WalkStates |-> After(w, i)]]
  <2>. HIDE DEF n
  <2>1. \A i \in 1 .. n : \A w \in WalkStates : step[i][w] = After(w, i)
    <3>. HIDE DEF After
    <3>. QED
      OBVIOUS
  <2>. HIDE DEF step
  <2>2. \A i \in 1 .. n : \A w \in WalkStates : After(w, i) \in WalkStates
    <3>1. \A i \in 1 .. n : requires[i] \in Closure!ToSet(requires)
      BY <1>1 DEF Closure!ToSet
    <3>2. ASSUME NEW i \in 1 .. n, NEW w \in WalkStates PROVE After(w, i) \in WalkStates
      <4>1. requires[i] \in Closure!ToSet(requires)
        BY <3>1
      <4>2. Closure!Demand(w, requires[i], contexts) \in WalkStates
        BY <1>1, <1>2, <4>1, DemandStays
      <4>. QED
        BY <4>2
    <3>. QED
      BY <3>2
  <2>3. Stays(step, n, WalkStates)
    <3>. HIDE DEF After
    <3>. QED
      BY <2>1, <2>2 DEF Stays
  <2>4. PICK f : f \in [0 .. n -> WalkStates] /\ Recurs(f, start, n, step)
    <3>1. n \in Nat
      BY <1>1
    <3>. QED
      BY <1>2, <2>3, <3>1, Recursion
  <2>5. f[0] = start /\ \A i \in 1 .. n : f[i] = After(f[i - 1], i)
    <3>. HIDE DEF After
    <3>1. \A i \in 1 .. n : i - 1 \in 0 .. n /\ f[i - 1] \in WalkStates
      BY <1>1, <2>4
    <3>. QED
      BY <2>1, <2>4, <3>1 DEF Recurs
  <2>6. \A i \in 0 .. n : f[i] = IF i = 0 THEN start
                                 ELSE IF requires[i].of = name
                                         THEN Closure!Demand(f[i - 1], requires[i], contexts)
                                 ELSE f[i - 1]
    BY <1>1, <2>5
  <2>7. Walk(f)
    <3>1. f = [i \in 0 .. n |-> f[i]]
      BY <2>4
    <3>. QED
      BY <2>6, <3>1, Zenon
  <2>. QED
    BY <2>7
<1>. DEFINE g == CHOOSE f : Walk(f)
<1>4. Closure!Demanded(start, name, contexts) = g[n]
  BY Zenon DEF Closure!Demanded
<1>5. Walk(g)
  <2>. HIDE DEF Walk
  <2>. QED
    BY <1>3
<1>. HIDE DEF g, n
<1>6. g[0] = start /\ \A i \in 1 .. n : g[i] = After(g[i - 1], i)
  <2>1. \A i \in 0 .. n : g[i] = IF i = 0 THEN start
                                 ELSE IF requires[i].of = name
                                         THEN Closure!Demand(g[i - 1], requires[i], contexts)
                                 ELSE g[i - 1]
    BY <1>5
  <2>2. 0 \in 0 .. n /\ \A i \in 1 .. n : i \in 0 .. n /\ i # 0
    BY <1>1
  <2>. QED
    BY <2>1, <2>2
<1>. HIDE DEF Walk
<1>. DEFINE T == { i \in 0 .. n : WalkInv(g[i], i, name, contexts, done) }
<1>7. 0 \in T
  BY <1>1, <1>6
<1>8. ASSUME NEW i \in 0 .. n - 1, i \in T PROVE i + 1 \in T
  <2>1. i + 1 \in 1 .. n /\ i + 1 \in 0 .. n /\ (i + 1) - 1 = i /\ i + 1 \in DOMAIN requires /\ i \in Nat
    BY <1>1
  <2>2. WalkInv(g[i], i, name, contexts, done)
    BY <1>8
  <2>3. WalkInv(After(g[i], i + 1), i + 1, name, contexts, done)
    BY <2>1, <2>2, WalkStep
  <2>. HIDE DEF After
  <2>4. g[i + 1] = After(g[i], i + 1)
    BY <1>6, <2>1
  <2>. QED
    BY <2>1, <2>3, <2>4
<1>9. n \in T
  <2>. HIDE DEF T
  <2>1. \A i \in 0 .. n : i \in T
    BY <1>1, <1>7, <1>8, UpTo
  <2>. QED
    BY <1>1, <2>1
<1>. QED
  BY <1>4, <1>9 DEF n

(* DependencyClosure: the steps                                                *)

LEMMA TasksGrow ==
    ASSUME NEW pairs, NEW more, pairs \subseteq more, Typed, more \subseteq Universe
    PROVE  /\ IsFiniteSet(Considered(more)) /\ IsFiniteSet(Considered(pairs))
           /\ Cardinality(Considered(more)) \in Nat /\ Cardinality(Considered(pairs)) \in Nat
           /\ Cardinality(Considered(pairs)) <= Cardinality(Considered(more))
<1>1. IsFiniteSet(Universe)
  <2>1. IsFiniteSet(Closure!Contexts)
    BY ContextsAreFinite
  <2>. QED
    BY <2>1, ClosureConstants, ProductIsFinite DEF Universe
<1>2. IsFiniteSet(more)
  BY <1>1, FS_Subset
<1>3. IsFiniteSet(DOMAIN requires)
  <2>1. DOMAIN requires = 1 .. Len(requires) /\ Len(requires) \in Nat
    BY DEF Typed
  <2>. QED
    BY <2>1, FS_Interval
<1>4. IsFiniteSet((DOMAIN requires) \X more)
  BY <1>2, <1>3, ProductIsFinite
<1>5. Considered(more) \subseteq (DOMAIN requires) \X more /\ Considered(pairs) \subseteq Considered(more)
  BY DEF Considered
<1>6. IsFiniteSet(Considered(more))
  BY <1>4, <1>5, FS_Subset
<1>7. IsFiniteSet(Considered(pairs)) /\ Cardinality(Considered(pairs)) <= Cardinality(Considered(more))
  BY <1>5, <1>6, FS_Subset
<1>. QED
  BY <1>6, <1>7, FS_CardinalityType

(* The tasks of a visit are not those of the visits before it.                 *)
LEMMA TasksOfVisit ==
    ASSUME NEW name, NEW contexts, Visiting(name, contexts), NEW pairs, pairs \subseteq Universe,
           pairs \cap ({name} \X contexts) = {}
    PROVE  Cardinality(Considered(pairs \cup ({name} \X contexts))) =
             Cardinality(Considered(pairs)) + Cardinality(Load(Len(requires), name, contexts))
<1>. DEFINE L == Load(Len(requires), name, contexts)
            P == {name} \X contexts
            X == Considered(pairs)
            Y == Considered(pairs \cup P)
<1>1. DOMAIN requires = 1 .. Len(requires) /\ Len(requires) \in Nat /\ Typed
  BY DEF Visiting, Typed
<1>2. L = Considered(P)
  <2>1. \A x \in P : x[1] = name
    OBVIOUS
  <2>2. \A x \in (1 .. Len(requires)) \X P : x[2] \in P
    OBVIOUS
  <2>3. \A x \in (1 .. Len(requires)) \X P : requires[x[1]].of = x[2][1] <=> requires[x[1]].of = name
    BY <2>1, <2>2
  <2>. HIDE DEF P
  <2>4. L = { x \in (1 .. Len(requires)) \X P : requires[x[1]].of = name }
    BY DEF Load, P
  <2>. HIDE DEF L
  <2>. QED
    BY <1>1, <2>3, <2>4 DEF Considered
<1>3. Y = X \cup Considered(P)
  <2>. HIDE DEF P
  <2>1. \A x \in Considered(pairs \cup P) : x \in Considered(pairs) \/ x \in Considered(P)
    BY DEF Considered
  <2>2. \A x \in Considered(pairs) : x \in Considered(pairs \cup P)
    BY DEF Considered
  <2>3. \A x \in Considered(P) : x \in Considered(pairs \cup P)
    BY DEF Considered
  <2>. QED
    BY <2>1, <2>2, <2>3
<1>4. X \cap Considered(P) = {}
  <2>. HIDE DEF P
  <2>1. ASSUME NEW x \in Considered(pairs), x \in Considered(P) PROVE FALSE
    <3>1. x[2] \in pairs /\ x[2] \in P
      BY <2>1 DEF Considered
    <3>. QED
      BY <3>1 DEF P
  <2>. QED
    BY <2>1
<1>5. IsFiniteSet(X) /\ IsFiniteSet(L)
  BY <1>1, TasksGrow, LoadIs
<1>6. Y = X \cup L /\ X \cap L = {}
  BY <1>2, <1>3, <1>4
<1>. HIDE DEF X, Y, L
<1>7. Cardinality(X \cup L) = Cardinality(X) + Cardinality(L)
  BY <1>5, <1>6, SumOfParts
<1>8. Cardinality(Y) = Cardinality(X) + Cardinality(L)
  BY <1>6, <1>7
<1>. QED
  BY <1>8, Zenon DEF X, Y, L, P

LEMMA ClosureAtFirst ==
    ASSUME Closure!Init PROVE ClosureInv
<1>1. Typed
  <2>1. requires \in Closure!BoundedSeq(Closure!Requirements, MaxRequirements)
    BY DEF Closure!Init
  <2>. QED
    BY <2>1 DEF Typed, Closure!BoundedSeq, Closure!SeqOf
<1>2. /\ queue = Roots /\ pc = "walking" /\ requested = [n \in Distributions |-> {}]
      /\ processed = [n \in Distributions |-> {}] /\ captured = {} /\ evaluations = 0
  BY DEF Closure!Init
<1>3. Now \in WalkStates
  BY <1>2, ClosureConstants DEF Now, WalkStates
<1>4. processed \in [Distributions -> SUBSET Closure!Contexts] /\ Seen = {}
  BY <1>2 DEF Seen
<1>5. Sound(Now)
  <2>1. \A m \in Closure!ToSet(queue) : <<m, 0>> \in RootPairs
    BY <1>2 DEF RootPairs
  <2>2. \A m \in Closure!ToSet(queue) : <<m, 0>> \in Closure!Closure
    BY <1>1, <2>1, ClosureIs
  <2>. QED
    BY <1>2, <2>2 DEF Sound, Now
<1>6. Cardinality(Considered(Seen)) \in Nat
  BY <1>1, <1>4, TasksGrow
<1>. QED
  BY <1>1, <1>2, <1>3, <1>4, <1>5, <1>6 DEF ClosureInv

ClosureFacts ==
    /\ Closure!Closure \in SUBSET Universe
    /\ RootPairs \subseteq Closure!Closure
    /\ IsClosed(Closure!Closure)
    /\ \A pairs \in SUBSET Universe :
         RootPairs \subseteq pairs /\ IsClosed(pairs) => Closure!Closure \subseteq pairs

LEMMA FactsHold == Typed => ClosureFacts
BY ClosureIs DEF ClosureFacts

LEMMA FactsHoldNext == Typed' => ClosureFacts'
BY FactsHold, PTL

LEMMA ClosureStays ==
    ASSUME Typed, requires' = requires
    PROVE  (Closure!Closure)' = Closure!Closure
<1>1. ClosureFacts /\ (Typed' => ClosureFacts')
  BY FactsHold, FactsHoldNext
<1>3. Typed' /\ \A pairs : IsClosed(pairs)' <=> IsClosed(pairs)
  BY DEF Typed, IsClosed, Closure!Demands
<1>4. /\ (Closure!Closure)' \in SUBSET Universe
      /\ RootPairs \subseteq (Closure!Closure)'
      /\ IsClosed((Closure!Closure)')
      /\ \A pairs \in SUBSET Universe :
           RootPairs \subseteq pairs /\ IsClosed(pairs) => (Closure!Closure)' \subseteq pairs
  BY <1>1, <1>3 DEF ClosureFacts
<1>. QED
  BY <1>1, <1>4 DEF ClosureFacts

LEMMA ClosureSkips ==
    ASSUME ClosureInv, Closure!Skip PROVE ClosureInv'
<1>1. /\ pc = "walking" /\ queue # <<>> /\ Closure!News(Head(queue)) = {} /\ Head(queue) \in captured
      /\ queue' = Tail(queue)
      /\ UNCHANGED <<requires, broken, requested, processed, captured, evaluations, pc>>
  BY DEF Closure!Skip
<1>3. /\ queue \in Seq(Distributions) /\ requested \in [Distributions -> SUBSET Extras] /\ captured \in SUBSET Distributions
      /\ evaluations \in Nat
  BY DEF ClosureInv, Now, WalkStates
<1>4. /\ Head(queue) \in Distributions /\ Tail(queue) \in Seq(Distributions)
      /\ Closure!ToSet(queue) = {Head(queue)} \cup Closure!ToSet(Tail(queue))
  BY <1>1, <1>3, ListIs
<1>5. Now' \in WalkStates
  BY <1>1, <1>3, <1>4 DEF Now, WalkStates
<1>6. /\ Typed' /\ (Closure!Closure)' = Closure!Closure /\ Seen' = Seen /\ Considered(Seen)' = Considered(Seen)
      /\ Blamed' = Blamed /\ Considered(Closure!Closure)' = Considered(Closure!Closure)
      /\ processed' = processed
  <2>1. Typed'
    BY <1>1 DEF ClosureInv, Typed
  <2>2. (Closure!Closure)' = Closure!Closure
    BY <1>1, ClosureStays DEF ClosureInv
  <2>3. Seen' = Seen
    BY <1>1 DEF Seen
  <2>4. Considered(Seen)' = Considered(Seen) /\ Considered(Closure!Closure)' = Considered(Closure!Closure)
    BY <1>1, <2>2, <2>3 DEF Considered
  <2>5. Blamed' = Blamed
    BY <1>1, <2>2 DEF Blamed, Closure!Demands
  <2>. QED
    BY <1>1, <2>1, <2>2, <2>3, <2>4, <2>5
<1>7. Sound(Now)'
  <2>1. \A m \in Distributions : \A c \in requested[m] : <<m, c>> \in Closure!Closure
    BY DEF ClosureInv, Sound, Now
  <2>2. \A m \in Closure!ToSet(Tail(queue)) : <<m, 0>> \in Closure!Closure
    BY <1>4 DEF ClosureInv, Sound, Now
  <2>. QED
    BY <1>1, <1>6, <2>1, <2>2 DEF Sound, Now
<1>8. ASSUME NEW m \in captured PROVE Remains(Now, processed, m)'
  <2>1. Remains(Now, processed, m) /\ m \in Distributions
    BY <1>1, <1>3 DEF ClosureInv
  <2>2. CASE m = Head(queue)
    <3>1. requested[m] \subseteq processed[m]
      BY <1>1, <2>2 DEF Closure!News, Closure!Asked
    <3>. QED
      BY <1>1, <3>1 DEF Remains, Now
  <2>3. CASE m # Head(queue)
    BY <1>1, <1>4, <2>1, <2>3 DEF Remains, Now
  <2>. QED
    BY <2>2, <2>3
<1>9. ASSUME NEW p \in Seen, NEW r \in Closure!Demands(p) PROVE Covered(Now, r)'
  <2>1. Covered(Now, r)
    BY <1>1 DEF ClosureInv
  <2>. QED
    BY <1>1, <1>4, <2>1 DEF Covered, Now
<1>10. \A m \in Closure!ToSet(Roots) : m \in captured \cup Closure!ToSet(Tail(queue))
  BY <1>1, <1>4 DEF ClosureInv
<1>11. \A p \in Seen : (Closure!Demands(p))' = Closure!Demands(p)
  BY <1>1 DEF Closure!Demands
<1>12. /\ pc' = "walking" /\ Seen' \subseteq (Closure!Closure)'
       /\ evaluations' <= 2 * Cardinality(Considered(Seen)')
       /\ \A m \in Distributions : IF m \in captured' THEN 0 \in processed'[m] ELSE processed'[m] = {}
  BY <1>1, <1>6 DEF ClosureInv
<1>13. /\ \A m \in Closure!ToSet(Roots) : m \in captured' \cup Closure!ToSet(queue')
       /\ captured' \cap broken' = {}
       /\ \A m \in captured' : Remains(Now, processed, m)'
       /\ \A p \in Seen' : \A r \in (Closure!Demands(p))' : Covered(Now, r)'
  BY <1>1, <1>6, <1>8, <1>9, <1>10, <1>11 DEF ClosureInv
<1>14. processed' \in [Distributions -> SUBSET Closure!Contexts]
  BY <1>1 DEF ClosureInv
<1>. QED
  BY <1>5, <1>6, <1>7, <1>12, <1>13, <1>14 DEF ClosureInv

LEMMA ClosureCloses ==
    ASSUME ClosureInv, Closure!Close PROVE ClosureInv'
<1>1. /\ pc = "walking" /\ queue = <<>> /\ pc' = "closed"
      /\ UNCHANGED <<requires, broken, queue, requested, processed, captured, evaluations>>
  BY DEF Closure!Close
<1>2. /\ queue \in Seq(Distributions) /\ requested \in [Distributions -> SUBSET Extras] /\ captured \in SUBSET Distributions
      /\ evaluations \in Nat
  BY DEF ClosureInv, Now, WalkStates
<1>3. Now' \in WalkStates
  BY <1>1, <1>2 DEF Now, WalkStates
<1>4. /\ Typed' /\ (Closure!Closure)' = Closure!Closure /\ Seen' = Seen /\ Considered(Seen)' = Considered(Seen)
      /\ \A p \in Seen : (Closure!Demands(p))' = Closure!Demands(p)
  <2>1. Typed'
    BY <1>1 DEF ClosureInv, Typed
  <2>2. (Closure!Closure)' = Closure!Closure
    BY <1>1, ClosureStays DEF ClosureInv
  <2>3. Seen' = Seen
    BY <1>1 DEF Seen
  <2>4. Considered(Seen)' = Considered(Seen) /\ \A p \in Seen : (Closure!Demands(p))' = Closure!Demands(p)
    BY <1>1, <2>3 DEF Considered, Closure!Demands
  <2>. QED
    BY <2>1, <2>2, <2>3, <2>4
<1>5. Sound(Now)'
  BY <1>1, <1>4 DEF ClosureInv, Sound, Now
<1>6. /\ \A m \in captured' : Remains(Now, processed, m)'
      /\ \A p \in Seen' : \A r \in (Closure!Demands(p))' : Covered(Now, r)'
  BY <1>1, <1>4 DEF ClosureInv, Remains, Covered, Now
<1>7. /\ processed' \in [Distributions -> SUBSET Closure!Contexts] /\ Seen' \subseteq (Closure!Closure)'
      /\ evaluations' <= 2 * Cardinality(Considered(Seen)')
      /\ \A m \in Distributions : IF m \in captured' THEN 0 \in processed'[m] ELSE processed'[m] = {}
      /\ \A m \in Closure!ToSet(Roots) : m \in captured' \cup Closure!ToSet(queue')
      /\ captured' \cap broken' = {}
  BY <1>1, <1>4 DEF ClosureInv
<1>. QED
  BY <1>1, <1>3, <1>4, <1>5, <1>6, <1>7 DEF ClosureInv

Start(name) ==
    [pc |-> IF name \in broken THEN "rejected" ELSE pc, queue |-> Tail(queue),
     requested |-> requested, captured |-> captured \cup {name}, evaluations |-> evaluations]
Done(name, contexts) == [processed EXCEPT ![name] = @ \cup contexts]

LEMMA VisitStarts ==
    ASSUME ClosureInv, pc = "walking", queue # <<>>,
           Closure!News(Head(queue)) # {} \/ Head(queue) \notin captured
    PROVE  /\ Visiting(Head(queue), Closure!News(Head(queue)))
           /\ WalkInv(Start(Head(queue)), 0, Head(queue), Closure!News(Head(queue)),
                      Done(Head(queue), Closure!News(Head(queue))))
<1>. DEFINE name == Head(queue)
            contexts == Closure!News(name)
            start == Start(name)
            done == Done(name, contexts)
<1>1. /\ queue \in Seq(Distributions) /\ requested \in [Distributions -> SUBSET Extras] /\ captured \in SUBSET Distributions
      /\ evaluations \in Nat /\ processed \in [Distributions -> SUBSET Closure!Contexts] /\ Typed
  BY DEF ClosureInv, Now, WalkStates
<1>2. /\ name \in Distributions /\ Tail(queue) \in Seq(Distributions)
      /\ Closure!ToSet(queue) = {name} \cup Closure!ToSet(Tail(queue))
  BY <1>1, ListIs
<1>. HIDE DEF name
<1>3. contexts = ({0} \cup requested[name]) \ processed[name]
  BY DEF Closure!News, Closure!Asked, Closure!Base
<1>4. contexts \in SUBSET Closure!Contexts
  BY <1>1, <1>2, <1>3 DEF Closure!Contexts, Closure!Base
<1>5. contexts # {}
  <2>1. name \notin captured => processed[name] = {}
    BY <1>2 DEF ClosureInv
  <2>. QED
    BY <1>3, <2>1 DEF name
<1>. HIDE DEF contexts
<1>6. /\ <<name, 0>> \in Closure!Closure /\ \A c \in requested[name] : <<name, c>> \in Closure!Closure
      /\ \A m \in Closure!ToSet(Tail(queue)) : <<m, 0>> \in Closure!Closure
  BY <1>2 DEF ClosureInv, Sound, Now
<1>7. Visiting(name, contexts)
  BY <1>1, <1>2, <1>3, <1>4, <1>5, <1>6 DEF Visiting
<1>8. /\ start \in WalkStates /\ start.pc \in {"walking", "rejected", "limited"}
      /\ start.captured = captured \cup {name} /\ start.requested = requested
      /\ start.queue = Tail(queue) /\ start.evaluations = evaluations
      /\ start.pc = IF name \in broken THEN "rejected" ELSE "walking"
  BY <1>1, <1>2 DEF Start, WalkStates
<1>9. done = [m \in Distributions |-> IF m = name THEN processed[m] \cup contexts ELSE processed[m]]
  BY <1>1, <1>2 DEF Done
<1>. HIDE DEF start, done
<1>10. Sound(start)
  BY <1>6, <1>8 DEF ClosureInv, Sound, Now
<1>11. start.evaluations <= Cost(0, name, contexts)
  <2>1. Load(0, name, contexts) = {}
    BY DEF Load
  <2>2. Cardinality(Load(0, name, contexts)) = 0
    BY <2>1, FS_EmptySet
  <2>. QED
    BY <1>1, <1>8, <2>2 DEF Cost
<1>12. name \in broken => Blamed
  <2>. DEFINE q == <<name, 0>>
  <2>1. q[1] = name
    OBVIOUS
  <2>2. q \in Closure!Closure
    BY <1>6
  <2>3. name \in { p[1] : p \in Closure!Closure }
    BY <2>1, <2>2, Zenon
  <2>. QED
    BY <2>3, Zenon DEF Blamed
<1>13. ASSUME NEW m \in captured \cup {name} PROVE Remains(start, done, m)
  <2>1. CASE m = name
    BY <1>2, <1>3, <1>8, <1>9, <2>1 DEF Remains
  <2>2. CASE m # name
    <3>1. requested[m] \subseteq processed[m] \/ m \in Closure!ToSet(queue)
      BY <2>2 DEF ClosureInv, Remains, Now
    <3>2. m \in Distributions
      BY <1>1, <1>2
    <3>. QED
      BY <1>2, <1>8, <1>9, <2>2, <3>1, <3>2 DEF Remains
  <2>. QED
    BY <2>1, <2>2
<1>14. WalkInv(start, 0, name, contexts, done)
  BY <1>8, <1>10, <1>11, <1>12, <1>13 DEF WalkInv
<1>. QED
  BY <1>7, <1>14 DEF start, done, name, contexts

LEMMA ClosureVisits ==
    ASSUME ClosureInv, Closure!Visit PROVE ClosureInv'
<1>. DEFINE name == Head(queue)
            contexts == Closure!News(name)
            done == Done(name, contexts)
            walk == Closure!Demanded(Start(name), name, contexts)
            n == Len(requires)
<1>1. /\ pc = "walking" /\ queue # <<>> /\ (contexts # {} \/ name \notin captured)
      /\ pc' = walk.pc /\ queue' = walk.queue /\ requested' = walk.requested
      /\ captured' = walk.captured /\ evaluations' = walk.evaluations
      /\ processed' = done /\ requires' = requires /\ broken' = broken
  BY Zenon DEF Closure!Visit, Start, Done
<1>2. Visiting(name, contexts) /\ WalkInv(Start(name), 0, name, contexts, done)
  BY <1>1, VisitStarts
<1>. HIDE DEF name, contexts, done
<1>3. WalkInv(walk, n, name, contexts, done)
  BY <1>2, WalkWhole
<1>4. contexts = ({0} \cup requested[name]) \ processed[name]
  BY DEF Closure!News, Closure!Asked, Closure!Base, contexts
<1>5. /\ queue \in Seq(Distributions) /\ requested \in [Distributions -> SUBSET Extras] /\ captured \in SUBSET Distributions
      /\ evaluations \in Nat /\ processed \in [Distributions -> SUBSET Closure!Contexts] /\ Typed
  BY DEF ClosureInv, Now, WalkStates
<1>6. /\ name \in Distributions /\ Closure!ToSet(queue) = {name} \cup Closure!ToSet(Tail(queue))
      /\ contexts \in SUBSET Closure!Contexts
  BY <1>1, <1>2, <1>5, ListIs DEF name, Visiting
<1>. HIDE DEF walk
<1>7. /\ walk \in WalkStates /\ walk.pc \in {"walking", "rejected", "limited"}
      /\ walk.captured = captured \cup {name} /\ walk.evaluations \in Nat
  BY <1>3 DEF WalkInv, WalkStates
<1>8. Now' = walk
  BY <1>1, <1>7 DEF Now, WalkStates
<1>9. done = [m \in Distributions |-> IF m = name THEN processed[m] \cup contexts ELSE processed[m]]
  BY <1>5, <1>6 DEF Done, done
<1>10. done \in [Distributions -> SUBSET Closure!Contexts]
  BY <1>5, <1>6, <1>9
<1>. DEFINE fresh == {name} \X contexts
<1>11. Seen' = Seen \cup fresh /\ Seen \cap fresh = {}
  <2>1. Seen' = UNION { {m} \X done[m] : m \in Distributions }
    BY <1>1 DEF Seen
  <2>2. ASSUME NEW x \in UNION { {m} \X done[m] : m \in Distributions } PROVE x \in Seen \cup fresh
    <3>0. PICK m \in Distributions : x \in {m} \X done[m]
      BY <2>2
    <3>1. PICK c \in done[m] : x = <<m, c>>
      BY <3>0
    <3>2. c \in processed[m] \/ (m = name /\ c \in contexts)
      BY <1>9, <3>1
    <3>. QED
      BY <3>1, <3>2 DEF Seen
  <2>3. ASSUME NEW x \in Seen PROVE x \in UNION { {m} \X done[m] : m \in Distributions } /\ x \notin fresh
    <3>0. PICK m \in Distributions : x \in {m} \X processed[m]
      BY <2>3 DEF Seen
    <3>1. PICK c \in processed[m] : x = <<m, c>>
      BY <3>0
    <3>2. c \in done[m] /\ ~(m = name /\ c \in contexts)
      BY <1>4, <1>9, <3>1
    <3>. QED
      BY <3>1, <3>2
  <2>4. ASSUME NEW x \in fresh PROVE x \in UNION { {m} \X done[m] : m \in Distributions }
    <3>1. PICK c \in contexts : x = <<name, c>>
      BY <2>4
    <3>2. c \in done[name]
      BY <1>6, <1>9
    <3>. QED
      BY <1>6, <3>1, <3>2
  <2>. HIDE DEF fresh
  <2>5. Seen \cap fresh = {}
    BY <2>3
  <2>6. UNION { {m} \X done[m] : m \in Distributions } = Seen \cup fresh
    BY <2>2, <2>3, <2>4
  <2>. QED
    BY <2>1, <2>5, <2>6
<1>12. fresh \subseteq Closure!Closure /\ Seen' \subseteq Closure!Closure
  <2>1. fresh \subseteq Closure!Closure
    BY <1>2 DEF Visiting
  <2>. HIDE DEF fresh
  <2>. QED
    BY <1>11, <2>1 DEF ClosureInv
<1>13. (Closure!Closure)' = Closure!Closure /\ Closure!Closure \in SUBSET Universe
  BY <1>1, <1>5, ClosureStays, ClosureIs
<1>14. /\ Considered(Seen)' = Considered(Seen') /\ Considered(Closure!Closure)' = Considered(Closure!Closure)
       /\ \A p : (Closure!Demands(p))' = Closure!Demands(p)
  BY <1>1, <1>13 DEF Considered, Closure!Demands
<1>15. Blamed' = Blamed
  BY <1>1, <1>13, <1>14 DEF Blamed
<1>16. Cost(n, name, contexts) \in Nat /\ Cost(n, name, contexts) <= 2 * Cardinality(Considered(Seen'))
  <2>1. Cardinality(Considered(Seen \cup fresh)) =
          Cardinality(Considered(Seen)) + Cardinality(Load(n, name, contexts))
    <3>1. Seen \subseteq Universe /\ Seen \cap fresh = {}
      BY <1>11, <1>13 DEF ClosureInv
    <3>. QED
      BY <1>2, <3>1, TasksOfVisit
  <2>2. n \in Nat
    BY <1>5 DEF Typed
  <2>3. Cardinality(Load(n, name, contexts)) \in Nat
    <3>. HIDE DEF n
    <3>. QED
      BY <1>2, <2>2, LoadIs
  <2>4. Cardinality(Considered(Seen)) \in Nat
    <3>1. Seen \subseteq Universe
      BY <1>13 DEF ClosureInv
    <3>. QED
      BY <1>5, <3>1, TasksGrow
  <2>5. evaluations <= 2 * Cardinality(Considered(Seen))
    BY DEF ClosureInv
  <2>6. Cost(n, name, contexts) = evaluations + 2 * Cardinality(Load(n, name, contexts))
    BY DEF Cost
  <2>. HIDE DEF n, fresh
  <2>. QED
    BY <1>5, <1>11, <2>1, <2>3, <2>4, <2>5, <2>6
<1>17. /\ Cardinality(Considered(Seen')) \in Nat /\ Cardinality(Considered(Closure!Closure)) \in Nat
       /\ Cardinality(Considered(Seen')) <= Cardinality(Considered(Closure!Closure))
  <2>1. Seen' \subseteq Closure!Closure /\ Closure!Closure \subseteq Universe
    BY <1>12, <1>13
  <2>. QED
    BY <1>5, <2>1, TasksGrow
<1>. HIDE DEF n, fresh
<1>18. evaluations' <= 2 * Cardinality(Considered(Seen)')
  BY <1>1, <1>3, <1>7, <1>14, <1>16, <1>17 DEF WalkInv
<1>19. pc' = "limited" => MaxEvaluations < 2 * Cardinality(Considered(Closure!Closure)')
  <2>. SUFFICES ASSUME pc' = "limited" PROVE MaxEvaluations < 2 * Cardinality(Considered(Closure!Closure))
    BY <1>14
  <2>1. MaxEvaluations < Cost(n, name, contexts)
    BY <1>1, <1>3 DEF WalkInv
  <2>. QED
    BY <1>16, <1>17, <2>1, ClosureConstants
<1>20. pc' = "rejected" => Blamed'
  BY <1>1, <1>3, <1>15 DEF WalkInv
<1>21. ASSUME NEW m \in Distributions PROVE IF m \in captured' THEN 0 \in processed'[m] ELSE processed'[m] = {}
  <2>1. IF m \in captured THEN 0 \in processed[m] ELSE processed[m] = {}
    BY DEF ClosureInv
  <2>2. processed'[m] = IF m = name THEN processed[m] \cup contexts ELSE processed[m]
    BY <1>1, <1>9
  <2>. QED
    BY <1>1, <1>4, <1>7, <2>1, <2>2
<1>22. ASSUME pc' = "walking"
       PROVE  /\ \A m \in Closure!ToSet(Roots) : m \in captured' \cup Closure!ToSet(queue')
              /\ captured' \cap broken' = {}
              /\ \A m \in captured' : Remains(walk, done, m)
              /\ \A p \in Seen \cup fresh : \A r \in Closure!Demands(p) : Covered(walk, r)
  <2>1. /\ name \notin broken /\ Closure!ToSet(Tail(queue)) \subseteq Closure!ToSet(walk.queue)
        /\ \A m \in captured \cup {name} : Remains(walk, done, m)
        /\ \A j \in 1 .. n :
             requires[j].of = name /\ Closure!Selects(requires[j], contexts) => Covered(walk, requires[j])
        /\ \A m \in Distributions : requested[m] \subseteq walk.requested[m]
    BY <1>1, <1>3, <1>22 DEF WalkInv
  <2>2. /\ \A m \in Closure!ToSet(Roots) : m \in captured \cup Closure!ToSet(queue)
        /\ captured \cap broken = {}
        /\ \A p \in Seen : \A r \in Closure!Demands(p) : Covered(Now, r)
    BY <1>1 DEF ClosureInv
  <2>3. \A m \in Closure!ToSet(Roots) : m \in captured' \cup Closure!ToSet(queue')
    BY <1>1, <1>6, <1>7, <2>1, <2>2
  <2>4. captured' \cap broken' = {} /\ \A m \in captured' : Remains(walk, done, m)
    BY <1>1, <1>7, <2>1, <2>2
  <2>5. ASSUME NEW p \in Seen, NEW r \in Closure!Demands(p) PROVE Covered(walk, r)
    <3>1. Covered(Now, r) /\ Now.captured = captured /\ Now.queue = queue /\ Now.requested = requested
      BY <2>2 DEF Now
    <3>2. r.to \in Distributions
      <4>1. r \in Closure!ToSet(requires)
        BY <2>5 DEF Closure!Demands
      <4>. QED
        BY <1>5, <4>1, RequirementIs
    <3>. QED
      BY <1>6, <1>7, <2>1, <3>1, <3>2 DEF Covered
  <2>6. ASSUME NEW p \in fresh, NEW r \in Closure!Demands(p) PROVE Covered(walk, r)
    <3>1. p[1] = name /\ p[2] \in contexts
      BY <2>6 DEF fresh
    <3>2. r.of = name /\ r.when \in {0, p[2]} /\ r \in Closure!ToSet(requires)
      BY <2>6, <3>1 DEF Closure!Demands, Closure!Base
    <3>3. PICK j \in DOMAIN requires : r = requires[j]
      BY <3>2, Zenon DEF Closure!ToSet
    <3>4. j \in 1 .. n
      BY <1>5 DEF Typed, n
    <3>5. Closure!Selects(r, contexts)
      BY <3>1, <3>2 DEF Closure!Selects, Closure!Base
    <3>. QED
      BY <2>1, <3>2, <3>3, <3>4, <3>5
  <2>. QED
    BY <2>3, <2>4, <2>5, <2>6
<1>23. pc' = "walking" =>
         /\ \A m \in captured' : Remains(Now, processed, m)'
         /\ \A p \in Seen' : \A r \in (Closure!Demands(p))' : Covered(Now, r)'
  BY <1>1, <1>8, <1>11, <1>14, <1>22 DEF Remains, Covered
<1>24. Sound(Now)'
  <2>1. Sound(walk)
    BY <1>3 DEF WalkInv
  <2>. QED
    BY <1>8, <1>13, <2>1 DEF Sound
<1>25. Typed' /\ Now' \in WalkStates /\ processed' \in [Distributions -> SUBSET Closure!Contexts]
  BY <1>1, <1>5, <1>7, <1>8, <1>10 DEF Typed
<1>26. pc' # "closed" /\ Seen' \subseteq (Closure!Closure)'
  BY <1>1, <1>7, <1>12, <1>13
<1>. QED
  BY <1>18, <1>19, <1>20, <1>21, <1>22, <1>23, <1>24, <1>25, <1>26 DEF ClosureInv

LEMMA ClosureRests ==
    ASSUME ClosureInv,
           UNCHANGED <<requires, broken, queue, requested, processed, captured, evaluations, pc>>
    PROVE  ClosureInv'
<1>1. (Closure!Closure)' = Closure!Closure
  BY ClosureStays DEF ClosureInv
<1>2. Now' = Now /\ Seen' = Seen /\ Typed' = Typed
  BY DEF Now, Seen, Typed
<1>3. /\ \A p : (Closure!Demands(p))' = Closure!Demands(p)
      /\ Considered(Seen)' = Considered(Seen) /\ Considered(Closure!Closure)' = Considered(Closure!Closure)
  BY <1>1, <1>2 DEF Closure!Demands, Considered
<1>4. Blamed' = Blamed
  BY <1>1, <1>3 DEF Blamed
<1>5. Sound(Now)' = Sound(Now)
  BY <1>1, <1>2 DEF Sound
<1>6. /\ \A m : Remains(Now, processed, m)' = Remains(Now, processed, m)
      /\ \A r : Covered(Now, r)' = Covered(Now, r)
  BY <1>2 DEF Remains, Covered
<1>. QED
  BY <1>1, <1>2, <1>3, <1>4, <1>5, <1>6 DEF ClosureInv

(* What the walk has processed when its queue is empty is the closure: it has  *)
(* the roots, and what it demands.                                             *)
LEMMA ClosedIsWhole ==
    ASSUME ClosureInv, pc = "closed"
    PROVE  /\ Seen = Closure!Closure
           /\ captured = { p[1] : p \in Closure!Closure }
           /\ \A p \in Seen : \A r \in Closure!Demands(p) : r \notin broken
           /\ captured \cap broken = {}
<1>1. /\ queue \in Seq(Distributions) /\ requested \in [Distributions -> SUBSET Extras] /\ captured \in SUBSET Distributions
      /\ processed \in [Distributions -> SUBSET Closure!Contexts] /\ Typed
  BY DEF ClosureInv, Now, WalkStates
<1>2. Closure!ToSet(queue) = {}
  BY DEF ClosureInv, Closure!ToSet
<1>3. /\ \A m \in Closure!ToSet(Roots) : m \in captured
      /\ captured \cap broken = {}
      /\ \A m \in captured : requested[m] \subseteq processed[m]
      /\ \A m \in Distributions : IF m \in captured THEN 0 \in processed[m] ELSE processed[m] = {}
  BY <1>2 DEF ClosureInv, Remains, Now
<1>4. \A p \in Seen : \A r \in Closure!Demands(p) :
        /\ r.to \in captured /\ r.extras \subseteq requested[r.to] /\ r \notin broken
  BY <1>2 DEF ClosureInv, Covered, Now
<1>5. /\ Seen \in SUBSET Universe
      /\ \A m \in Distributions : \A c \in processed[m] : <<m, c>> \in Seen
      /\ \A p \in Seen : p[1] \in Distributions /\ p[2] \in processed[p[1]]
  BY <1>1 DEF Seen, Universe
<1>6. RootPairs \subseteq Seen
  <2>1. \A m \in Closure!ToSet(Roots) : <<m, 0>> \in Seen
    BY <1>1, <1>3, <1>5
  <2>. QED
    BY <2>1 DEF RootPairs
<1>7. IsClosed(Seen)
  <2>. SUFFICES ASSUME NEW p \in Seen, NEW r \in Closure!Demands(p)
                PROVE  Dependents(r) \subseteq Seen
    BY DEF IsClosed
  <2>1. r.to \in captured /\ r.to \in Distributions /\ r.extras \subseteq requested[r.to]
    BY <1>1, <1>4
  <2>2. {0} \cup r.extras \subseteq processed[r.to]
    BY <1>3, <2>1
  <2>3. \A c \in {0} \cup r.extras : <<r.to, c>> \in Seen
    BY <1>5, <2>1, <2>2
  <2>4. ASSUME NEW x \in Dependents(r) PROVE x \in Seen
    <3>1. PICK c \in {0} \cup r.extras : x = <<r.to, c>>
      <4>1. x \in Dependents(r)
        BY <2>4
      <4>. DEFINE t == r.to
                  E == {0} \cup r.extras
      <4>2. x \in {t} \X E
        BY <4>1, Zenon DEF Dependents
      <4>. HIDE DEF t, E
      <4>3. x[2] \in E /\ x = <<t, x[2]>>
        BY <4>2
      <4>. QED
        BY <4>3, Zenon DEF t, E
    <3>. QED
      BY <2>3, <3>1
  <2>. QED
    BY <2>4
<1>8. Closure!Closure \subseteq Seen
  BY <1>1, <1>5, <1>6, <1>7, ClosureIs
<1>9. Seen = Closure!Closure
  BY <1>8 DEF ClosureInv
<1>10. \A m \in captured : <<m, 0>> \in Closure!Closure
  BY <1>1, <1>3, <1>5, <1>9
<1>11. \A p \in Closure!Closure : p[1] \in captured
  BY <1>3, <1>5, <1>9
<1>12. captured = { p[1] : p \in Closure!Closure }
  <2>1. \A m : <<m, 0>>[1] = m
    OBVIOUS
  <2>. QED
    BY <1>10, <1>11, <2>1
<1>. QED
  BY <1>3, <1>4, <1>9, <1>12

LEMMA ClosureMeans ==
    ASSUME ClosureInv PROVE Closure!ClosureIsLeast
<1>. DEFINE needed == Closure!Closure
            demanded == UNION { Closure!Demands(p) : p \in needed }
            names == { p[1] : p \in needed }
            seen_ == UNION { {n} \X processed[n] : n \in Distributions }
<1>1. seen_ = Seen
  BY DEF Seen
<1>2. Closure!Work(needed) = 2 * Cardinality(Considered(needed))
  BY CountIs DEF Closure!Work, Considered
<1>3. evaluations <= Closure!Work(needed)
  <2>1. Typed /\ Seen \subseteq needed /\ needed \subseteq Universe
    BY ClosureIs DEF ClosureInv
  <2>2. /\ Cardinality(Considered(Seen)) \in Nat /\ Cardinality(Considered(needed)) \in Nat
        /\ Cardinality(Considered(Seen)) <= Cardinality(Considered(needed))
    <3>. HIDE DEF needed
    <3>. QED
      BY <2>1, TasksGrow
  <2>3. evaluations \in Nat /\ evaluations <= 2 * Cardinality(Considered(Seen))
    BY DEF ClosureInv, Now, WalkStates
  <2>. HIDE DEF needed
  <2>. QED
    BY <1>2, <2>2, <2>3
<1>4. pc = "limited" => Closure!Work(needed) > MaxEvaluations
  <2>. SUFFICES ASSUME pc = "limited" PROVE Closure!Work(needed) > MaxEvaluations
    OBVIOUS
  <2>1. MaxEvaluations < 2 * Cardinality(Considered(needed))
    BY DEF ClosureInv
  <2>2. Cardinality(Considered(needed)) \in Nat
    <3>1. Typed /\ needed \subseteq Universe
      BY ClosureIs DEF ClosureInv
    <3>. HIDE DEF needed
    <3>. QED
      BY <3>1, TasksGrow
  <2>. HIDE DEF needed
  <2>. QED
    BY <1>2, <2>1, <2>2, ClosureConstants
<1>5. pc = "rejected" => broken \cap (names \cup demanded) # {}
  BY DEF ClosureInv, Blamed
<1>6. ASSUME pc = "closed"
      PROVE  seen_ = needed /\ captured = names /\ broken \cap (names \cup demanded) = {}
  <2>1. /\ Seen = needed /\ captured = names /\ captured \cap broken = {}
        /\ \A p \in Seen : \A r \in Closure!Demands(p) : r \notin broken
    BY <1>6, ClosedIsWhole
  <2>. HIDE DEF names
  <2>2. \A r \in demanded : r \notin broken
    BY <2>1
  <2>. HIDE DEF demanded, needed
  <2>. QED
    BY <1>1, <2>1, <2>2
<1>. QED
  BY <1>3, <1>4, <1>5, <1>6, Zenon DEF Closure!ClosureIsLeast

DependenciesInv == part = "closure" => ClosureInv

(* The captured dependencies are the least closure of the roots in every       *)
(* order of the queue, a capture is rejected only for what the closure needs,  *)
(* and stopped at the limit only if the closure calls for more work.           *)
THEOREM ExactDependencies == MCSpec => []DependenciesAreExact
<1>1. MCInit => DependenciesInv
  BY ClosureAtFirst DEF MCInit, DependenciesInv
<1>2. DependenciesInv /\ [MCNext]_<<part, pc, closure, runtime, planning, output>> => DependenciesInv'
  <2>. SUFFICES ASSUME part' = "closure", ClosureInv \/ part # "closure",
                       [MCNext]_<<part, pc, closure, runtime, planning, output>>
                PROVE  ClosureInv'
    BY DEF DependenciesInv
  <2>1. part = "closure" /\ ClosureInv
    BY DEF MCNext
  <2>2. Closure!Next \/ UNCHANGED <<requires, broken, queue, requested, processed, captured, evaluations, pc>>
    BY <2>1 DEF MCNext, closure
  <2>. QED
    BY <2>1, <2>2, ClosureSkips, ClosureVisits, ClosureCloses, ClosureRests DEF Closure!Next
<1>3. DependenciesInv => DependenciesAreExact
  BY ClosureMeans DEF DependenciesInv, DependenciesAreExact
<1>. QED
  BY <1>1, <1>2, <1>3, PTL DEF MCSpec

-----------------------------------------------------------------------------
(* OutputSanitizer: the search for one credential                              *)

(* The first k of the pattern are the last k of the first o of the text.       *)
Ends(p, k, s, o) == k <= o /\ \A j \in 1 .. k : p[j] = s[o - k + j]

(* Of the lengths up to a limit, m is the longest that ends there.             *)
Longest(p, s, o, limit, m) ==
    m \in 0 .. limit /\ Ends(p, m, s, o) /\ \A k \in 0 .. limit : Ends(p, k, s, o) => k <= m

(* What the prefix lengths are up to n.                                        *)
AreBorders(p, borders, n) == \A i \in 1 .. n : Longest(p, p, i, i - 1, borders[i])

(* What may be matched after m and another character.                          *)
Continues(p, c, m, k) == k = 0 \/ (p[k] = c /\ Ends(p, k - 1, p, m))
Extended(p, c, m, r) ==
    r \in 0 .. m + 1 /\ Continues(p, c, m, r) /\ \A k \in 0 .. m + 1 : Continues(p, c, m, k) => k <= r

LEMMA Greatest ==
    ASSUME NEW n \in Nat, NEW T \in SUBSET (0 .. n), T # {}
    PROVE  \E x \in T : \A y \in T : y <= x
<1>. DEFINE R == { n - x : x \in T }
<1>1. R \in SUBSET Nat /\ R # {}
  <2>1. \A x \in T : n - x \in Nat
    OBVIOUS
  <2>2. \E x : x \in T
    OBVIOUS
  <2>. QED
    BY <2>1, <2>2
<1>. HIDE DEF R
<1>2. PICK r \in R : \A y \in R : r <= y
  BY <1>1, LeastNatural
<1>3. PICK x \in T : r = n - x
  BY DEF R
<1>4. \A y \in T : n - y \in R
  BY DEF R
<1>5. ASSUME NEW y \in T PROVE y <= x
  <2>1. r <= n - y
    BY <1>2, <1>4
  <2>2. x \in 0 .. n /\ y \in 0 .. n
    OBVIOUS
  <2>. QED
    BY <1>3, <2>1, <2>2
<1>. QED
  BY <1>5

LEMMA ShortEnds ==
    ASSUME NEW p, NEW s, NEW o \in Nat PROVE Ends(p, 0, s, o)
BY DEF Ends

(* What ends with the text ends with what of the pattern ends there.           *)
LEMMA EndsWithin ==
    ASSUME NEW p, NEW s, NEW o \in Nat, NEW m \in Nat, NEW k \in 0 .. m, Ends(p, m, s, o)
    PROVE  Ends(p, k, s, o) <=> Ends(p, k, p, m)
<1>1. k <= o /\ m <= o /\ k <= m
  BY DEF Ends
<1>2. ASSUME NEW j \in 1 .. k PROVE s[o - k + j] = p[m - k + j]
  <2>1. m - k + j \in 1 .. m /\ o - m + (m - k + j) = o - k + j
    BY <1>1
  <2>2. \A i \in 1 .. m : p[i] = s[o - m + i]
    BY DEF Ends
  <2>3. p[m - k + j] = s[o - m + (m - k + j)]
    BY <2>1, <2>2
  <2>. QED
    BY <2>1, <2>3
<1>. QED
  BY <1>1, <1>2 DEF Ends

LEMMA EndsNext ==
    ASSUME NEW p, NEW s, NEW o \in Nat, NEW k \in Nat \ {0}
    PROVE  Ends(p, k, s, o + 1) <=> p[k] = s[o + 1] /\ Ends(p, k - 1, s, o)
<1>1. ASSUME Ends(p, k, s, o + 1) PROVE p[k] = s[o + 1] /\ Ends(p, k - 1, s, o)
  <2>1. k <= o + 1 /\ \A j \in 1 .. k : p[j] = s[(o + 1) - k + j]
    BY <1>1 DEF Ends
  <2>2. p[k] = s[o + 1]
    <3>1. k \in 1 .. k /\ (o + 1) - k + k = o + 1
      OBVIOUS
    <3>. QED
      BY <2>1, <3>1
  <2>3. ASSUME NEW j \in 1 .. k - 1 PROVE p[j] = s[o - (k - 1) + j]
    <3>1. j \in 1 .. k /\ o - (k - 1) + j = (o + 1) - k + j
      OBVIOUS
    <3>. QED
      BY <2>1, <3>1
  <2>. QED
    BY <2>1, <2>2, <2>3 DEF Ends
<1>2. ASSUME p[k] = s[o + 1], Ends(p, k - 1, s, o) PROVE Ends(p, k, s, o + 1)
  <2>1. k - 1 <= o /\ \A j \in 1 .. k - 1 : p[j] = s[o - (k - 1) + j]
    BY <1>2 DEF Ends
  <2>2. ASSUME NEW j \in 1 .. k PROVE p[j] = s[(o + 1) - k + j]
    <3>1. CASE j = k
      <4>1. (o + 1) - k + j = o + 1
        BY <3>1
      <4>. QED
        BY <1>2, <3>1, <4>1
    <3>2. CASE j # k
      <4>1. j \in 1 .. k - 1 /\ o - (k - 1) + j = (o + 1) - k + j
        BY <3>2
      <4>. QED
        BY <2>1, <4>1
    <3>. QED
      BY <3>1, <3>2
  <2>. QED
    BY <2>1, <2>2 DEF Ends
<1>. QED
  BY <1>1, <1>2

(* The longest after one more character is the longest that goes on with it.   *)
LEMMA TextGoesOn ==
    ASSUME NEW p, NEW s, NEW o \in Nat, NEW limit \in Nat, NEW m, Longest(p, s, o, limit, m),
           NEW r, Extended(p, s[o + 1], m, r)
    PROVE  Longest(p, s, o + 1, limit + 1, r)
<1>1. m \in 0 .. limit /\ Ends(p, m, s, o) /\ r \in 0 .. m + 1
  BY DEF Longest, Extended
<1>2. ASSUME NEW k \in 0 .. m + 1
      PROVE  Ends(p, k, s, o + 1) <=> Continues(p, s[o + 1], m, k)
  <2>1. CASE k = 0
    BY <2>1, ShortEnds DEF Continues
  <2>2. CASE k # 0
    <3>1. k \in Nat \ {0} /\ k - 1 \in 0 .. m /\ m \in Nat
      BY <1>1, <2>2
    <3>2. Ends(p, k, s, o + 1) <=> p[k] = s[o + 1] /\ Ends(p, k - 1, s, o)
      BY <3>1, EndsNext
    <3>3. Ends(p, k - 1, s, o) <=> Ends(p, k - 1, p, m)
      BY <1>1, <3>1, EndsWithin
    <3>. QED
      BY <2>2, <3>2, <3>3 DEF Continues
  <2>. QED
    BY <2>1, <2>2
<1>3. ASSUME NEW k \in 0 .. limit + 1, Ends(p, k, s, o + 1) PROVE k <= r
  <2>1. k \in 0 .. m + 1
    <3>1. CASE k = 0
      BY <1>1, <3>1
    <3>2. CASE k # 0
      <4>1. k \in Nat \ {0} /\ k - 1 \in 0 .. limit
        BY <3>2
      <4>2. Ends(p, k - 1, s, o)
        BY <1>3, <4>1, EndsNext
      <4>3. k - 1 <= m
        BY <4>1, <4>2 DEF Longest
      <4>. QED
        BY <1>1, <4>1, <4>3
    <3>. QED
      BY <3>1, <3>2
  <2>. QED
    BY <1>2, <1>3, <2>1 DEF Extended
<1>4. Ends(p, r, s, o + 1)
  BY <1>1, <1>2 DEF Extended
<1>5. r \in 0 .. limit + 1
  BY <1>1
<1>. QED
  BY <1>3, <1>4, <1>5 DEF Longest

(* After the next shorter length that ends there, if the longest does not go on. *)
LEMMA ShorterContinues ==
    ASSUME NEW p, NEW c, NEW m \in Nat \ {0}, p[m + 1] # c, NEW w, Longest(p, p, m, m - 1, w),
           NEW r, Extended(p, c, w, r)
    PROVE  Extended(p, c, m, r)
<1>1. w \in 0 .. m - 1 /\ Ends(p, w, p, m) /\ r \in 0 .. w + 1 /\ w \in Nat
  BY DEF Longest, Extended
<1>2. ASSUME NEW k \in 0 .. w + 1 PROVE Continues(p, c, m, k) <=> Continues(p, c, w, k)
  <2>1. CASE k = 0
    BY <2>1 DEF Continues
  <2>2. CASE k # 0
    <3>1. k - 1 \in 0 .. w
      BY <1>1, <2>2
    <3>2. Ends(p, k - 1, p, m) <=> Ends(p, k - 1, p, w)
      BY <1>1, <3>1, EndsWithin
    <3>. QED
      BY <2>2, <3>2 DEF Continues
  <2>. QED
    BY <2>1, <2>2
<1>3. ASSUME NEW k \in 0 .. m + 1, Continues(p, c, m, k) PROVE k <= r
  <2>1. CASE k = 0
    BY <1>1, <2>1
  <2>2. CASE k # 0
    <3>1. p[k] = c /\ Ends(p, k - 1, p, m)
      BY <1>3, <2>2 DEF Continues
    <3>2. k # m + 1
      BY <3>1
    <3>3. k - 1 \in 0 .. m - 1
      BY <2>2, <3>2
    <3>4. k - 1 <= w
      BY <3>1, <3>3 DEF Longest
    <3>5. k \in 0 .. w + 1
      BY <1>1, <3>3, <3>4
    <3>. QED
      BY <1>2, <1>3, <3>5 DEF Extended
  <2>. QED
    BY <2>1, <2>2
<1>4. Continues(p, c, m, r) /\ r \in 0 .. m + 1
  BY <1>1, <1>2 DEF Extended
<1>. QED
  BY <1>3, <1>4 DEF Extended

LEMMA OneExtended ==
    ASSUME NEW p, NEW c, NEW m \in Nat
    PROVE  /\ \E r : Extended(p, c, m, r)
           /\ \A r, q : Extended(p, c, m, r) /\ Extended(p, c, m, q) => r = q
<1>1. \E r : Extended(p, c, m, r)
  <2>. DEFINE T == { k \in 0 .. m + 1 : Continues(p, c, m, k) }
  <2>1. 0 \in T /\ T \in SUBSET (0 .. m + 1) /\ m + 1 \in Nat
    BY DEF Continues
  <2>2. PICK r \in T : \A k \in T : k <= r
    <3>. HIDE DEF T
    <3>1. T # {}
      BY <2>1
    <3>. QED
      BY <2>1, <3>1, Greatest
  <2>. QED
    BY <2>2 DEF Extended
<1>2. ASSUME NEW r, NEW q, Extended(p, c, m, r), Extended(p, c, m, q) PROVE r = q
  <2>1. r \in 0 .. m + 1 /\ q \in 0 .. m + 1 /\ r <= q /\ q <= r
    BY <1>2 DEF Extended
  <2>. QED
    BY <2>1
<1>. QED
  BY <1>1, <1>2

LEMMA OneLongest ==
    ASSUME NEW p, NEW s, NEW o \in Nat, NEW limit \in Nat
    PROVE  /\ \E r : Longest(p, s, o, limit, r)
           /\ \A r, q : Longest(p, s, o, limit, r) /\ Longest(p, s, o, limit, q) => r = q
<1>1. \E r : Longest(p, s, o, limit, r)
  <2>. DEFINE T == { k \in 0 .. limit : Ends(p, k, s, o) }
  <2>1. 0 \in T /\ T \in SUBSET (0 .. limit)
    BY ShortEnds
  <2>2. PICK r \in T : \A k \in T : k <= r
    <3>. HIDE DEF T
    <3>1. T # {}
      BY <2>1
    <3>. QED
      BY <2>1, <3>1, Greatest
  <2>. QED
    BY <2>2 DEF Longest
<1>2. ASSUME NEW r, NEW q, Longest(p, s, o, limit, r), Longest(p, s, o, limit, q) PROVE r = q
  <2>1. r \in 0 .. limit /\ q \in 0 .. limit /\ r <= q /\ q <= r
    BY <1>2 DEF Longest
  <2>. QED
    BY <2>1
<1>. QED
  BY <1>1, <1>2

(* One round of the loop that falls back; f is what it makes of other lengths. *)
Falling(p, borders, c, f, k) ==
    IF p[k + 1] = c THEN k + 1 ELSE IF k = 0 THEN 0 ELSE f[borders[k]]

LEMMA FallingIs ==
    ASSUME NEW p, NEW borders, NEW c, NEW m \in Nat, AreBorders(p, borders, m), NEW k \in 0 .. m, NEW f,
           \A j \in 0 .. k - 1 : Extended(p, c, j, f[j])
    PROVE  Extended(p, c, k, Falling(p, borders, c, f, k))
<1>1. CASE p[k + 1] = c
  <2>1. Ends(p, k, p, k)
    BY DEF Ends
  <2>2. Continues(p, c, k, k + 1)
    BY <1>1, <2>1 DEF Continues
  <2>3. Extended(p, c, k, k + 1)
    BY <2>2 DEF Extended
  <2>. QED
    BY <1>1, <2>3 DEF Falling
<1>2. CASE p[k + 1] # c /\ k = 0
  <2>1. Continues(p, c, k, 0) /\ ~Continues(p, c, k, 1)
    BY <1>2 DEF Continues
  <2>2. Extended(p, c, k, 0)
    BY <1>2, <2>1 DEF Extended
  <2>. QED
    BY <1>2, <2>2 DEF Falling
<1>3. CASE p[k + 1] # c /\ k # 0
  <2>1. k \in 1 .. m /\ k \in Nat \ {0}
    BY <1>3
  <2>2. Longest(p, p, k, k - 1, borders[k])
    BY <2>1 DEF AreBorders
  <2>3. borders[k] \in 0 .. k - 1
    BY <2>2 DEF Longest
  <2>4. Extended(p, c, borders[k], f[borders[k]])
    BY <2>3
  <2>5. Extended(p, c, k, f[borders[k]])
    BY <1>3, <2>1, <2>2, <2>4, ShorterContinues
  <2>. QED
    BY <1>3, <2>5 DEF Falling
<1>. QED
  BY <1>1, <1>2, <1>3

LEMMA FallbackIs ==
    ASSUME NEW p, NEW borders, NEW c, NEW m \in Nat, AreBorders(p, borders, m)
    PROVE  Extended(p, c, m, Output!Fallback(p, borders, m, c))
<1>. DEFINE Falls(f) == f = [k \in 0 .. m |-> Falling(p, borders, c, f, k)]
            g == [k \in 0 .. m |-> CHOOSE r : Extended(p, c, k, r)]
            f == CHOOSE h : Falls(h)
<1>1. \A k \in 0 .. m : Extended(p, c, k, g[k])
  <2>. SUFFICES ASSUME NEW k \in 0 .. m PROVE Extended(p, c, k, g[k])
    OBVIOUS
  <2>1. \E r : Extended(p, c, k, r)
    BY OneExtended
  <2>2. g[k] = CHOOSE r : Extended(p, c, k, r)
    OBVIOUS
  <2>. QED
    BY <2>1, <2>2
<1>2. Falls(g)
  <2>1. g = [k \in 0 .. m |-> g[k]]
    OBVIOUS
  <2>. HIDE DEF g
  <2>2. ASSUME NEW k \in 0 .. m PROVE g[k] = Falling(p, borders, c, g, k)
    <3>1. k \in Nat /\ \A j \in 0 .. k - 1 : Extended(p, c, j, g[j])
      BY <1>1
    <3>2. Extended(p, c, k, Falling(p, borders, c, g, k))
      BY <3>1, FallingIs
    <3>. QED
      BY <1>1, <3>1, <3>2, OneExtended
  <2>. QED
    BY <2>1, <2>2
<1>3. Falls(f)
  <2>. HIDE DEF Falls, g
  <2>. QED
    BY <1>2
<1>4. Output!Fallback(p, borders, m, c) = f[m]
  BY Zenon DEF Output!Fallback, Falling
<1>. HIDE DEF f
<1>5. \A k \in 0 .. m : f[k] = Falling(p, borders, c, f, k)
  BY <1>3
<1>. DEFINE T == { k \in 0 .. m : \A j \in 0 .. k : Extended(p, c, j, f[j]) }
<1>6. 0 \in T
  <2>1. Extended(p, c, 0, Falling(p, borders, c, f, 0))
    <3>1. 0 \in 0 .. m /\ \A j \in 0 .. 0 - 1 : Extended(p, c, j, f[j])
      OBVIOUS
    <3>. QED
      BY <3>1, FallingIs
  <2>. QED
    BY <1>5, <2>1
<1>7. ASSUME NEW k \in 0 .. m - 1, k \in T PROVE k + 1 \in T
  <2>1. k + 1 \in 0 .. m /\ \A j \in 0 .. (k + 1) - 1 : Extended(p, c, j, f[j])
    BY <1>7
  <2>2. Extended(p, c, k + 1, Falling(p, borders, c, f, k + 1))
    BY <2>1, FallingIs
  <2>3. Extended(p, c, k + 1, f[k + 1])
    BY <1>5, <2>1, <2>2
  <2>4. \A j \in 0 .. k + 1 : j = k + 1 \/ j \in 0 .. k
    OBVIOUS
  <2>. QED
    BY <1>7, <2>1, <2>3, <2>4
<1>8. \A k \in 0 .. m : k \in T
  <2>. HIDE DEF T
  <2>. QED
    BY <1>6, <1>7, UpTo
<1>9. Extended(p, c, m, f[m])
  <2>1. m \in 0 .. m
    OBVIOUS
  <2>. QED
    BY <1>8, <2>1
<1>. QED
  BY <1>4, <1>9

LEMMA BorderNext ==
    ASSUME NEW p, NEW borders, NEW i \in Nat \ {0, 1}, AreBorders(p, borders, i - 1)
    PROVE  Longest(p, p, i, i - 1, Output!Fallback(p, borders, borders[i - 1], p[i]))
<1>. DEFINE m == borders[i - 1]
            r == Output!Fallback(p, borders, m, p[i])
<1>1. i - 1 \in 1 .. i - 1 /\ i - 1 \in Nat /\ i - 2 \in Nat /\ (i - 1) - 1 = i - 2 /\ (i - 1) + 1 = i
      /\ (i - 2) + 1 = i - 1
  OBVIOUS
<1>2. Longest(p, p, i - 1, i - 2, m)
  BY <1>1 DEF AreBorders
<1>3. m \in 0 .. i - 2 /\ m \in Nat
  BY <1>2 DEF Longest
<1>. HIDE DEF m
<1>4. AreBorders(p, borders, m)
  BY <1>3 DEF AreBorders
<1>5. Extended(p, p[i], m, r)
  BY <1>3, <1>4, FallbackIs
<1>. HIDE DEF r
<1>6. Longest(p, p, (i - 1) + 1, (i - 2) + 1, r)
  <2>1. Extended(p, p[(i - 1) + 1], m, r)
    BY <1>1, <1>5
  <2>. QED
    BY <1>1, <1>2, <2>1, TextGoesOn
<1>7. Longest(p, p, i, i - 1, r)
  BY <1>1, <1>6
<1>. QED
  BY <1>7 DEF r, m

LEMMA FirstBorder == ASSUME NEW p PROVE Longest(p, p, 1, 0, 0)
BY DEF Longest, Ends

LEMMA PrefixLengthsAre ==
    ASSUME NEW p, Len(p) \in Nat PROVE AreBorders(p, Output!PrefixLengths(p), Len(p))
<1>. DEFINE n == Len(p)
            Next_(f, i) == IF i = 1 THEN 0 ELSE Output!Fallback(p, f, f[i - 1], p[i])
            Built(f) == f = [i \in 1 .. n |-> Next_(f, i)]
            g == [i \in 1 .. n |-> CHOOSE r : Longest(p, p, i, i - 1, r)]
            f == CHOOSE h : Built(h)
<1>1. AreBorders(p, g, n)
  <2>. SUFFICES ASSUME NEW i \in 1 .. n PROVE Longest(p, p, i, i - 1, g[i])
    BY DEF AreBorders
  <2>1. \E r : Longest(p, p, i, i - 1, r)
    <3>1. i \in Nat /\ i - 1 \in Nat
      OBVIOUS
    <3>. QED
      BY <3>1, OneLongest
  <2>2. g[i] = CHOOSE r : Longest(p, p, i, i - 1, r)
    OBVIOUS
  <2>. QED
    BY <2>1, <2>2
<1>2. ASSUME NEW h, NEW i \in 1 .. n, AreBorders(p, h, i - 1) PROVE Longest(p, p, i, i - 1, Next_(h, i))
  <2>1. CASE i = 1
    BY <2>1, FirstBorder
  <2>2. CASE i # 1
    <3>1. i \in Nat \ {0, 1}
      BY <2>2
    <3>2. Longest(p, p, i, i - 1, Output!Fallback(p, h, h[i - 1], p[i]))
      BY <1>2, <3>1, BorderNext
    <3>. QED
      BY <2>2, <3>2
  <2>. QED
    BY <2>1, <2>2
<1>3. Built(g)
  <2>1. g = [i \in 1 .. n |-> g[i]]
    OBVIOUS
  <2>. HIDE DEF g, Next_
  <2>2. ASSUME NEW i \in 1 .. n PROVE g[i] = Next_(g, i)
    <3>1. AreBorders(p, g, i - 1) /\ Longest(p, p, i, i - 1, g[i])
      BY <1>1 DEF AreBorders
    <3>2. Longest(p, p, i, i - 1, Next_(g, i))
      BY <1>2, <3>1
    <3>3. i \in Nat /\ i - 1 \in Nat
      OBVIOUS
    <3>. QED
      BY <3>1, <3>2, <3>3, OneLongest
  <2>. QED
    BY <2>1, <2>2
<1>4. Built(f)
  <2>. HIDE DEF Built, g
  <2>. QED
    BY <1>3
<1>5. Output!PrefixLengths(p) = f
  BY Zenon DEF Output!PrefixLengths
<1>. HIDE DEF f, Next_
<1>6. \A i \in 1 .. n : f[i] = Next_(f, i)
  BY <1>4
<1>. DEFINE T == { i \in 0 .. n : AreBorders(p, f, i) }
<1>7. 0 \in T
  BY DEF AreBorders
<1>8. ASSUME NEW i \in 0 .. n - 1, i \in T PROVE i + 1 \in T
  <2>1. i + 1 \in 1 .. n /\ i + 1 \in 0 .. n /\ (i + 1) - 1 = i /\ AreBorders(p, f, i)
    BY <1>8
  <2>2. Longest(p, p, i + 1, (i + 1) - 1, Next_(f, i + 1))
    BY <1>2, <2>1
  <2>3. Longest(p, p, i + 1, (i + 1) - 1, f[i + 1])
    BY <1>6, <2>1, <2>2
  <2>4. \A j \in 1 .. i + 1 : j = i + 1 \/ j \in 1 .. i
    OBVIOUS
  <2>5. AreBorders(p, f, i + 1)
    BY <2>1, <2>3, <2>4 DEF AreBorders
  <2>. QED
    BY <2>1, <2>5
<1>9. \A i \in 0 .. n : i \in T
  <2>. HIDE DEF T
  <2>. QED
    BY <1>7, <1>8, UpTo
<1>10. AreBorders(p, f, n)
  <2>1. n \in 0 .. n
    OBVIOUS
  <2>. QED
    BY <1>9, <2>1
<1>. QED
  BY <1>5, <1>10

LEMMA LeastOf ==
    ASSUME NEW T \in SUBSET Nat, T # {}
    PROVE  Output!Min(T) \in T /\ \A y \in T : Output!Min(T) <= y
<1>1. \E x \in T : \A y \in T : x <= y
  BY LeastNatural
<1>. QED
  BY <1>1 DEF Output!Min

LEMMA ResumesLongest ==
    ASSUME NEW p, Len(p) \in Nat \ {0}, NEW s, NEW o \in Nat, NEW m, Longest(p, s, o, Len(p), m)
    PROVE  Longest(p, s, o, Len(p) - 1, Output!Resume(p, m))
<1>. DEFINE n == Len(p)
            w == Output!PrefixLengths(p)[n]
<1>1. n \in Nat \ {0} /\ m \in 0 .. n
  BY DEF Longest
<1>2. CASE m = n
  <2>1. Longest(p, p, n, n - 1, w)
    <3>1. AreBorders(p, Output!PrefixLengths(p), n)
      BY <1>1, PrefixLengthsAre
    <3>. QED
      BY <1>1, <3>1 DEF AreBorders
  <2>2. Output!Resume(p, m) = w
    BY <1>2 DEF Output!Resume
  <2>. HIDE DEF n, w
  <2>3. \A k \in 0 .. n - 1 : Ends(p, k, s, o) <=> Ends(p, k, p, n)
    <3>. SUFFICES ASSUME NEW k \in 0 .. n - 1 PROVE Ends(p, k, s, o) <=> Ends(p, k, p, n)
      OBVIOUS
    <3>1. k \in 0 .. n /\ n \in Nat
      BY <1>1
    <3>2. Ends(p, n, s, o)
      BY <1>2 DEF Longest
    <3>. QED
      BY <3>1, <3>2, EndsWithin
  <2>4. Longest(p, s, o, n - 1, w)
    BY <2>1, <2>3 DEF Longest
  <2>. QED
    BY <2>2, <2>4 DEF n
<1>3. CASE m # n
  <2>1. Output!Resume(p, m) = m
    BY <1>3 DEF Output!Resume
  <2>. HIDE DEF n
  <2>2. m \in 0 .. n - 1 /\ \A k \in 0 .. n - 1 : k \in 0 .. n
    BY <1>1, <1>3
  <2>3. Longest(p, s, o, n, m)
    BY DEF n
  <2>4. Longest(p, s, o, n - 1, m)
    BY <2>2, <2>3 DEF Longest
  <2>. QED
    BY <2>1, <2>4 DEF n
<1>. QED
  BY <1>2, <1>3

LEMMA SearchGoesOn ==
    ASSUME NEW p, Len(p) \in Nat \ {0}, NEW s, NEW o \in Nat, NEW m, Longest(p, s, o, Len(p), m)
    PROVE  Longest(p, s, o + 1, Len(p),
                   Output!Fallback(p, Output!PrefixLengths(p), Output!Resume(p, m), s[o + 1]))
<1>. DEFINE n == Len(p)
            borders == Output!PrefixLengths(p)
            q == Output!Resume(p, m)
            r == Output!Fallback(p, borders, q, s[o + 1])
<1>1. n \in Nat \ {0} /\ n - 1 \in Nat /\ (n - 1) + 1 = n /\ AreBorders(p, borders, n)
  BY PrefixLengthsAre
<1>2. Longest(p, s, o, n - 1, q)
  BY ResumesLongest
<1>. HIDE DEF n, borders, q
<1>3. q \in 0 .. n - 1 /\ q \in Nat
  BY <1>1, <1>2 DEF Longest
<1>4. AreBorders(p, borders, q)
  <2>1. \A i \in 1 .. q : i \in 1 .. n
    BY <1>1, <1>3
  <2>. QED
    BY <1>1, <2>1 DEF AreBorders
<1>5. Extended(p, s[o + 1], q, r)
  BY <1>3, <1>4, FallbackIs
<1>. HIDE DEF r
<1>6. Longest(p, s, o + 1, (n - 1) + 1, r)
  BY <1>1, <1>2, <1>5, TextGoesOn
<1>7. Longest(p, s, o + 1, n, r)
  BY <1>1, <1>6
<1>. QED
  BY <1>7 DEF n, borders, q, r

(* The first occurrence that ends at an offset or later.                       *)
Found(s, p, from, x) ==
    \/ x = Output!Exhausted /\ \A o \in from .. Len(s) : ~Ends(p, Len(p), s, o)
    \/ \E e \in from .. Len(s) :
         /\ Ends(p, Len(p), s, e) /\ \A o \in from .. e - 1 : ~Ends(p, Len(p), s, o)
         /\ x = [at |-> e - Len(p), offset |-> e + 1, matched |-> Len(p)]

LEMMA NextIsFound ==
    ASSUME NEW p, Len(p) \in Nat \ {0}, NEW s, Len(s) \in Nat, NEW from \in 1 .. Len(s) + 1,
           NEW match, Longest(p, s, from - 1, Len(p), match)
    PROVE  Found(s, p, from, Output!NextOccurrence(s, p, from, match))
<1>. DEFINE n == Len(p)
            l == Len(s)
            D == from - 1 .. l
            Step(f, o) == IF o < from THEN match
                          ELSE Output!Fallback(p, Output!PrefixLengths(p), Output!Resume(p, f[o - 1]), s[o])
            Matching(f) == f = [o \in D |-> Step(f, o)]
            g == [o \in D |-> CHOOSE r : Longest(p, s, o, n, r)]
            f == CHOOSE h : Matching(h)
            ends == { o \in from .. l : f[o] = n }
<1>0. n \in Nat \ {0} /\ l \in Nat /\ from \in 1 .. l + 1 /\ D \subseteq Nat
  OBVIOUS
<1>1. \A o \in D : Longest(p, s, o, n, g[o])
  <2>. SUFFICES ASSUME NEW o \in D PROVE Longest(p, s, o, n, g[o])
    OBVIOUS
  <2>1. \E r : Longest(p, s, o, n, r)
    BY <1>0, OneLongest
  <2>2. g[o] = CHOOSE r : Longest(p, s, o, n, r)
    OBVIOUS
  <2>. QED
    BY <2>1, <2>2
<1>2. ASSUME NEW h, NEW o \in D, o >= from, Longest(p, s, o - 1, n, h[o - 1]) PROVE Longest(p, s, o, n, Step(h, o))
  <2>1. o - 1 \in Nat /\ (o - 1) + 1 = o
    BY <1>0, <1>2
  <2>2. ~(o < from)
    BY <1>0, <1>2
  <2>3. Longest(p, s, (o - 1) + 1, n,
                Output!Fallback(p, Output!PrefixLengths(p), Output!Resume(p, h[o - 1]), s[(o - 1) + 1]))
    BY <1>2, <2>1, SearchGoesOn
  <2>. QED
    BY <2>1, <2>2, <2>3
<1>3. Longest(p, s, from - 1, n, match) /\ \A h : Step(h, from - 1) = match
  BY <1>0
<1>. HIDE DEF Step
<1>4. Matching(g)
  <2>1. g = [o \in D |-> g[o]]
    OBVIOUS
  <2>. HIDE DEF g
  <2>2. ASSUME NEW o \in D PROVE g[o] = Step(g, o)
    <3>1. Longest(p, s, o, n, g[o]) /\ o \in Nat
      BY <1>0, <1>1
    <3>2. Longest(p, s, o, n, Step(g, o))
      <4>1. CASE o = from - 1
        BY <1>3, <4>1
      <4>2. CASE o # from - 1
        <5>1. o >= from /\ o - 1 \in D
          BY <1>0, <4>2
        <5>. QED
          BY <1>1, <1>2, <5>1
      <4>. QED
        BY <4>1, <4>2
    <3>. QED
      BY <1>0, <3>1, <3>2, OneLongest
  <2>. QED
    BY <2>1, <2>2
<1>5. Matching(f)
  <2>. HIDE DEF Matching, g
  <2>. QED
    BY <1>4
<1>6. Output!NextOccurrence(s, p, from, match) =
        IF ends = {} THEN Output!Exhausted
        ELSE [at |-> Output!Min(ends) - n, offset |-> Output!Min(ends) + 1, matched |-> n]
  BY Zenon DEF Output!NextOccurrence, Step
<1>. HIDE DEF f
<1>7. \A o \in D : f[o] = Step(f, o)
  BY <1>5
<1>. HIDE DEF Matching, g
<1>. DEFINE k == l - (from - 1)
            T == { i \in 0 .. k : Longest(p, s, from - 1 + i, n, f[from - 1 + i]) }
<1>8. k \in Nat
  BY <1>0
<1>9. 0 \in T
  <2>1. from - 1 + 0 = from - 1 /\ from - 1 \in D
    BY <1>0
  <2>. QED
    BY <1>3, <1>7, <1>8, <2>1
<1>10. ASSUME NEW i \in 0 .. k - 1, i \in T PROVE i + 1 \in T
  <2>. DEFINE o == from - 1 + (i + 1)
  <2>1. o \in D /\ o >= from /\ o - 1 = from - 1 + i /\ i + 1 \in 0 .. k
    BY <1>0
  <2>2. Longest(p, s, o - 1, n, f[o - 1])
    BY <1>10, <2>1
  <2>. HIDE DEF o
  <2>3. Longest(p, s, o, n, Step(f, o))
    BY <1>2, <2>1, <2>2
  <2>4. Longest(p, s, o, n, f[o])
    BY <1>7, <2>1, <2>3
  <2>. QED
    BY <2>1, <2>4 DEF o
<1>11. \A i \in 0 .. k : i \in T
  <2>. HIDE DEF T, k
  <2>. QED
    BY <1>8, <1>9, <1>10, UpTo
<1>12. ASSUME NEW o \in from .. l PROVE f[o] = n <=> Ends(p, n, s, o)
  <2>1. o - (from - 1) \in 0 .. k /\ from - 1 + (o - (from - 1)) = o
    BY <1>0
  <2>2. o - (from - 1) \in T
    BY <1>11, <2>1
  <2>3. Longest(p, s, o, n, f[o])
    BY <2>1, <2>2
  <2>. HIDE DEF n
  <2>. QED
    BY <1>0, <2>3 DEF Longest
<1>. HIDE DEF T, k
<1>13. ends = { o \in from .. l : Ends(p, n, s, o) }
  BY <1>12
<1>14. CASE ends = {}
  <2>1. \A o \in from .. l : ~Ends(p, n, s, o)
    BY <1>13, <1>14
  <2>2. Output!NextOccurrence(s, p, from, match) = Output!Exhausted
    BY <1>6, <1>14, Zenon
  <2>. QED
    BY <2>1, <2>2 DEF Found
<1>15. CASE ends # {}
  <2>. DEFINE e == Output!Min(ends)
  <2>1. ends \in SUBSET Nat
    BY <1>0
  <2>2. e \in ends /\ \A y \in ends : e <= y
    <3>. HIDE DEF ends
    <3>. QED
      BY <1>15, <2>1, LeastOf
  <2>3. Output!NextOccurrence(s, p, from, match) = [at |-> e - n, offset |-> e + 1, matched |-> n]
    BY <1>6, <1>15, Zenon
  <2>. HIDE DEF e, ends
  <2>4. e \in from .. l /\ Ends(p, n, s, e)
    BY <1>13, <2>2
  <2>5. ASSUME NEW o \in from .. e - 1 PROVE ~Ends(p, n, s, o)
    <3>1. o \in from .. l /\ ~(e <= o)
      BY <1>0, <2>4
    <3>. QED
      BY <1>13, <2>2, <3>1
  <2>. QED
    BY <2>3, <2>4, <2>5 DEF Found
<1>. QED
  BY <1>14, <1>15

-----------------------------------------------------------------------------
(* OutputSanitizer: the stream                                                 *)

Bytes == (Output!Characters \X Nat) \cup ({"redacted"} \X Nat)

LEMMA OutputConstants ==
    /\ Width \in [Output!Characters -> Nat \ {0}]
    /\ {MaxText, MaxPattern, MaxPatterns, Batch, MarkerWidth} \subseteq Nat \ {0} /\ Limit \in Nat
BY AllConstantsAreLegal DEF Output!ConstantsAreLegal

(* What has left the buffer, and what is in it.                                *)
Held(kept, buf) ==
    [buffer |-> buf, length |-> Len(kept), retained |-> IF Len(kept) <= Limit THEN {kept} ELSE {}]

(* All that was emitted so far.                                                *)
Holds(s, all) == \E kept, buf \in Seq(Bytes) : s = Held(kept, buf) /\ all = kept \o buf

LEMMA FlushHolds ==
    ASSUME NEW s, NEW all, Holds(s, all)
    PROVE  Output!Flushed(s) = Held(all, <<>>) /\ all \in Seq(Bytes)
<1>1. PICK kept \in Seq(Bytes) : \E buf \in Seq(Bytes) : s = Held(kept, buf) /\ all = kept \o buf
  BY DEF Holds
<1>2. PICK buf \in Seq(Bytes) : s = Held(kept, buf) /\ all = kept \o buf
  BY <1>1
<1>3. /\ s.buffer = buf /\ s.length = Len(kept)
      /\ s.retained = IF Len(kept) <= Limit THEN {kept} ELSE {}
      /\ s = [buffer |-> s.buffer, length |-> s.length, retained |-> s.retained]
  BY <1>2 DEF Held
<1>4. /\ all \in Seq(Bytes) /\ Len(all) = Len(kept) + Len(buf) /\ Len(kept) \in Nat /\ Len(buf) \in Nat
  BY <1>2, ConcatProperties
<1>5. CASE buf = <<>>
  <2>1. all = kept
    BY <1>2, <1>5, ConcatEmptySeq
  <2>2. Output!Flushed(s) = s
    BY <1>3, <1>5 DEF Output!Flushed
  <2>. QED
    BY <1>2, <1>4, <1>5, <2>1, <2>2
<1>6. CASE buf # <<>>
  <2>. DEFINE length == s.length + Len(buf)
              retained_ == IF length > Limit THEN {} ELSE { bytes \o buf : bytes \in s.retained }
  <2>1. Output!Flushed(s) = [buffer |-> <<>>, length |-> length, retained |-> retained_]
    BY <1>2, <1>6 DEF Output!Flushed, Output!Recorded, Held
  <2>2. length = Len(all)
    BY <1>3, <1>4
  <2>3. retained_ = IF Len(all) <= Limit THEN {all} ELSE {}
    <3>1. CASE Len(all) <= Limit
      <4>1. ~(length > Limit) /\ Len(kept) <= Limit
        BY <1>4, <2>2, <3>1, OutputConstants
      <4>2. s.retained = {kept}
        BY <1>3, <4>1
      <4>. HIDE DEF length
      <4>. QED
        BY <1>2, <3>1, <4>1, <4>2
    <3>2. CASE ~(Len(all) <= Limit)
      <4>1. length > Limit
        BY <1>4, <2>2, <3>2, OutputConstants
      <4>. HIDE DEF length
      <4>. QED
        BY <3>2, <4>1
    <3>. QED
      BY <3>1, <3>2
  <2>. HIDE DEF length, retained_
  <2>. QED
    BY <1>4, <2>1, <2>2, <2>3 DEF Held
<1>. QED
  BY <1>5, <1>6

LEMMA AppendAfter ==
    ASSUME NEW s \in Seq(Bytes), NEW t \in Seq(Bytes), NEW x \in Bytes
    PROVE  Append(s \o t, x) = s \o Append(t, x)
<1>1. /\ s \o t \in Seq(Bytes) /\ <<x>> \in Seq(Bytes)
      /\ Append(s \o t, x) = (s \o t) \o <<x>> /\ Append(t, x) = t \o <<x>>
  BY ConcatProperties, AppendIsConcat
<1>2. (s \o t) \o <<x>> = s \o (t \o <<x>>)
  BY <1>1, ConcatAssociative
<1>. QED
  BY <1>1, <1>2

LEMMA PutHolds ==
    ASSUME NEW s, NEW all, Holds(s, all), NEW byte \in Bytes
    PROVE  Holds(Output!Put(s, byte), Append(all, byte))
<1>1. PICK kept \in Seq(Bytes) : \E buf \in Seq(Bytes) : s = Held(kept, buf) /\ all = kept \o buf
  BY DEF Holds
<1>2. PICK buf \in Seq(Bytes) : s = Held(kept, buf) /\ all = kept \o buf
  BY <1>1
<1>. DEFINE more == Append(buf, byte)
            t == [s EXCEPT !.buffer = Append(@, byte)]
<1>3. more \in Seq(Bytes) /\ Append(all, byte) = kept \o more
  <2>1. Append(kept \o buf, byte) = kept \o Append(buf, byte)
    BY AppendAfter, Zenon
  <2>2. Append(buf, byte) \in Seq(Bytes)
    OBVIOUS
  <2>. QED
    BY <1>2, <2>1, <2>2, Zenon
<1>4. t = Held(kept, more)
  <2>. DEFINE r == IF Len(kept) <= Limit THEN {kept} ELSE {}
  <2>1. s = [buffer |-> buf, length |-> Len(kept), retained |-> r]
    BY <1>2 DEF Held
  <2>2. Held(kept, more) = [buffer |-> Append(buf, byte), length |-> Len(kept), retained |-> r]
    BY DEF Held
  <2>. DEFINE l == Len(kept)
              v == Append(buf, byte)
  <2>. HIDE DEF r, l, v
  <2>3. s.buffer = buf
    BY <2>1
  <2>4. s = [buffer |-> buf, length |-> l, retained |-> r]
    BY <2>1 DEF l
  <2>5. t = [s EXCEPT !.buffer = v]
    BY <2>3 DEF v
  <2>6. t = [buffer |-> v, length |-> l, retained |-> r]
    BY <2>4, <2>5
  <2>. QED
    BY <2>2, <2>6, Zenon DEF l, v
<1>. HIDE DEF more
<1>5. Holds(t, Append(all, byte))
  BY <1>3, <1>4 DEF Holds
<1>6. Output!Put(s, byte) = t \/ Output!Put(s, byte) = Output!Flushed(t)
  BY Zenon DEF Output!Put
<1>. HIDE DEF t
<1>7. Output!Flushed(t) = Held(Append(all, byte), <<>>) /\ Append(all, byte) \in Seq(Bytes)
  BY <1>5, FlushHolds
<1>8. Holds(Output!Flushed(t), Append(all, byte))
  <2>1. <<>> \in Seq(Bytes) /\ Append(all, byte) \o <<>> = Append(all, byte)
    BY <1>7, ConcatEmptySeq
  <2>. QED
    BY <1>7, <2>1 DEF Holds
<1>. QED
  BY <1>5, <1>6, <1>8

LEMMA EmitHolds ==
    ASSUME NEW s, NEW all \in Seq(Bytes), Holds(s, all), NEW bytes \in Seq(Bytes)
    PROVE  Holds(Output!Emit(s, bytes), all \o bytes) /\ all \o bytes \in Seq(Bytes)
<1>. DEFINE n == Len(bytes)
            S == { x \in [buffer : Seq(Bytes), length : Nat, retained : SUBSET Seq(Bytes)] :
                     \E e \in Seq(Bytes) : Holds(x, e) }
            step == [i \in 1 .. n |-> [x \in S |-> Output!Put(x, bytes[i])]]
            Puts(f) == f = [i \in 0 .. n |-> IF i = 0 THEN s ELSE Output!Put(f[i - 1], bytes[i])]
            g == CHOOSE f : Puts(f)
<1>0. n \in Nat /\ \A i \in 1 .. n : bytes[i] \in Bytes
  OBVIOUS
<1>1. ASSUME NEW x, NEW e \in Seq(Bytes), Holds(x, e) PROVE x \in S
  <2>1. PICK kept \in Seq(Bytes) : \E buf \in Seq(Bytes) : x = Held(kept, buf)
    BY <1>1 DEF Holds
  <2>2. PICK buf \in Seq(Bytes) : x = Held(kept, buf)
    BY <2>1
  <2>3. Len(kept) \in Nat /\ (IF Len(kept) <= Limit THEN {kept} ELSE {}) \in SUBSET Seq(Bytes)
    OBVIOUS
  <2>4. x \in [buffer : Seq(Bytes), length : Nat, retained : SUBSET Seq(Bytes)]
    BY <2>2, <2>3 DEF Held
  <2>. QED
    BY <1>1, <2>4
<1>2. \A x \in S : \E e \in Seq(Bytes) : Holds(x, e)
  OBVIOUS
<1>3. s \in S
  BY <1>1
<1>4. ASSUME NEW x \in S, NEW i \in 1 .. n PROVE Output!Put(x, bytes[i]) \in S
  <2>1. PICK e \in Seq(Bytes) : Holds(x, e)
    BY <1>2
  <2>2. Holds(Output!Put(x, bytes[i]), Append(e, bytes[i])) /\ Append(e, bytes[i]) \in Seq(Bytes)
    BY <1>0, <2>1, PutHolds
  <2>. HIDE DEF S
  <2>. QED
    BY <1>1, <2>2
<1>. HIDE DEF S
<1>5. \A i \in 1 .. n : \A x \in S : step[i][x] = Output!Put(x, bytes[i])
  OBVIOUS
<1>6. Stays(step, n, S)
  BY <1>4, <1>5 DEF Stays
<1>. HIDE DEF step
<1>7. PICK f : f \in [0 .. n -> S] /\ Recurs(f, s, n, step)
  <2>. HIDE DEF n
  <2>. QED
    BY <1>0, <1>3, <1>6, Recursion
<1>8. \A i \in 0 .. n : f[i] = IF i = 0 THEN s ELSE Output!Put(f[i - 1], bytes[i])
  <2>1. \A i \in 1 .. n : i - 1 \in 0 .. n /\ f[i - 1] \in S
    BY <1>0, <1>7
  <2>. QED
    BY <1>0, <1>5, <1>7, <2>1 DEF Recurs
<1>9. Puts(f)
  <2>1. f = [i \in 0 .. n |-> f[i]]
    BY <1>7
  <2>. QED
    BY <1>8, <2>1, Zenon
<1>10. Puts(g)
  <2>. HIDE DEF Puts
  <2>. QED
    BY <1>9
<1>11. Output!Emit(s, bytes) = g[n]
  BY Zenon DEF Output!Emit
<1>. HIDE DEF g
<1>12. \A i \in 0 .. n : g[i] = IF i = 0 THEN s ELSE Output!Put(g[i - 1], bytes[i])
  BY <1>10
<1>. HIDE DEF Puts
<1>. DEFINE head(i) == SubSeq(bytes, 1, i)
            T == { i \in 0 .. n : Holds(g[i], all \o head(i)) }
<1>13. 0 \in T
  <2>1. head(0) = <<>> /\ all \o <<>> = all
    BY ConcatEmptySeq
  <2>2. 0 \in 0 .. n /\ g[0] = s
    BY <1>0, <1>12
  <2>. QED
    BY <2>1, <2>2
<1>14. ASSUME NEW i \in 0 .. n - 1, i \in T PROVE i + 1 \in T
  <2>1. i + 1 \in 1 .. n /\ i + 1 \in 0 .. n /\ i + 1 # 0 /\ (i + 1) - 1 = i
    BY <1>0
  <2>2. g[i + 1] = Output!Put(g[i], bytes[i + 1])
    BY <1>12, <2>1
  <2>3. head(i) \in Seq(Bytes) /\ head(i + 1) = Append(head(i), bytes[i + 1])
    BY <1>0, <2>1
  <2>4. Append(all \o head(i), bytes[i + 1]) = all \o head(i + 1)
    <3>. HIDE DEF head
    <3>1. bytes[i + 1] \in Bytes
      BY <1>0, <2>1
    <3>2. Append(all \o head(i), bytes[i + 1]) = all \o Append(head(i), bytes[i + 1])
      <4>. DEFINE h == head(i)
                  x == bytes[i + 1]
      <4>1. h \in Seq(Bytes) /\ x \in Bytes /\ all \in Seq(Bytes)
        BY <2>3, <3>1
      <4>. HIDE DEF h, x
      <4>2. Append(all \o h, x) = all \o Append(h, x)
        BY <4>1, AppendAfter, Zenon
      <4>. QED
        BY <4>2 DEF h, x
    <3>. QED
      BY <2>3, <3>2
  <2>5. Holds(g[i + 1], all \o head(i + 1))
    <3>1. Holds(g[i], all \o head(i)) /\ bytes[i + 1] \in Bytes
      BY <1>0, <1>14, <2>1
    <3>. HIDE DEF head
    <3>. QED
      BY <2>2, <2>4, <3>1, PutHolds
  <2>. QED
    BY <2>1, <2>5
<1>15. \A i \in 0 .. n : i \in T
  <2>. HIDE DEF T
  <2>. QED
    BY <1>0, <1>13, <1>14, UpTo
<1>16. Holds(g[n], all \o head(n))
  BY <1>0, <1>15
<1>17. head(n) = bytes
  OBVIOUS
<1>18. all \o bytes \in Seq(Bytes)
  OBVIOUS
<1>. HIDE DEF head, T
<1>. QED
  BY <1>11, <1>16, <1>17, <1>18

-----------------------------------------------------------------------------
(* OutputSanitizer: the scan                                                   *)

OutputTyped ==
    value \in Seq(Output!Characters) /\ patterns \in Seq(Seq(Output!Characters) \ {<<>>})

ScanStates == [offset : 0 .. Len(value), bytes : Seq(Bytes), count : Nat]
Scan == CHOOSE scan : scan =
            [i \in 0 .. Len(value) |->
               IF i = 0 THEN [offset |-> 0, bytes |-> <<>>, count |-> 0] ELSE Output!Scanned(scan[i - 1])]

LEMMA BytesAre ==
    Output!Marker \in Seq(Bytes) /\ \A c \in Output!Characters : Output!BytesOf(c) \in Seq(Bytes)
<1>1. Output!Marker \in Seq(Bytes)
  <2>1. MarkerWidth \in Nat
    BY OutputConstants
  <2>2. Output!Marker = [i \in 1 .. MarkerWidth |-> <<"redacted", i>>]
    BY DEF Output!Marker
  <2>3. \A i \in 1 .. MarkerWidth : <<"redacted", i>> \in Bytes
    BY <2>1 DEF Bytes
  <2>. QED
    BY <2>1, <2>2, <2>3
<1>2. ASSUME NEW c \in Output!Characters PROVE Output!BytesOf(c) \in Seq(Bytes)
  <2>1. Width[c] \in Nat
    BY OutputConstants
  <2>2. Output!BytesOf(c) = [i \in 1 .. Width[c] |-> <<c, i>>]
    BY DEF Output!BytesOf
  <2>3. \A i \in 1 .. Width[c] : <<c, i>> \in Bytes
    BY <2>1 DEF Bytes
  <2>. QED
    BY <2>1, <2>2, <2>3
<1>. QED
  BY <1>1, <1>2

LEMMA PatternIs ==
    ASSUME OutputTyped, NEW i \in DOMAIN patterns
    PROVE  patterns[i] \in Seq(Output!Characters) /\ Len(patterns[i]) \in Nat \ {0} /\ i \in Nat
<1>1. patterns[i] \in Seq(Output!Characters) /\ patterns[i] # <<>> /\ i \in Nat
  BY DEF OutputTyped
<1>. QED
  BY <1>1

LEMMA MatchesIs ==
    ASSUME NEW C, NEW s \in Seq(C), NEW p \in Seq(C), NEW o \in Nat
    PROVE  Output!Matches(s, o, p) <=> o + Len(p) <= Len(s) /\ Ends(p, Len(p), s, o + Len(p))
<1>. DEFINE n == Len(p)
            t == SubSeq(s, o + 1, o + n)
<1>1. n \in Nat /\ p \in [1 .. n -> C]
  OBVIOUS
<1>2. Ends(p, n, s, o + n) <=> \A j \in 1 .. n : p[j] = s[o + j]
  <2>. HIDE DEF n
  <2>1. \A j \in 1 .. n : (o + n) - n + j = o + j
    BY <1>1
  <2>2. n <= o + n
    BY <1>1
  <2>. QED
    BY <2>1, <2>2 DEF Ends
<1>3. ASSUME o + n <= Len(s) PROVE t = p <=> \A j \in 1 .. n : p[j] = s[o + j]
  <2>1. t \in Seq(C) /\ Len(t) = n /\ \A j \in 1 .. n : t[j] = s[o + j]
    <3>1. o + 1 \in 1 .. Len(s) + 1 /\ o + n \in o .. Len(s) /\ (o + n) - (o + 1) + 1 = n
          /\ \A j \in 1 .. n : o + 1 + j - 1 = o + j
      BY <1>1, <1>3
    <3>. HIDE DEF n
    <3>. QED
      BY <1>1, <1>3, <3>1, SubSeqProperties
  <2>. HIDE DEF t
  <2>2. t = p <=> \A j \in 1 .. n : t[j] = p[j]
    BY <1>1, <2>1, SeqEqual
  <2>. QED
    BY <2>1, <2>2
<1>. QED
  BY <1>2, <1>3 DEF Output!Matches

LEMMA SelectedIs ==
    ASSUME OutputTyped, NEW o \in Nat
    PROVE  /\ Output!Selected(o) \in SUBSET Nat
           /\ \A i \in Output!Selected(o) :
                /\ i \in DOMAIN patterns
                /\ o + Len(patterns[i]) <= Len(value)
                /\ Ends(patterns[i], Len(patterns[i]), value, o + Len(patterns[i]))
           /\ \A i \in DOMAIN patterns :
                /\ o + Len(patterns[i]) <= Len(value)
                /\ Ends(patterns[i], Len(patterns[i]), value, o + Len(patterns[i]))
                => i \in Output!Selected(o)
<1>1. ASSUME NEW i \in DOMAIN patterns
      PROVE  /\ i \in Nat
             /\ i \in Output!Selected(o) <=>
                  /\ o + Len(patterns[i]) <= Len(value)
                  /\ Ends(patterns[i], Len(patterns[i]), value, o + Len(patterns[i]))
  <2>. DEFINE p == patterns[i]
  <2>1. p \in Seq(Output!Characters) /\ value \in Seq(Output!Characters) /\ i \in Nat
    BY PatternIs DEF OutputTyped
  <2>2. i \in Output!Selected(o) <=> Output!Matches(value, o, p)
    BY DEF Output!Selected
  <2>. HIDE DEF p
  <2>3. Output!Matches(value, o, p) <=> o + Len(p) <= Len(value) /\ Ends(p, Len(p), value, o + Len(p))
    BY <2>1, MatchesIs
  <2>. QED
    BY <2>1, <2>2, <2>3 DEF p
<1>2. \A i \in Output!Selected(o) : i \in DOMAIN patterns
  BY DEF Output!Selected
<1>. QED
  BY <1>1, <1>2

LEMMA ScannedIs ==
    ASSUME OutputTyped, NEW s \in ScanStates
    PROVE  /\ Output!Scanned(s) \in ScanStates
           /\ s.offset = Len(value) => Output!Scanned(s) = s
           /\ s.offset # Len(value) => Output!Scanned(s).offset > s.offset
           /\ s.offset # Len(value) /\ Output!Selected(s.offset) = {} =>
                Output!Scanned(s) = [offset |-> s.offset + 1, count |-> s.count,
                                     bytes |-> s.bytes \o Output!BytesOf(value[s.offset + 1])]
           /\ \A i \in Output!Selected(s.offset) :
                s.offset # Len(value) /\ (\A j \in Output!Selected(s.offset) : i <= j) =>
                  Output!Scanned(s) = [offset |-> s.offset + Len(patterns[i]), count |-> s.count + 1,
                                       bytes |-> s.bytes \o Output!Marker]
<1>. DEFINE l == Len(value)
            o == s.offset
<1>1. /\ l \in Nat /\ o \in 0 .. l /\ o \in Nat /\ s.bytes \in Seq(Bytes) /\ s.count \in Nat
      /\ s = [offset |-> s.offset, bytes |-> s.bytes, count |-> s.count]
  BY DEF ScanStates, OutputTyped
<1>2. CASE o = l
  <2>1. Output!Scanned(s) = s
    BY <1>2, Zenon DEF Output!Scanned
  <2>. QED
    BY <1>2, <2>1
<1>3. CASE o # l /\ Output!Selected(o) = {}
  <2>. DEFINE new == s.bytes \o Output!BytesOf(value[o + 1])
  <2>1. Output!Scanned(s) = [s EXCEPT !.offset = o + 1, !.bytes = new]
    BY <1>3, Zenon DEF Output!Scanned
  <2>2. new \in Seq(Bytes)
    <3>1. value[o + 1] \in Output!Characters
      <4>1. o + 1 \in 1 .. l
        BY <1>1, <1>3
      <4>. QED
        BY <4>1 DEF OutputTyped
    <3>2. Output!BytesOf(value[o + 1]) \in Seq(Bytes)
      BY <3>1, BytesAre
    <3>. QED
      BY <1>1, <3>2, ConcatProperties
  <2>. HIDE DEF new
  <2>3. Output!Scanned(s) = [offset |-> o + 1, count |-> s.count, bytes |-> new]
    BY <1>1, <2>1
  <2>4. o + 1 \in 0 .. l /\ o + 1 > o
    BY <1>1, <1>3
  <2>. HIDE DEF l, o
  <2>5. Output!Scanned(s) \in ScanStates /\ Output!Scanned(s).offset > o
    BY <1>1, <2>2, <2>3, <2>4 DEF ScanStates, l
  <2>. QED
    BY <1>3, <2>3, <2>5 DEF new, o, l
<1>4. CASE o # l /\ Output!Selected(o) # {}
  <2>. DEFINE least == Output!Min(Output!Selected(o))
              n == Len(patterns[least])
              new == s.bytes \o Output!Marker
  <2>1. Output!Scanned(s) = [offset |-> o + n, bytes |-> new, count |-> s.count + 1]
    BY <1>4, Zenon DEF Output!Scanned
  <2>2. least \in Output!Selected(o) /\ \A j \in Output!Selected(o) : least <= j
    <3>1. Output!Selected(o) \in SUBSET Nat
      BY <1>1, SelectedIs
    <3>. HIDE DEF o
    <3>. QED
      BY <1>4, <3>1, LeastOf
  <2>. HIDE DEF least
  <2>3. n \in Nat \ {0} /\ o + n <= l
    BY <1>1, <2>2, SelectedIs, PatternIs
  <2>4. new \in Seq(Bytes)
    BY <1>1, BytesAre, ConcatProperties
  <2>5. o + n \in 0 .. l /\ o + n > o /\ s.count + 1 \in Nat
    BY <1>1, <2>3
  <2>6. \A i \in Output!Selected(o) : (\A j \in Output!Selected(o) : i <= j) => i = least
    <3>1. Output!Selected(o) \in SUBSET Nat
      BY <1>1, SelectedIs
    <3>. HIDE DEF o
    <3>2. ASSUME NEW i \in Output!Selected(o), \A j \in Output!Selected(o) : i <= j PROVE i = least
      <4>1. i <= least /\ least <= i /\ i \in Nat /\ least \in Nat
        BY <2>2, <3>1, <3>2
      <4>. QED
        BY <4>1
    <3>. QED
      BY <3>2
  <2>. HIDE DEF new, n
  <2>7. Output!Scanned(s) \in ScanStates /\ Output!Scanned(s).offset > o
    BY <2>1, <2>4, <2>5 DEF ScanStates
  <2>8. \A i \in Output!Selected(o) : (\A j \in Output!Selected(o) : i <= j) =>
          Output!Scanned(s) = [offset |-> o + Len(patterns[i]), count |-> s.count + 1, bytes |-> new]
    BY <2>1, <2>6 DEF n
  <2>. QED
    BY <1>4, <2>7, <2>8 DEF new
<1>. QED
  BY <1>2, <1>3, <1>4

(* The loop moves on in every round until it is through.                       *)
LEMMA ScanIs ==
    ASSUME OutputTyped
    PROVE  /\ Scan \in [0 .. Len(value) -> ScanStates]
           /\ Scan[0] = [offset |-> 0, bytes |-> <<>>, count |-> 0]
           /\ \A i \in 1 .. Len(value) : Scan[i] = Output!Scanned(Scan[i - 1])
           /\ \A i \in 0 .. Len(value) : Scan[i].offset >= i
           /\ Output!Replaced = Scan[Len(value)]
<1>. DEFINE l == Len(value)
            start == [offset |-> 0, bytes |-> <<>>, count |-> 0]
            Scans(f) == f = [i \in 0 .. l |-> IF i = 0 THEN start ELSE Output!Scanned(f[i - 1])]
            step == [i \in 1 .. l |-> [x \in ScanStates |-> Output!Scanned(x)]]
<1>0. l \in Nat
  BY DEF OutputTyped
<1>1. start \in ScanStates
  BY <1>0 DEF ScanStates
<1>2. \A i \in 1 .. l : \A x \in ScanStates : step[i][x] = Output!Scanned(x)
  OBVIOUS
<1>3. Stays(step, l, ScanStates)
  BY <1>2, ScannedIs DEF Stays
<1>. HIDE DEF step
<1>4. PICK f : f \in [0 .. l -> ScanStates] /\ Recurs(f, start, l, step)
  <2>. HIDE DEF l, start
  <2>. QED
    BY <1>0, <1>1, <1>3, Recursion
<1>5. \A i \in 0 .. l : f[i] = IF i = 0 THEN start ELSE Output!Scanned(f[i - 1])
  <2>. HIDE DEF start
  <2>1. \A i \in 1 .. l : i - 1 \in 0 .. l /\ f[i - 1] \in ScanStates
    BY <1>0, <1>4
  <2>. QED
    BY <1>0, <1>2, <1>4, <2>1 DEF Recurs
<1>6. Scans(f)
  <2>1. f = [i \in 0 .. l |-> f[i]]
    BY <1>4
  <2>. QED
    BY <1>5, <2>1, Zenon
<1>7. Scan = CHOOSE h : Scans(h)
  BY Zenon DEF Scan
<1>8. Scans(Scan)
  <2>. HIDE DEF Scans
  <2>. QED
    BY <1>6, <1>7
<1>9. Output!Replaced = Scan[l]
  BY Zenon DEF Scan, Output!Replaced
<1>10. /\ Scan = [i \in 0 .. l |-> Scan[i]]
       /\ \A i \in 0 .. l : Scan[i] = IF i = 0 THEN start ELSE Output!Scanned(Scan[i - 1])
  <2>. HIDE DEF start
  <2>. QED
    BY <1>8
<1>. HIDE DEF Scans, start
<1>. DEFINE T == { i \in 0 .. l : Scan[i] \in ScanStates /\ Scan[i].offset >= i }
<1>11. 0 \in T
  <2>1. start.offset = 0
    BY DEF start
  <2>2. 0 \in 0 .. l /\ Scan[0] = start
    BY <1>0, <1>10
  <2>. QED
    BY <1>1, <2>1, <2>2
<1>12. ASSUME NEW i \in 0 .. l - 1, i \in T PROVE i + 1 \in T
  <2>1. i + 1 \in 0 .. l /\ i + 1 # 0 /\ (i + 1) - 1 = i /\ i \in 0 .. l
    BY <1>0
  <2>2. Scan[i + 1] = Output!Scanned(Scan[i]) /\ Scan[i] \in ScanStates /\ Scan[i].offset >= i
    BY <1>10, <1>12, <2>1
  <2>. DEFINE x == Scan[i]
              y == Output!Scanned(x)
  <2>3. /\ y \in ScanStates
        /\ x.offset = l => y = x
        /\ x.offset # l => y.offset > x.offset
    BY <2>2, ScannedIs
  <2>6. x \in ScanStates /\ x.offset >= i /\ Scan[i + 1] = y
    BY <2>2
  <2>. HIDE DEF x, y, T
  <2>4. x.offset \in 0 .. l /\ y.offset \in 0 .. l
    BY <2>3, <2>6 DEF ScanStates
  <2>5. y.offset >= i + 1
    BY <1>0, <2>1, <2>3, <2>4, <2>6
  <2>. QED
    BY <2>1, <2>3, <2>5, <2>6 DEF T
<1>13. \A i \in 0 .. l : i \in T
  <2>. HIDE DEF T, l
  <2>. QED
    BY <1>0, <1>11, <1>12, UpTo
<1>14. Scan \in [0 .. l -> ScanStates] /\ \A i \in 0 .. l : Scan[i].offset >= i
  BY <1>10, <1>13
<1>15. Scan[0] = start /\ \A i \in 1 .. l : Scan[i] = Output!Scanned(Scan[i - 1])
  BY <1>0, <1>10
<1>. QED
  BY <1>9, <1>14, <1>15 DEF start

LEMMA JoinAssociative ==
    ASSUME NEW s \in Seq(Bytes), NEW t \in Seq(Bytes), NEW u \in Seq(Bytes)
    PROVE  (s \o t) \o u = s \o (t \o u)
BY ConcatAssociative

(* Where nothing is selected, the characters are copied.                       *)
LEMMA ScanRuns ==
    ASSUME OutputTyped, NEW i \in 0 .. Len(value), NEW at \in Scan[i].offset .. Len(value),
           \A o \in Scan[i].offset .. at - 1 : Output!Selected(o) = {}
    PROVE  /\ Output!Span(Scan[i].offset, at) \in Seq(Bytes)
           /\ \E j \in 0 .. Len(value) :
                Scan[j] = [offset |-> at, count |-> Scan[i].count,
                           bytes |-> Scan[i].bytes \o Output!Span(Scan[i].offset, at)]
<1>. DEFINE l == Len(value)
            o == Scan[i].offset
            all == Scan[i].bytes
            c == Scan[i].count
            n == at - o
            sub == SubSeq(value, o + 1, at)
            ss == [k \in DOMAIN sub |-> Output!BytesOf(sub[k])]
<1>1. /\ l \in Nat /\ o \in 0 .. l /\ o >= i /\ all \in Seq(Bytes) /\ c \in Nat
      /\ Scan[i] = [offset |-> o, bytes |-> all, count |-> c]
  <2>1. Scan[i] \in ScanStates /\ Scan[i].offset >= i
    BY ScanIs
  <2>2. l \in Nat
    BY DEF OutputTyped
  <2>. DEFINE x == Scan[i]
  <2>3. x \in ScanStates /\ x.offset >= i
    BY <2>1
  <2>. HIDE DEF x
  <2>4. /\ x.offset \in 0 .. l /\ x.bytes \in Seq(Bytes) /\ x.count \in Nat
        /\ x = [offset |-> x.offset, bytes |-> x.bytes, count |-> x.count]
    BY <2>3 DEF ScanStates
  <2>. QED
    BY <2>2, <2>3, <2>4, Zenon DEF x
<1>2. /\ i \in 0 .. l /\ at \in o .. l /\ \A q \in o .. at - 1 : Output!Selected(q) = {}
  OBVIOUS
<1>. HIDE DEF o, all, c
<1>3. n \in Nat /\ o + n = at
  BY <1>1, <1>2
<1>4. /\ sub \in Seq(Output!Characters) /\ Len(sub) = n
      /\ \A k \in 1 .. n : sub[k] = value[o + k]
  <2>1. o \in Nat /\ at \in Nat /\ l \in Nat
    BY <1>1, <1>2
  <2>2. value \in Seq(Output!Characters)
    BY DEF OutputTyped
  <2>3. o + 1 \in 1 .. Len(value) + 1 /\ at \in (o + 1) - 1 .. Len(value)
    BY <1>1, <1>2
  <2>. HIDE DEF l
  <2>4. at - (o + 1) + 1 = n
    BY <2>1
  <2>5. \A k \in 1 .. n : o + 1 + k - 1 = o + k
    <3>. HIDE DEF n
    <3>. QED
      BY <1>3, <2>1
  <2>. HIDE DEF n
  <2>. QED
    BY <2>2, <2>3, <2>4, <2>5, SubSeqProperties
<1>. HIDE DEF sub
<1>5. /\ ss \in Seq(Seq(Bytes)) /\ Len(ss) = n
      /\ \A k \in 1 .. n : ss[k] = Output!BytesOf(value[o + k]) /\ ss[k] \in Seq(Bytes)
  <2>1. DOMAIN sub = 1 .. n
    BY <1>3, <1>4
  <2>2. \A k \in 1 .. n : sub[k] \in Output!Characters
    BY <1>4, <2>1
  <2>3. ss = [k \in 1 .. n |-> Output!BytesOf(sub[k])]
    BY <2>1
  <2>. HIDE DEF ss, n
  <2>4. \A k \in 1 .. n : ss[k] = Output!BytesOf(value[o + k]) /\ ss[k] \in Seq(Bytes)
    BY <1>4, <2>2, <2>3, BytesAre
  <2>5. ss \in Seq(Seq(Bytes)) /\ Len(ss) = n
    BY <1>3, <2>3, <2>4
  <2>. QED
    BY <2>4, <2>5
<1>6. Output!Span(o, at) = FlattenSeq(ss)
  <2>1. Output!Span(o, at) = Output!FlattenSeq(ss)
    BY Zenon DEF Output!Span, Output!Utf8, sub
  <2>2. Output!FlattenSeq(ss) = FlattenSeq(ss)
    BY Zenon DEF Output!FlattenSeq, FlattenSeq
  <2>. QED
    BY <2>1, <2>2
<1>. HIDE DEF ss
<1>7. PICK f : /\ Flattens(f, ss) /\ f[Len(ss)] = FlattenSeq(ss)
               /\ \A k \in 0 .. Len(ss) : f[k] \in Seq(Bytes)
  BY <1>5, Flattening
<1>8. /\ f[0] = <<>> /\ \A k \in 0 .. n : f[k] \in Seq(Bytes)
      /\ \A k \in 1 .. n : f[k] = f[k - 1] \o Output!BytesOf(value[o + k])
  BY <1>5, <1>7 DEF Flattens
<1>. DEFINE T == { k \in 0 .. n : Scan[i + k] = [offset |-> o + k, count |-> c, bytes |-> all \o f[k]] }
<1>9. 0 \in T
  <2>1. all \o f[0] = all
    BY <1>1, <1>8, ConcatEmptySeq
  <2>2. i + 0 = i /\ o + 0 = o /\ 0 \in 0 .. n
    BY <1>1, <1>2, <1>3
  <2>. QED
    BY <1>1, <2>1, <2>2
<1>10. ASSUME NEW k \in 0 .. n - 1, k \in T PROVE k + 1 \in T
  <2>1. /\ i + k \in 0 .. l /\ i + (k + 1) \in 1 .. l /\ (i + (k + 1)) - 1 = i + k /\ k + 1 \in 0 .. n
        /\ k + 1 \in 1 .. n /\ (k + 1) - 1 = k /\ k \in 0 .. n
        /\ o + k \in o .. at - 1 /\ o + k # l /\ (o + k) + 1 = o + (k + 1)
    <3>1. k \in 0 .. n - 1
      OBVIOUS
    <3>. HIDE DEF T, n, l
    <3>2. i \in Nat /\ i <= o /\ o \in Nat /\ at \in Nat /\ at <= l
      BY <1>1, <1>2
    <3>. QED
      BY <1>1, <1>3, <3>1, <3>2
  <2>. DEFINE x == Scan[i + k]
  <2>2. x = [offset |-> o + k, count |-> c, bytes |-> all \o f[k]]
    BY <1>10
  <2>3. x \in ScanStates
    BY <2>1, ScanIs
  <2>4. Scan[i + (k + 1)] = Output!Scanned(x)
    BY <2>1, ScanIs
  <2>. HIDE DEF x
  <2>5. x.offset = o + k /\ x.count = c /\ x.bytes = all \o f[k]
    BY <2>2
  <2>6. Output!Selected(x.offset) = {} /\ x.offset # l
    BY <1>2, <2>1, <2>5
  <2>7. Output!Scanned(x) = [offset |-> x.offset + 1, count |-> x.count,
                             bytes |-> x.bytes \o Output!BytesOf(value[x.offset + 1])]
    BY <2>3, <2>6, ScannedIs
  <2>8. (all \o f[k]) \o Output!BytesOf(value[o + (k + 1)]) = all \o f[k + 1]
    <3>. DEFINE w == Output!BytesOf(value[o + (k + 1)])
                v == f[k]
    <3>1. w \in Seq(Bytes) /\ v \in Seq(Bytes)
      BY <1>5, <1>8, <2>1
    <3>2. f[k + 1] = v \o w
      BY <1>8, <2>1
    <3>. HIDE DEF w, v
    <3>3. (all \o v) \o w = all \o (v \o w)
      BY <1>1, <3>1, JoinAssociative, Zenon
    <3>. QED
      BY <3>2, <3>3, Zenon DEF w, v
  <2>9. Scan[i + (k + 1)] = [offset |-> o + (k + 1), count |-> c, bytes |-> all \o f[k + 1]]
    BY <2>1, <2>4, <2>5, <2>7, <2>8, Zenon
  <2>. QED
    BY <2>1, <2>9
<1>11. \A k \in 0 .. n : k \in T
  <2>. HIDE DEF T, n
  <2>. QED
    BY <1>3, <1>9, <1>10, UpTo
<1>12. Scan[i + n] = [offset |-> at, count |-> c, bytes |-> all \o f[n]]
  <2>1. n \in T
    <3>. HIDE DEF T, n
    <3>. QED
      BY <1>3, <1>11
  <2>. QED
    BY <1>3, <2>1
<1>13. i + n \in 0 .. l
  BY <1>1, <1>2
<1>14. f[n] = Output!Span(o, at) /\ f[n] \in Seq(Bytes)
  BY <1>3, <1>5, <1>6, <1>7, <1>8
<1>. HIDE DEF T, n, l
<1>15. Scan[i + n] = [offset |-> at, count |-> c, bytes |-> all \o Output!Span(o, at)]
  BY <1>12, <1>14, Zenon
<1>. QED
  BY <1>13, <1>14, <1>15 DEF o, c, all, l

(* Where the least pattern is selected, it is replaced.                        *)
LEMMA ScanReplaces ==
    ASSUME OutputTyped, NEW j \in 0 .. Len(value), NEW i \in Output!Selected(Scan[j].offset),
           \A k \in Output!Selected(Scan[j].offset) : i <= k
    PROVE  \E k \in 0 .. Len(value) :
             Scan[k] = [offset |-> Scan[j].offset + Len(patterns[i]), count |-> Scan[j].count + 1,
                        bytes |-> Scan[j].bytes \o Output!Marker]
<1>. DEFINE l == Len(value)
            x == Scan[j]
            n == Len(patterns[i])
<1>1. l \in Nat /\ x \in ScanStates /\ x.offset >= j /\ x.offset \in 0 .. l
  BY ScanIs DEF ScanStates, OutputTyped
<1>2. n \in Nat \ {0} /\ x.offset + n <= l
  <2>. HIDE DEF x
  <2>1. x.offset \in Nat
    BY <1>1
  <2>2. i \in Output!Selected(x.offset)
    BY DEF x
  <2>3. i \in DOMAIN patterns /\ x.offset + n <= l
    BY <2>1, <2>2, SelectedIs
  <2>. QED
    BY <2>3, PatternIs
<1>3. x.offset # l /\ j + 1 \in 1 .. l /\ j + 1 \in 0 .. l /\ (j + 1) - 1 = j
  BY <1>1, <1>2
<1>4. Scan[j + 1] = Output!Scanned(x)
  BY <1>3, ScanIs
<1>5. Output!Scanned(x) = [offset |-> x.offset + n, count |-> x.count + 1, bytes |-> x.bytes \o Output!Marker]
  BY <1>1, <1>3, ScannedIs
<1>. QED
  BY <1>3, <1>4, <1>5

(* When it is through, it is done.                                             *)
LEMMA ScanEnds ==
    ASSUME OutputTyped, NEW i \in 0 .. Len(value), Scan[i].offset = Len(value)
    PROVE  Scan[Len(value)] = Scan[i]
<1>. DEFINE l == Len(value)
            n == l - i
            T == { k \in 0 .. n : Scan[i + k] = Scan[i] }
<1>1. l \in Nat /\ n \in Nat /\ i + n = l /\ i \in 0 .. l
  BY DEF OutputTyped
<1>2. 0 \in T
  BY <1>1
<1>3. ASSUME NEW k \in 0 .. n - 1, k \in T PROVE k + 1 \in T
  <2>1. /\ i + k \in 0 .. l /\ i + (k + 1) \in 1 .. l /\ (i + (k + 1)) - 1 = i + k /\ k + 1 \in 0 .. n
    BY <1>1
  <2>2. Scan[i + k] = Scan[i] /\ Scan[i + (k + 1)] = Output!Scanned(Scan[i + k]) /\ Scan[i] \in ScanStates
    BY <1>3, <2>1, ScanIs
  <2>3. Output!Scanned(Scan[i]) = Scan[i]
    BY <2>2, ScannedIs
  <2>. QED
    BY <2>1, <2>2, <2>3
<1>4. \A k \in 0 .. n : k \in T
  <2>. HIDE DEF T, n
  <2>. QED
    BY <1>1, <1>2, <1>3, UpTo
<1>5. n \in T
  <2>. HIDE DEF T, n
  <2>. QED
    BY <1>1, <1>4
<1>. QED
  BY <1>1, <1>5

-----------------------------------------------------------------------------
(* OutputSanitizer: the merge                                                  *)

(* A pattern is in the text behind an offset.                                  *)
Occurs(s, p, o) == o + Len(p) <= Len(s) /\ Ends(p, Len(p), s, o + Len(p))

(* A search stands at an occurrence or is through ...                          *)
Stands(s, p, x) ==
    \/ x = Output!Exhausted
    \/ \E e \in Len(p) .. Len(s) :
         Ends(p, Len(p), s, e) /\ x = [at |-> e - Len(p), offset |-> e + 1, matched |-> Len(p)]

(* ... and has not gone past one that begins at an offset or later.            *)
MissesNone(s, p, x, from) ==
    \A o \in from .. Len(s) : Occurs(s, p, o) => x # Output!Exhausted /\ x.at <= o

(* The stream holds what some round of the scan has made.                      *)
Keeps(j) ==
    Scan[j].offset = sourceIndex /\ Scan[j].count = count /\ Holds(Output!Stream, Scan[j].bytes)

Merging ==
    /\ occurrences = [i \in DOMAIN patterns |-> occurrences[i]]
    /\ \A i \in DOMAIN patterns :
         /\ Stands(value, patterns[i], occurrences[i])
         /\ MissesNone(value, patterns[i], occurrences[i], sourceIndex)
    /\ \E j \in 0 .. Len(value) : Keeps(j)

MergeInv ==
    /\ OutputTyped /\ pc \in {"merging", "done"}
    /\ pc = "merging" => Merging
    /\ Output!RedactionsAgree

LEMMA StandsIs ==
    ASSUME NEW p, Len(p) \in Nat \ {0}, NEW s, Len(s) \in Nat, NEW x, Stands(s, p, x), x # Output!Exhausted
    PROVE  /\ x.at \in Nat /\ x.offset = x.at + Len(p) + 1 /\ x.matched = Len(p)
           /\ x.at + Len(p) <= Len(s) /\ Occurs(s, p, x.at)
<1>1. PICK e \in Len(p) .. Len(s) :
        Ends(p, Len(p), s, e) /\ x = [at |-> e - Len(p), offset |-> e + 1, matched |-> Len(p)]
  BY DEF Stands
<1>2. x.at = e - Len(p) /\ x.offset = e + 1 /\ x.matched = Len(p)
  BY <1>1
<1>3. x.at \in Nat /\ x.at + Len(p) = e
  BY <1>2
<1>. QED
  BY <1>1, <1>2, <1>3 DEF Occurs

LEMMA SearchStands ==
    ASSUME NEW p, Len(p) \in Nat \ {0}, NEW s, Len(s) \in Nat, NEW from \in 1 .. Len(s) + 1,
           NEW match, Longest(p, s, from - 1, Len(p), match)
    PROVE  /\ Stands(s, p, Output!NextOccurrence(s, p, from, match))
           /\ \A start \in Nat :
                start + Len(p) >= from => MissesNone(s, p, Output!NextOccurrence(s, p, from, match), start)
<1>. DEFINE n == Len(p)
            l == Len(s)
            x == Output!NextOccurrence(s, p, from, match)
<1>0. n \in Nat \ {0} /\ l \in Nat /\ from \in 1 .. l + 1
  OBVIOUS
<1>1. Found(s, p, from, x)
  BY NextIsFound
<1>. HIDE DEF x
<1>2. CASE x = Output!Exhausted /\ \A o \in from .. l : ~Ends(p, n, s, o)
  <2>1. ASSUME NEW start \in Nat, start + n >= from, NEW o \in start .. l, Occurs(s, p, o) PROVE FALSE
    <3>1. o + n \in from .. l /\ Ends(p, n, s, o + n)
      BY <1>0, <2>1 DEF Occurs
    <3>. QED
      BY <1>2, <3>1
  <2>2. \A start \in Nat : start + n >= from => MissesNone(s, p, x, start)
    BY <2>1 DEF MissesNone
  <2>3. Stands(s, p, x)
    BY <1>2 DEF Stands
  <2>. QED
    BY <2>2, <2>3 DEF x
<1>3. ASSUME NEW e \in from .. l, Ends(p, n, s, e), \A o \in from .. e - 1 : ~Ends(p, n, s, o),
             x = [at |-> e - n, offset |-> e + 1, matched |-> n]
      PROVE  Stands(s, p, x) /\ \A start \in Nat : start + n >= from => MissesNone(s, p, x, start)
  <2>1. e \in n .. l /\ x.at = e - n /\ x.offset = e + 1
    BY <1>0, <1>3 DEF Ends
  <2>2. x # Output!Exhausted
    <3>1. Output!Exhausted.offset = 0
      BY DEF Output!Exhausted
    <3>. QED
      BY <1>0, <2>1, <3>1
  <2>3. ASSUME NEW start \in Nat, start + n >= from, NEW o \in start .. l, Occurs(s, p, o) PROVE x.at <= o
    <3>1. o + n \in from .. l /\ Ends(p, n, s, o + n)
      BY <1>0, <2>3 DEF Occurs
    <3>2. ~(o + n \in from .. e - 1)
      BY <1>3, <3>1
    <3>. QED
      BY <1>0, <2>1, <3>1, <3>2
  <2>4. Stands(s, p, x)
    BY <1>3, <2>1 DEF Stands
  <2>. QED
    BY <2>2, <2>3, <2>4 DEF MissesNone
<1>. QED
  BY <1>1, <1>2, <1>3 DEF Found, x

LEMMA SelectedAre ==
    ASSUME OutputTyped, NEW o \in Nat
    PROVE  \A i : i \in Output!Selected(o) <=> i \in DOMAIN patterns /\ Occurs(value, patterns[i], o)
BY SelectedIs DEF Occurs

LEMMA BoundedIs ==
    ASSUME NEW S, NEW n \in Nat, NEW s \in Output!BoundedSeq(S, n)
    PROVE  s \in Seq(S)
BY DEF Output!BoundedSeq, Output!SeqOf

LEMMA MergeStarts ==
    ASSUME Output!Init PROVE MergeInv
<1>1. /\ value \in Output!BoundedSeq(Output!Characters, MaxText) /\ patterns \in Output!Compilations
      /\ occurrences = [i \in DOMAIN patterns |-> Output!NextOccurrence(value, patterns[i], 1, 0)]
      /\ sourceIndex = 0 /\ count = 0 /\ buffer = <<>> /\ byteLength = 0 /\ retained = {<<>>} /\ pc = "merging"
  BY DEF Output!Init
<1>2. OutputTyped
  <2>1. value \in Seq(Output!Characters)
    BY <1>1, BoundedIs, OutputConstants
  <2>2. patterns \in Seq(Output!Credentials)
    <3>1. patterns \in Output!BoundedSeq(Output!Credentials, MaxPatterns)
      BY <1>1 DEF Output!Compilations
    <3>. QED
      BY <3>1, BoundedIs, OutputConstants
  <2>3. \A c \in Output!Credentials : c \in Seq(Output!Characters) \ {<<>>}
    BY BoundedIs, OutputConstants DEF Output!Credentials
  <2>4. patterns \in Seq(Seq(Output!Characters) \ {<<>>})
    <3>. DEFINE S == Seq(Output!Characters) \ {<<>>}
    <3>1. \A i \in 1 .. Len(patterns) : patterns[i] \in S
      BY <2>2, <2>3
    <3>. HIDE DEF S
    <3>2. patterns \in [1 .. Len(patterns) -> S] /\ Len(patterns) \in Nat
      BY <2>2, <3>1
    <3>3. patterns \in Seq(S)
      BY <3>2
    <3>. QED
      BY <3>3 DEF S
  <2>. QED
    BY <2>1, <2>4 DEF OutputTyped
<1>3. ASSUME NEW i \in DOMAIN patterns
      PROVE  /\ Stands(value, patterns[i], occurrences[i])
             /\ MissesNone(value, patterns[i], occurrences[i], sourceIndex)
  <2>. DEFINE p == patterns[i]
              s == value
  <2>1. Len(p) \in Nat \ {0} /\ Len(s) \in Nat
    BY <1>2, PatternIs DEF OutputTyped
  <2>2. occurrences[i] = Output!NextOccurrence(s, p, 1, 0)
    BY <1>1
  <2>. HIDE DEF p, s
  <2>3. Longest(p, s, 0, Len(p), 0)
    <3>1. \A k \in 0 .. Len(p) : Ends(p, k, s, 0) => k <= 0
      BY <2>1 DEF Ends
    <3>2. Ends(p, 0, s, 0)
      BY ShortEnds
    <3>. QED
      BY <2>1, <3>1, <3>2 DEF Longest
  <2>4. 1 \in 1 .. Len(s) + 1 /\ 1 - 1 = 0 /\ 0 + Len(p) >= 1 /\ 0 \in Nat
    BY <2>1
  <2>5. /\ Stands(s, p, Output!NextOccurrence(s, p, 1, 0))
        /\ MissesNone(s, p, Output!NextOccurrence(s, p, 1, 0), 0)
    BY <2>1, <2>3, <2>4, SearchStands
  <2>. QED
    BY <1>1, <2>2, <2>5 DEF p, s
<1>4. Keeps(0) /\ 0 \in 0 .. Len(value)
  <2>1. Scan[0] = [offset |-> 0, bytes |-> <<>>, count |-> 0]
    BY <1>2, ScanIs
  <2>2. Output!Stream = Held(<<>>, <<>>)
    BY <1>1, OutputConstants DEF Output!Stream, Held
  <2>3. <<>> \in Seq(Bytes) /\ <<>> \o <<>> = <<>>
    BY ConcatEmptySeq
  <2>4. Holds(Output!Stream, <<>>)
    BY <2>2, <2>3, Zenon DEF Holds
  <2>5. Scan[0].offset = 0 /\ Scan[0].count = 0 /\ Scan[0].bytes = <<>>
    BY <2>1
  <2>6. Len(value) \in Nat
    BY <1>2 DEF OutputTyped
  <2>. QED
    BY <1>1, <2>4, <2>5, <2>6 DEF Keeps
<1>5. occurrences = [i \in DOMAIN patterns |-> occurrences[i]]
  BY <1>1
<1>6. Output!RedactionsAgree
  BY <1>1 DEF Output!RedactionsAgree
<1>. QED
  BY <1>1, <1>2, <1>3, <1>4, <1>5, <1>6 DEF MergeInv, Merging

(* What is copied and replaced is what the scan copies and replaces.           *)
LEMMA Copying ==
    ASSUME OutputTyped, NEW j \in 0 .. Len(value), NEW s, Holds(s, Scan[j].bytes),
           NEW at \in Scan[j].offset .. Len(value),
           \A o \in Scan[j].offset .. at - 1 : Output!Selected(o) = {}
    PROVE  \E k \in 0 .. Len(value) :
             /\ Scan[k].offset = at /\ Scan[k].count = Scan[j].count /\ Scan[k].bytes \in Seq(Bytes)
             /\ Holds(Output!Emit(s, Output!Span(Scan[j].offset, at)), Scan[k].bytes)
<1>. DEFINE o == Scan[j].offset
            all == Scan[j].bytes
            span == Output!Span(o, at)
<1>1. PICK k \in 0 .. Len(value) : Scan[k] = [offset |-> at, count |-> Scan[j].count, bytes |-> all \o span]
  BY ScanRuns
<1>2. span \in Seq(Bytes)
  BY ScanRuns
<1>3. all \in Seq(Bytes)
  <2>1. Scan[j] \in ScanStates
    BY ScanIs
  <2>. QED
    BY <2>1 DEF ScanStates
<1>4. Holds(s, all)
  OBVIOUS
<1>. HIDE DEF span, all
<1>5. Holds(Output!Emit(s, span), all \o span) /\ all \o span \in Seq(Bytes)
  BY <1>2, <1>3, <1>4, EmitHolds
<1>6. Scan[k].offset = at /\ Scan[k].count = Scan[j].count /\ Scan[k].bytes = all \o span
  BY <1>1
<1>7. /\ Scan[k].offset = at /\ Scan[k].count = Scan[j].count /\ Scan[k].bytes \in Seq(Bytes)
      /\ Holds(Output!Emit(s, span), Scan[k].bytes)
  BY <1>5, <1>6, Zenon
<1>. QED
  BY <1>7, Zenon DEF span

LEMMA Replacing ==
    ASSUME OutputTyped, NEW j \in 0 .. Len(value), NEW s, Holds(s, Scan[j].bytes),
           NEW i \in Output!Selected(Scan[j].offset), \A k \in Output!Selected(Scan[j].offset) : i <= k
    PROVE  \E k \in 0 .. Len(value) :
             /\ Scan[k].offset = Scan[j].offset + Len(patterns[i]) /\ Scan[k].count = Scan[j].count + 1
             /\ Holds(Output!Emit(s, Output!Marker), Scan[k].bytes)
<1>. DEFINE all == Scan[j].bytes
            new == all \o Output!Marker
<1>1. PICK k \in 0 .. Len(value) : Scan[k] = [offset |-> Scan[j].offset + Len(patterns[i]),
                                              count |-> Scan[j].count + 1, bytes |-> new]
  BY ScanReplaces
<1>2. all \in Seq(Bytes)
  <2>1. Scan[j] \in ScanStates
    BY ScanIs
  <2>. QED
    BY <2>1 DEF ScanStates
<1>3. Holds(s, all)
  OBVIOUS
<1>. HIDE DEF all
<1>4. Holds(Output!Emit(s, Output!Marker), new)
  BY <1>2, <1>3, BytesAre, EmitHolds
<1>. HIDE DEF new
<1>5. /\ Scan[k].offset = Scan[j].offset + Len(patterns[i]) /\ Scan[k].count = Scan[j].count + 1
      /\ Scan[k].bytes = new
  BY <1>1
<1>. QED
  BY <1>4, <1>5

LEMMA ScannedStays ==
    ASSUME value' = value, patterns' = patterns
    PROVE  \A s : (Output!Scanned(s))' = Output!Scanned(s)
BY DEF Output!Scanned, Output!Selected, Output!Matches

ReplacedLast == Output!Replaced = Scan[Len(value)]

LEMMA ReplacedIs == ReplacedLast
BY Zenon DEF Scan, Output!Replaced, ReplacedLast

LEMMA ReplacedIsNext == ReplacedLast'
BY ReplacedIs, PTL

LEMMA ScanStays ==
    ASSUME value' = value, patterns' = patterns
    PROVE  Scan' = Scan /\ (Output!Replaced)' = Output!Replaced
<1>1. Scan' = Scan
  BY ScannedStays DEF Scan
<1>2. (Output!Replaced)' = Output!Replaced
  BY <1>1, ReplacedIs, ReplacedIsNext DEF ReplacedLast
<1>. QED
  BY <1>1, <1>2

(* Up to the least occurrence nothing is selected.                             *)
LEMMA NoneBefore ==
    ASSUME OutputTyped, Merging, sourceIndex \in 0 .. Len(value), NEW at \in sourceIndex .. Len(value),
           \A j \in Output!Pending : at <= occurrences[j].at
    PROVE  \A o \in sourceIndex .. at - 1 : Output!Selected(o) = {}
<1>. SUFFICES ASSUME NEW o \in sourceIndex .. at - 1, NEW j \in Output!Selected(o) PROVE FALSE
  OBVIOUS
<1>0. Len(value) \in Nat
  BY DEF OutputTyped
<1>1. o \in Nat /\ o \in sourceIndex .. Len(value) /\ ~(at <= o)
  BY <1>0
<1>2. j \in DOMAIN patterns /\ Occurs(value, patterns[j], o)
  BY <1>1, SelectedAre
<1>3. occurrences[j] # Output!Exhausted /\ occurrences[j].at <= o
  BY <1>1, <1>2 DEF Merging, MissesNone
<1>4. at <= occurrences[j].at
  BY <1>2, <1>3 DEF Output!Pending
<1>5. occurrences[j].at \in Nat
  BY <1>0, <1>2, <1>3, PatternIs, StandsIs DEF Merging
<1>. QED
  BY <1>0, <1>1, <1>3, <1>4, <1>5

LEMMA MergePops ==
    ASSUME MergeInv, NEW i, Output!Pop(i) PROVE MergeInv'
<1>. DEFINE x == occurrences[i]
            at == x.at
            n == Len(patterns[i])
            next == Output!Advanced(i)
            copied == Output!Emit(Output!Stream, Output!Span(sourceIndex, at))
<1>1. /\ pc = "merging" /\ i \in DOMAIN patterns /\ x # Output!Exhausted
      /\ \A j \in Output!Pending : Output!Precedes(i, j)
      /\ value' = value /\ patterns' = patterns /\ pc' = pc
      /\ occurrences' = [occurrences EXCEPT ![i] = next]
  BY DEF Output!Pop, Output!Pending
<1>2. IF at >= sourceIndex
         THEN /\ Output!Streamed(Output!Emit(copied, Output!Marker))
              /\ count' = count + 1 /\ sourceIndex' = at + n
         ELSE UNCHANGED <<buffer, byteLength, retained, count, sourceIndex>>
  BY Zenon DEF Output!Pop
<1>3. OutputTyped /\ Merging /\ Len(value) \in Nat /\ n \in Nat \ {0} /\ i \in Nat
  BY <1>1, PatternIs DEF MergeInv, OutputTyped
<1>4. /\ at \in Nat /\ x.offset = at + n + 1 /\ x.matched = n /\ at + n <= Len(value)
      /\ Occurs(value, patterns[i], at)
  BY <1>1, <1>3, StandsIs DEF Merging
<1>5. /\ Stands(value, patterns[i], next)
      /\ \A start \in Nat : start > at => MissesNone(value, patterns[i], next, start)
  <2>. DEFINE p == patterns[i]
  <2>1. next = Output!NextOccurrence(value, p, x.offset, x.matched)
    BY DEF Output!Advanced
  <2>2. Longest(p, value, at + n, n, n)
    BY <1>3, <1>4 DEF Longest, Occurs
  <2>3. x.offset \in 1 .. Len(value) + 1 /\ x.offset - 1 = at + n
    BY <1>3, <1>4
  <2>4. \A start \in Nat : start > at => start + n >= x.offset
    BY <1>3, <1>4
  <2>. HIDE DEF next, x, at
  <2>5. Longest(p, value, x.offset - 1, n, x.matched)
    BY <1>4, <2>2, <2>3
  <2>6. n = Len(p)
    OBVIOUS
  <2>. HIDE DEF n, p
  <2>7. /\ Stands(value, p, next)
        /\ \A start \in Nat : start + Len(p) >= x.offset => MissesNone(value, p, next, start)
    BY <1>3, <2>1, <2>3, <2>5, <2>6, SearchStands
  <2>. QED
    BY <2>4, <2>6, <2>7 DEF p
<1>6. PICK j \in 0 .. Len(value) : Keeps(j)
  BY <1>3 DEF Merging
<1>7. Scan[j].offset = sourceIndex /\ Scan[j].count = count /\ Holds(Output!Stream, Scan[j].bytes)
  BY <1>6 DEF Keeps
<1>8. sourceIndex \in 0 .. Len(value)
  <2>1. Scan[j] \in ScanStates
    BY <1>3, ScanIs
  <2>. QED
    BY <1>7, <2>1 DEF ScanStates
<1>9. Scan' = Scan /\ (Output!Replaced)' = Output!Replaced
  BY <1>1, ScanStays
<1>10. /\ sourceIndex' \in 0 .. Len(value) /\ sourceIndex' >= sourceIndex /\ sourceIndex' > at
       /\ \E k \in 0 .. Len(value) : Keeps(k)'
  <2>1. CASE at >= sourceIndex
    <3>1. \A k \in Output!Pending : at <= occurrences[k].at
      <4>. SUFFICES ASSUME NEW k \in Output!Pending PROVE at <= occurrences[k].at
        OBVIOUS
      <4>1. occurrences[k].at \in Nat
        <5>1. k \in DOMAIN patterns /\ occurrences[k] # Output!Exhausted
          BY DEF Output!Pending
        <5>. QED
          BY <1>3, <5>1, PatternIs, StandsIs DEF Merging
      <4>. QED
        BY <1>1, <1>4, <4>1 DEF Output!Precedes
    <3>2. at \in sourceIndex .. Len(value)
      BY <1>3, <1>4, <1>8, <2>1
    <3>. HIDE DEF at, n
    <3>3. \A o \in sourceIndex .. at - 1 : Output!Selected(o) = {}
      BY <1>3, <1>8, <3>1, <3>2, NoneBefore
    <3>4. PICK k \in 0 .. Len(value) :
            Scan[k].offset = at /\ Scan[k].count = count /\ Holds(copied, Scan[k].bytes)
      BY <1>3, <1>7, <3>2, <3>3, Copying
    <3>5. i \in Output!Selected(at) /\ \A m \in Output!Selected(at) : i <= m
      <4>1. i \in Output!Selected(at)
        BY <1>1, <1>3, <1>4, SelectedAre
      <4>2. ASSUME NEW m \in Output!Selected(at) PROVE i <= m
        <5>1. m \in DOMAIN patterns /\ Occurs(value, patterns[m], at)
          BY <1>3, <1>4, <4>2, SelectedAre
        <5>2. occurrences[m] # Output!Exhausted /\ occurrences[m].at <= at
          BY <1>3, <3>2, <5>1 DEF Merging, MissesNone
        <5>3. Output!Precedes(i, m)
          BY <1>1, <5>1, <5>2 DEF Output!Pending
        <5>4. occurrences[m].at \in Nat
          BY <1>3, <5>1, <5>2, PatternIs, StandsIs DEF Merging
        <5>. QED
          BY <1>4, <5>2, <5>3, <5>4 DEF Output!Precedes, at
      <4>. QED
        BY <4>1, <4>2
    <3>. DEFINE marked == Output!Emit(copied, Output!Marker)
    <3>6. PICK m \in 0 .. Len(value) :
            Scan[m].offset = at + n /\ Scan[m].count = count + 1 /\ Holds(marked, Scan[m].bytes)
      <4>. HIDE DEF copied
      <4>1. i \in Output!Selected(Scan[k].offset) /\ \A q \in Output!Selected(Scan[k].offset) : i <= q
        BY <3>4, <3>5
      <4>. QED
        BY <1>3, <3>4, <4>1, Replacing DEF n
    <3>7. Output!Streamed(marked) /\ count' = count + 1 /\ sourceIndex' = at + n
      BY <1>2, <2>1
    <3>. HIDE DEF marked
    <3>8. (Output!Stream)' = marked
      <4>1. PICK kept \in Seq(Bytes) : \E buf \in Seq(Bytes) : marked = Held(kept, buf)
        BY <3>6 DEF Holds
      <4>2. marked = [buffer |-> marked.buffer, length |-> marked.length, retained |-> marked.retained]
        BY <4>1 DEF Held
      <4>. QED
        BY <3>7, <4>2 DEF Output!Stream, Output!Streamed
    <3>9. Keeps(m)'
      BY <1>9, <3>6, <3>7, <3>8 DEF Keeps
    <3>10. sourceIndex' \in 0 .. Len(value) /\ sourceIndex' >= sourceIndex /\ sourceIndex' > at
      BY <1>3, <1>4, <1>8, <2>1, <3>7
    <3>. QED
      BY <3>9, <3>10
  <2>2. CASE ~(at >= sourceIndex)
    <3>1. UNCHANGED <<buffer, byteLength, retained, count, sourceIndex>>
      BY <1>2, <2>2
    <3>2. (Output!Stream)' = Output!Stream
      BY <3>1 DEF Output!Stream
    <3>3. Keeps(j)'
      BY <1>7, <1>9, <3>1, <3>2 DEF Keeps
    <3>. QED
      BY <1>4, <1>6, <1>8, <2>2, <3>1, <3>3
  <2>. QED
    BY <2>1, <2>2
<1>. HIDE DEF next, copied
<1>11. occurrences' = [k \in DOMAIN patterns |-> occurrences'[k]]
  BY <1>1, <1>3 DEF Merging
<1>12. ASSUME NEW k \in DOMAIN patterns
       PROVE  /\ Stands(value, patterns[k], occurrences'[k])
              /\ MissesNone(value, patterns[k], occurrences'[k], sourceIndex')
  <2>1. CASE k = i
    <3>1. occurrences'[k] = next
      BY <1>1, <1>3, <2>1 DEF Merging
    <3>2. sourceIndex' \in Nat /\ sourceIndex' > at
      BY <1>3, <1>10
    <3>. QED
      BY <1>5, <2>1, <3>1, <3>2
  <2>2. CASE k # i
    <3>1. occurrences'[k] = occurrences[k]
      BY <1>1, <1>3, <2>2 DEF Merging
    <3>2. \A o \in sourceIndex' .. Len(value) : o \in sourceIndex .. Len(value)
      BY <1>3, <1>8, <1>10
    <3>. QED
      BY <1>3, <3>1, <3>2 DEF Merging, MissesNone
  <2>. QED
    BY <2>1, <2>2
<1>13. Merging'
  BY <1>1, <1>10, <1>11, <1>12 DEF Merging
<1>14. OutputTyped' /\ pc' = "merging"
  BY <1>1, <1>3 DEF OutputTyped
<1>15. (Output!RedactionsAgree)'
  BY <1>14 DEF Output!RedactionsAgree
<1>. QED
  BY <1>13, <1>14, <1>15 DEF MergeInv

LEMMA MergeFinishes ==
    ASSUME MergeInv, Output!Finish PROVE MergeInv'
<1>. DEFINE l == Len(value)
            emitted == Output!Emit(Output!Stream, Output!Span(sourceIndex, l))
            left == Output!Flushed(emitted)
<1>1. /\ pc = "merging" /\ Output!Pending = {} /\ pc' = "done" /\ value' = value /\ patterns' = patterns
      /\ count' = count /\ Output!Streamed(left)
  BY Zenon DEF Output!Finish
<1>2. OutputTyped /\ Merging /\ l \in Nat
  BY <1>1 DEF MergeInv, OutputTyped
<1>3. PICK j \in 0 .. l : Keeps(j)
  BY <1>2 DEF Merging
<1>4. Scan[j].offset = sourceIndex /\ Scan[j].count = count /\ Holds(Output!Stream, Scan[j].bytes)
  BY <1>3 DEF Keeps
<1>5. sourceIndex \in 0 .. l /\ l \in sourceIndex .. l
  <2>1. Scan[j] \in ScanStates
    BY <1>2, ScanIs
  <2>. QED
    BY <1>2, <1>4, <2>1 DEF ScanStates
<1>6. \A o \in sourceIndex .. l - 1 : Output!Selected(o) = {}
  BY <1>1, <1>2, <1>5, NoneBefore
<1>7. PICK k \in 0 .. l : Scan[k].offset = l /\ Scan[k].count = count /\ Holds(emitted, Scan[k].bytes)
  BY <1>2, <1>4, <1>5, <1>6, Copying
<1>8. Output!Replaced = Scan[k]
  BY <1>2, <1>7, ScanEnds, ScanIs
<1>. DEFINE all == Scan[k].bytes
<1>9. Holds(emitted, all)
  BY <1>7
<1>. HIDE DEF emitted, l
<1>10. left = Held(all, <<>>) /\ all \in Seq(Bytes)
  <2>. HIDE DEF all
  <2>. QED
    BY <1>9, FlushHolds
<1>11. left.length = Len(all) /\ left.retained = IF Len(all) <= Limit THEN {all} ELSE {}
  <2>. HIDE DEF left, all
  <2>. QED
    BY <1>10 DEF Held
<1>. HIDE DEF left
<1>12. byteLength' = Len(all) /\ retained' = IF Len(all) <= Limit THEN {all} ELSE {}
  BY <1>1, <1>11 DEF Output!Streamed
<1>13. (Output!Replaced)' = Scan[k] /\ count' = Scan[k].count
  BY <1>1, <1>7, <1>8, ScanStays
<1>14. (Output!RedactionsAgree)'
  BY <1>12, <1>13 DEF Output!RedactionsAgree
<1>15. OutputTyped'
  BY <1>1, <1>2 DEF OutputTyped
<1>. QED
  BY <1>1, <1>14, <1>15 DEF MergeInv

LEMMA MergeRests ==
    ASSUME MergeInv,
           UNCHANGED <<value, patterns, occurrences, sourceIndex, count, buffer, byteLength, retained, pc>>
    PROVE  MergeInv'
<1>1. Scan' = Scan /\ (Output!Replaced)' = Output!Replaced
  BY ScanStays
<1>2. OutputTyped' /\ (Output!RedactionsAgree)'
  BY <1>1 DEF MergeInv, OutputTyped, Output!RedactionsAgree
<1>3. \A j : Keeps(j) => Keeps(j)'
  <2>1. (Output!Stream)' = Output!Stream
    BY DEF Output!Stream
  <2>. QED
    BY <1>1, <2>1 DEF Keeps
<1>4. Merging => Merging'
  BY <1>3 DEF Merging
<1>. QED
  BY <1>2, <1>4 DEF MergeInv

RedactionInv == part = "output" => MergeInv

(* Whatever the credentials, however they overlap and wherever a batch ends,   *)
(* the stream that was merged from the searches is what the scan for           *)
(* diagnostics makes of the same text, and is retained whole exactly if it     *)
(* fits.                                                                       *)
THEOREM StreamedAsScanned == MCSpec => []RedactionsAgree
<1>1. MCInit => RedactionInv
  BY MergeStarts DEF MCInit, RedactionInv
<1>2. RedactionInv /\ [MCNext]_<<part, pc, closure, runtime, planning, output>> => RedactionInv'
  <2>. SUFFICES ASSUME part' = "output", MergeInv \/ part # "output",
                       [MCNext]_<<part, pc, closure, runtime, planning, output>>
                PROVE  MergeInv'
    BY DEF RedactionInv
  <2>1. part = "output" /\ MergeInv
    BY DEF MCNext
  <2>2. \/ Output!Next
        \/ UNCHANGED <<value, patterns, occurrences, sourceIndex, count, buffer, byteLength, retained, pc>>
    BY <2>1 DEF MCNext, output
  <2>. QED
    BY <2>1, <2>2, MergePops, MergeFinishes, MergeRests DEF Output!Next
<1>3. RedactionInv => RedactionsAgree
  BY DEF RedactionInv, MergeInv, RedactionsAgree
<1>. QED
  BY <1>1, <1>2, <1>3, PTL DEF MCSpec
=============================================================================
