---- MODULE RetryRequest ----
(* HTTP requests and their retries: RoundTripperRetryer (internal/rtretry),
   which repeats requests that may be repeated, makeRequest and statusError
   (coordinator/client.go), which classify what came of one, and
   connectWithRetries (client.go), which repeats the join until its context is
   over. A reply may be lost after the server has acted on the request. *)
EXTENDS Naturals

CONSTANTS MaxAttempts,   \* maxRetries
          MaxSends       \* bound on the requests of one behaviour

ASSUME RetryAssumption == MaxAttempts \in Nat \ {0} /\ MaxSends \in Nat

(* What an attempt comes back with: a usable reply, a 2xx whose body cannot be
   decoded, a refusal, 429/503 (the server asks to wait), 500/504/508, another
   5xx, a network error, or an error that no repetition can cure. *)
Outcome == {"ok", "undecodable", "refused", "wait", "failed", "other5xx", "network", "permanent"}

VARIABLES marked,     \* idempotent method, or marked as retryable
          body,       \* "none", "replayable" (GetBody is set) or "once"
          unread,     \* the body has not been read since it was last rewound
          ctxDone,
          request,    \* where the request is
          attempt,
          outcome,    \* of the last attempt
          replied,    \* a 2xx reply has come back to the client
          sends,
          blankSent   \* an attempt sent an empty body in place of its own

retryVars == <<marked, body, unread, ctxDone, request, attempt, outcome, replied, sends, blankSent>>

RetryTypeOK ==
    /\ marked \in BOOLEAN /\ body \in {"none", "replayable", "once"}
    /\ unread \in BOOLEAN /\ ctxDone \in BOOLEAN
    /\ request \in {"loop", "attempt", "decide", "rewind", "wait", "return", "classify",
                    "sleep", "done", "error"}
    /\ attempt \in 0 .. MaxAttempts
    /\ outcome \in Outcome \cup {"none", "cancelled", "maxAttempts"}
    /\ replied \in BOOLEAN /\ sends \in 0 .. MaxSends /\ blankSent \in BOOLEAN

RetryInit ==
    /\ marked \in BOOLEAN /\ body \in {"none", "replayable", "once"}
    /\ unread = TRUE /\ ctxDone = FALSE /\ request = "loop" /\ attempt = 0
    /\ outcome = "none" /\ replied = FALSE /\ sends = 0 /\ blankSent = FALSE

CtxOver ==
    /\ ~ctxDone /\ ctxDone' = TRUE
    /\ UNCHANGED <<marked, body, unread, request, attempt, outcome, replied, sends, blankSent>>

goes(to) == request' = to /\ UNCHANGED <<marked, body, ctxDone, replied, sends, blankSent>>

(* connectWithRetries: the context first, then a request built anew *)
connectWithRetries ==
    /\ request = "loop"
    /\ IF ctxDone THEN goes("error") /\ UNCHANGED <<unread, attempt, outcome>>
       ELSE goes("attempt") /\ unread' = TRUE /\ attempt' = 0 /\ outcome' = "none"

(* Mutant: any body is taken to be replayable *)
canReplayAny == body \in {"none", "replayable", "once"}

canReplayBody == body \in {"none", "replayable"}
retryable == marked /\ canReplayBody

(* The transport sends the request, and reads its body. *)
Attempt(o) ==
    /\ request = "attempt" /\ sends < MaxSends
    /\ o = "cancelled" => ctxDone
    /\ request' = "decide" /\ outcome' = o
    /\ sends' = sends + 1
    /\ blankSent' = (blankSent \/ (body # "none" /\ ~unread))
    /\ unread' = (body = "none")
    /\ replied' = (replied \/ o \in {"ok", "undecodable"})
    /\ UNCHANGED <<marked, body, ctxDone, attempt>>

(* isErrRetryable and the status codes that are worth another attempt *)
isErrRetryable(o) == o \in {"network", "cancelled"}
isStatusCodeRetryable(o) == o \in {"wait", "failed"}

shouldRetry == retryable /\ (isErrRetryable(outcome) \/ isStatusCodeRetryable(outcome))

RoundTripDecides ==
    /\ request = "decide"
    /\ IF ~shouldRetry THEN goes("return") /\ outcome' = outcome
       ELSE IF ctxDone THEN goes("return") /\ outcome' = "cancelled"
       ELSE goes("rewind") /\ outcome' = outcome
    /\ UNCHANGED <<unread, attempt>>

(* Without GetBody there is nothing to rewind with, and no error. *)
rewindBody ==
    /\ request = "rewind"
    /\ goes("wait") /\ unread' = (unread \/ body = "replayable")
    /\ UNCHANGED <<attempt, outcome>>

RoundTripWaits ==
    /\ request = "wait"
    /\ \/ ctxDone /\ goes("return") /\ outcome' = "cancelled" /\ attempt' = attempt
       \/ /\ attempt' = attempt + 1
          /\ IF attempt + 1 < MaxAttempts
             THEN goes("attempt") /\ outcome' = outcome
             ELSE goes("return") /\ outcome' = "maxAttempts"
    /\ UNCHANGED unread

(* makeRequest: a reply that cannot be decoded is an error like a refusal *)
makeRequest ==
    /\ request = "return"
    /\ goes(IF outcome = "ok" THEN "done" ELSE "classify")
    /\ UNCHANGED <<unread, attempt, outcome>>

(* statusError and IsRetryableError: the server's fault, or not classified *)
IsRetryableError ==
    outcome \in {"wait", "failed", "other5xx", "network", "cancelled", "permanent", "maxAttempts"}

connectClassifies ==
    /\ request = "classify"
    /\ goes(IF IsRetryableError THEN "sleep" ELSE "error")
    /\ UNCHANGED <<unread, attempt, outcome>>

(* The backoff is slept through, context or not. *)
connectSleeps ==
    /\ request = "sleep" /\ goes("loop")
    /\ UNCHANGED <<unread, attempt, outcome>>

RetryStep ==
    \/ connectWithRetries \/ RoundTripDecides \/ rewindBody \/ RoundTripWaits
    \/ makeRequest \/ connectClassifies \/ connectSleeps
    \/ \E o \in Outcome \cup {"cancelled"} : Attempt(o)

RetryNext == CtxOver \/ RetryStep

RetrySpec == RetryInit /\ [][RetryNext]_retryVars

-----------------------------------------------------------------------------
(* However a request is repeated, each attempt sends the whole body: a body that
   cannot be read twice is sent once, another is rewound in time. *)
WholeBodySent == ~blankSent

(* Once a 2xx reply has come back, the join is not sent again, usable or not. *)
JoinNotRepeated == [][sends' > sends => ~replied]_retryVars

(* A request is repeated whole, or not at all. *)
RetrySafe == [](RetryTypeOK /\ WholeBodySent) /\ JoinNotRepeated
====
