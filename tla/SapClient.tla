----------------------------- MODULE SapClient ------------------------------
(***************************************************************************)
(* The SAP client (internal/infrastructure/sap/http_client.go): calls that *)
(* share an idempotency key while one is in flight share its request, its  *)
(* answers are classified, and the worker turns a failure into a delay     *)
(* (retryDelay in internal/sync/worker.go).                                *)
(*                                                                         *)
(* SyncJobs knows what a call may return; here is how it comes about, for  *)
(* any number of goroutines that use one client.  A step is a section      *)
(* under inflightMu, the end of a wait, or the end of the HTTP exchange.   *)
(* Durations are int64 numbers of nanoseconds: MaxInt and Second keep the  *)
(* place where they overflow at a scale that can be checked.               *)
(***************************************************************************)
EXTENDS Integers, FiniteSets

CONSTANTS
  Callers,      \* goroutines that call SyncOrder
  Keys,         \* idempotency keys, the empty one included
  EmptyKey,
  Bodies,       \* encoded orders
  CallIds,      \* syncOrderCall objects; one is reused once nobody refers to it
  Headers,      \* Retry-After headers SAP may send
  Attempts,     \* delivery attempts a failed call may be
  Second,       \* time.Second
  MaxDelay,     \* maxRetryDelay
  MaxInt,       \* the largest duration
  Null

ASSUME CallersAssumption ==
  /\ IsFiniteSet(Callers) /\ IsFiniteSet(CallIds)
  /\ Cardinality(CallIds) >= Cardinality(Callers)
  /\ EmptyKey \in Keys

ASSUME DurationsAssumption ==
  /\ Second \in Nat \ {0}
  /\ MaxDelay \in Nat
  /\ MaxInt \in Nat
  /\ Second <= MaxDelay /\ 2 * MaxDelay <= MaxInt
  /\ Attempts \subseteq Nat \ {0}

\* A number of seconds, a date relative to now, or text that is neither.
ASSUME HeadersAssumption ==
  Headers \subseteq [kind : {"seconds", "date", "garbled"}, value : Int]

VARIABLES
  inflight,  \* HTTPClient.inflight
  calls,     \* the syncOrderCall objects
  callers    \* what each caller is doing

vars == <<inflight, calls, callers>>

-----------------------------------------------------------------------------
(* Durations.  A definition whose name starts with Faulty is its successor *)
(* with a bug somebody could write; nothing uses it.                       *)

\* What a product of durations leaves of n.
Wrapped(n) == ((n + MaxInt + 1) % (2 * (MaxInt + 1))) - (MaxInt + 1)

AtMost(n, limit) == IF n > limit THEN limit ELSE n

\* parseRetryAfter; date.Sub saturates.
ParseRetryAfter(header) ==
  CASE header.kind = "seconds" /\ header.value \in 0..(MaxInt \div Second) ->
         Wrapped(header.value * Second)
    [] header.kind = "date" /\ header.value >= 0 -> AtMost(header.value, MaxInt)
    [] OTHER -> Null

\* RetryDelayMS
RetryDelayMS[n \in Nat] ==
  IF n <= 1 THEN Second ELSE AtMost(2 * RetryDelayMS[n - 1], MaxDelay)

\* Retry-After is not looked at.
FaultyRetryDelaysOwn(after, attempt) == 0..AtMost(RetryDelayMS[attempt], MaxDelay)

\* The delays retryDelay may return: Retry-After if there is one, else any
\* jitter up to the backoff; both capped.
RetryDelays(after, attempt) ==
  {AtMost(delay, MaxDelay) :
     delay \in IF after # Null /\ after >= 0 THEN {after} ELSE 0..RetryDelayMS[attempt]}

-----------------------------------------------------------------------------
(* What a call returns.                                                    *)

\* Causes of a failed exchange: a failed transport by its kind of error, an
\* HTTP status, or a 2xx response that does not report success.
TransportErrors == {"canceled", "deadline", "unexpectedEOF", "op", "dns", "timeout", "other"}
StatusCodes == {400, 404, 429, 500, 501, 502, 503, 504}
BadResponses == {"garbled", "notSuccess", "noId"}

RetryableTransportError(error) ==
  error \in {"deadline", "unexpectedEOF", "op", "dns", "timeout"}

RetryableStatus(code) == code \in {429, 500, 502, 503, 504}

NoAnswer == [order |-> Null, retryable |-> FALSE, header |-> Null, after |-> Null]

Success(key, body) == [NoAnswer EXCEPT !.order = <<key, body>>]

\* wrapError, wrapErrorWithRetryAfter
Failure(retryable) == [NoAnswer EXCEPT !.retryable = retryable]

\* The number of seconds is multiplied as it comes.
FaultyThrottledUnchecked(header) ==
  [order |-> Null, retryable |-> TRUE, header |-> header,
   after |-> Wrapped(header.value * Second)]

Throttled(header) ==
  [order |-> Null, retryable |-> RetryableStatus(429), header |-> header,
   after |-> ParseRetryAfter(header)]

\* postOrder and parseResponse: a response cannot be read for the reasons a
\* request cannot be sent; a cancellation needs a cancelled context.
PostOrder(c) ==
  {Success(callers[c].key, callers[c].body)}
  \cup {Failure(RetryableTransportError(error)) : error \in
          {e \in TransportErrors : e = "canceled" => callers[c].cancelled}}
  \cup {Failure(RetryableStatus(code)) : code \in StatusCodes}
  \cup {Throttled(header) : header \in Headers}
  \cup {Failure(FALSE) : response \in BadResponses}

\* A follower's parent.Err() has no Retryable method: isRetryable says true.
BareError == Failure(TRUE)

Answers ==
  [order : (Keys \X Bodies) \cup {Null}, retryable : BOOLEAN,
   header : Headers \cup {Null}, after : 0..MaxInt \cup {Null}]

\* What a syncOrderCall object holds.
CallObjects == [body : Bodies, done : BOOLEAN, answer : Answers]

\* nil is no object, no header and no duration.
ASSUME NullAssumption ==
  Null \notin CallIds /\ Null \notin CallObjects /\ Null \notin Headers /\ Null \notin Int

NewCall(body) == [body |-> body, done |-> FALSE, answer |-> NoAnswer]

CallerStates ==
  [pc : {"idle", "posting", "waiting", "returned"}, key : Keys \cup {Null},
   body : Bodies \cup {Null}, cancelled : BOOLEAN, call : CallIds \cup {Null},
   answer : Answers]

Idle ==
  [pc |-> "idle", key |-> Null, body |-> Null, cancelled |-> FALSE, call |-> Null,
   answer |-> NoAnswer]

-----------------------------------------------------------------------------
Init ==
  /\ inflight = [k \in Keys |-> Null]
  /\ calls = [id \in CallIds |-> Null]
  /\ callers = [c \in Callers |-> Idle]

\* No caller but c refers to the object.
Unused(id, c) == \A d \in Callers \ {c} : callers[d].call # id

Enters(c, key, body, pc, id) ==
  callers' = [callers EXCEPT ![c] =
    [Idle EXCEPT !.pc = pc, !.key = key, !.body = body, !.call = id]]

\* SyncOrder returns.
Returns(c, key, body, answer) ==
  callers' = [callers EXCEPT ![c] =
    [Idle EXCEPT !.pc = "returned", !.key = key, !.body = body, !.answer = answer]]

\* What is left of the objects when c drops its reference.
Collected(c, objects) ==
  IF Unused(callers[c].call, c) THEN [objects EXCEPT ![callers[c].call] = Null] ELSE objects

\* The object as its owner c leaves it.
Closed(c, answer) ==
  [calls EXCEPT ![callers[c].call].answer = answer, ![callers[c].call].done = TRUE]

\* The bodies are not compared.
FaultyJoinsAny(id, body) == TRUE

Joins(id, body) == calls[id].body = body

\* SyncOrder up to startCall: refuse, follow the call in flight, or own one.
SyncOrder(c, key, body) ==
  /\ callers[c].pc = "idle"
  /\ IF key # EmptyKey /\ inflight[key] = Null THEN
       LET id == CHOOSE id \in CallIds : Unused(id, c) IN
       /\ calls' = [calls EXCEPT ![id] = NewCall(body)]
       /\ inflight' = [inflight EXCEPT ![key] = id]
       /\ Enters(c, key, body, "posting", id)
     ELSE
       /\ IF key # EmptyKey /\ Joins(inflight[key], body)
          THEN Enters(c, key, body, "waiting", inflight[key])
          ELSE Returns(c, key, body, Failure(FALSE))
       /\ UNCHANGED <<inflight, calls>>

\* The object goes back to a pool although followers still read it.
FaultyPublishPooled(c, answer) ==
  /\ calls' = [calls EXCEPT ![callers[c].call] = Null]
  /\ inflight' = [inflight EXCEPT ![callers[c].key] = Null]

\* The entry stays in the map.
FaultyPublishKeepsEntry(c, answer) ==
  /\ calls' = Closed(c, answer)
  /\ UNCHANGED inflight

\* The followers are woken only after a success.
FaultyPublishSuccessOnly(c, answer) ==
  /\ calls' = Collected(c, IF answer.order # Null THEN Closed(c, answer) ELSE calls)
  /\ inflight' = [inflight EXCEPT ![callers[c].key] = Null]

\* The deferred function of SyncOrder.
Publish(c, answer) ==
  /\ calls' = Collected(c, Closed(c, answer))
  /\ inflight' = [inflight EXCEPT ![callers[c].key] = Null]

\* The owner's exchange ends, at the latest by its timeout, and its answer is
\* published; a caller that comes in between still joins.
PostEnds(c) ==
  /\ callers[c].pc = "posting"
  /\ \E answer \in PostOrder(c) :
       /\ Publish(c, answer)
       /\ Returns(c, callers[c].key, callers[c].body, answer)

\* The two cases of the follower's select.
FollowerDone(c) ==
  /\ callers[c].pc = "waiting"
  /\ calls[callers[c].call].done
  /\ Returns(c, callers[c].key, callers[c].body, calls[callers[c].call].answer)
  /\ calls' = Collected(c, calls)
  /\ UNCHANGED inflight

\* A follower that gives up takes the entry with it.
FaultyFollowerForgets(c) ==
  /\ callers[c].pc = "waiting"
  /\ callers[c].cancelled
  /\ Returns(c, callers[c].key, callers[c].body, BareError)
  /\ inflight' = [inflight EXCEPT ![callers[c].key] = Null]
  /\ UNCHANGED calls

FollowerCancelled(c) ==
  /\ callers[c].pc = "waiting"
  /\ callers[c].cancelled
  /\ Returns(c, callers[c].key, callers[c].body, BareError)
  /\ calls' = Collected(c, calls)
  /\ UNCHANGED inflight

\* The caller has used its answer and may call again.
Finish(c) ==
  /\ callers[c].pc = "returned"
  /\ callers' = [callers EXCEPT ![c] = Idle]
  /\ UNCHANGED <<inflight, calls>>

\* The caller's context is cancelled, before the call has any effect or while
\* it is in SyncOrder.
Cancel(c) ==
  /\ callers[c].pc \in {"posting", "waiting"}
  /\ ~callers[c].cancelled
  /\ callers' = [callers EXCEPT ![c].cancelled = TRUE]
  /\ UNCHANGED <<inflight, calls>>

Step(c) == PostEnds(c) \/ FollowerDone(c) \/ FollowerCancelled(c) \/ Finish(c)

Next ==
  \E c \in Callers :
    \/ \E key \in Keys, body \in Bodies : SyncOrder(c, key, body)
    \/ Step(c)
    \/ Cancel(c)

\* An exchange ends by its timeout and no goroutine is left behind by the
\* scheduler.
Fairness == \A c \in Callers : WF_vars(Step(c))

Spec == Init /\ [][Next]_vars /\ Fairness

-----------------------------------------------------------------------------
(* Properties.                                                             *)

\* The map, the shared objects and the callers keep their shape, and an
\* object lives as long as a caller refers to it.
TypeOK ==
  /\ inflight \in [Keys -> CallIds \cup {Null}]
  /\ calls \in [CallIds -> CallObjects \cup {Null}]
  /\ callers \in [Callers -> CallerStates]
  /\ \A c \in Callers : callers[c].call # Null => calls[callers[c].call] # Null

\* SAP never has two requests with one idempotency key from this process at
\* the same time, whatever callers join, give up and come back.
OneRequestPerKey ==
  \A c, d \in Callers :
    callers[c].pc = "posting" /\ callers[d].pc = "posting" /\ callers[c].key = callers[d].key
      => c = d

\* An entry of the map is a call that is still open and has exactly one
\* owner, so nobody joins a call that is over and gets an old answer.
EntryHasOwner ==
  \A k \in Keys : inflight[k] # Null =>
    /\ ~calls[inflight[k]].done
    /\ Cardinality({c \in Callers : /\ callers[c].pc = "posting"
                                     /\ callers[c].call = inflight[k]
                                     /\ callers[c].key = k}) = 1

\* A caller that is told success is told so of its own order: the key and
\* the body SAP answered for are the ones it called with, even if another
\* caller sent them.
AnswerIsMine ==
  \A c \in Callers : callers[c].pc = "returned" /\ callers[c].answer.order # Null =>
    callers[c].answer.order = <<callers[c].key, callers[c].body>>

\* What SAP asked for, in unbounded arithmetic.
Asked(header) ==
  IF header = Null \/ header.kind = "garbled" \/ header.value < 0 THEN Null
  ELSE IF header.kind = "seconds" THEN header.value * Second
  ELSE header.value

\* Every delay lies between 0 and the cap.  It is what SAP asked for, up to
\* the cap, if that fits a duration, for the caller that sent the request
\* and for its followers; if it does not fit, it is the cap or a backoff of
\* the attempt, as if SAP had not asked: no overflow becomes a delay.
RetryAfterHonoured ==
  \A c \in Callers : callers[c].pc = "returned" /\ callers[c].answer.retryable =>
    LET asked == Asked(callers[c].answer.header) IN
    \A n \in Attempts : \A delay \in RetryDelays(callers[c].answer.after, n) :
      /\ delay \in 0..MaxDelay
      /\ asked # Null /\ asked <= MaxInt => delay = AtMost(asked, MaxDelay)
      /\ asked = Null => delay <= RetryDelayMS[n]
      /\ asked # Null /\ asked > MaxInt => delay = MaxDelay \/ delay <= RetryDelayMS[n]

\* Every call returns, again and again: no caller stays in SyncOrder for
\* ever, and a follower never waits for an owner that is gone.
CallsReturn == \A c \in Callers : []<>(callers[c].pc \notin {"posting", "waiting"})
=============================================================================
