--------------------------- MODULE SapClientProofs --------------------------
(***************************************************************************)
(* Theorems about SapClient for any callers, keys, bodies and headers and  *)
(* any width of a duration.                                                *)
(***************************************************************************)
EXTENDS SapClient, FiniteSetTheorems, LeastNaturals

-----------------------------------------------------------------------------
(* Durations.                                                              *)

\* A number that fits a duration is left alone.
LEMMA WrappedFits ==
  ASSUME NEW n \in 0..MaxInt
  PROVE  Wrapped(n) = n
<1>1. MaxInt \in Nat
  BY DurationsAssumption
<1> DEFINE m == n + MaxInt + 1
           M == 2 * (MaxInt + 1)
<1>2. m \in Int /\ M \in Int /\ M > 0 /\ 0 <= m /\ m < M
  BY <1>1
<1>3. m % M = m
  <2> HIDE DEF m, M
  <2>1. QED
    BY <1>2
<1>4. QED
  BY <1>1, <1>3 DEF Wrapped

\* The test before the multiplication rules out an overflow.
LEMMA SecondsFit ==
  ASSUME NEW n \in 0..(MaxInt \div Second)
  PROVE  n * Second \in 0..MaxInt
<1>1. MaxInt \in Nat /\ Second \in Nat /\ Second > 0
  BY DurationsAssumption
<1> DEFINE q == MaxInt \div Second
<1>2. q \in Int /\ q * Second <= MaxInt
  BY <1>1
<1>3. n \in Int /\ 0 <= n /\ n <= q
  BY <1>2
<1>4. 0 <= n * Second /\ n * Second <= q * Second /\ n * Second \in Int
  <2> HIDE DEF q
  <2>1. QED
    BY <1>1, <1>2, <1>3
<1>5. q * Second \in Int
  BY <1>1, <1>2
<1>6. QED
  <2> HIDE DEF q
  <2>1. QED
    BY <1>1, <1>2, <1>4, <1>5

\* parseRetryAfter returns a duration or nothing.
LEMMA ParseRetryAfterTyped ==
  ASSUME NEW header \in Headers
  PROVE  ParseRetryAfter(header) \in 0..MaxInt \cup {Null}
<1>1. header.value \in Int /\ MaxInt \in Nat
  BY HeadersAssumption, DurationsAssumption
<1>2. header.value \in 0..(MaxInt \div Second) => Wrapped(header.value * Second) \in 0..MaxInt
  BY SecondsFit, WrappedFits
<1>3. header.value >= 0 => AtMost(header.value, MaxInt) \in 0..MaxInt
  BY <1>1 DEF AtMost
<1>4. QED
  BY <1>2, <1>3 DEF ParseRetryAfter

-----------------------------------------------------------------------------
(* The backoff.  Its recursion is unfolded from approximations, and each   *)
(* induction over the attempts takes the least counterexample.             *)

\* One step of the backoff, from the delays before it.
Doubled(g, n) == IF n <= 1 THEN Second ELSE AtMost(2 * g[n - 1], MaxDelay)

\* The delays of the attempts up to n.
Backoffs(n) == {g \in [0..n -> Second..MaxDelay] : \A i \in 0..n : g[i] = Doubled(g, i)}

\* There are delays for every number of attempts.
LEMMA BackoffsExist ==
  ASSUME NEW n \in Nat
  PROVE  Backoffs(n) # {}
<1> DEFINE T == {m \in Nat : Backoffs(m) = {}}
<1> SUFFICES ASSUME T # {} PROVE FALSE
  OBVIOUS
<1>1. PICK m \in T : \A k \in T : m <= k
  <2> HIDE DEF T
  <2>1. T \subseteq Nat
    BY DEF T
  <2>2. QED
    BY <2>1, LeastNatural
<1>2. m # 0
  <2> DEFINE g == [i \in 0..0 |-> Second]
  <2>1. g \in Backoffs(0)
    BY DurationsAssumption DEF Backoffs, Doubled
  <2>2. QED
    BY <2>1
<1>3. m - 1 \in Nat /\ m - 1 \notin T
  BY <1>1, <1>2
<1>4. PICK g : g \in Backoffs(m - 1)
  BY <1>3
<1> DEFINE h == [i \in 0..m |-> IF i < m THEN g[i] ELSE Doubled(g, m)]
<1>5. Doubled(g, m) \in Second..MaxDelay
  BY <1>2, <1>4, DurationsAssumption DEF Backoffs, Doubled, AtMost
<1>6. h \in [0..m -> Second..MaxDelay]
  BY <1>4, <1>5 DEF Backoffs
<1>7. \A i \in 0..m : h[i] = Doubled(h, i)
  <2>1. ASSUME NEW i \in 0..m PROVE Doubled(h, i) = Doubled(g, i)
    BY DEF Doubled
  <2>2. \A i \in 0..(m-1) : g[i] = Doubled(g, i)
    BY <1>4 DEF Backoffs
  <2>3. QED
    BY <2>1, <2>2
<1>8. QED
  BY <1>6, <1>7 DEF Backoffs

\* And they do not depend on how many attempts follow.
LEMMA BackoffsAgree ==
  ASSUME NEW m \in Nat, NEW n \in Nat, NEW g \in Backoffs(m), NEW h \in Backoffs(n),
         NEW i \in 0..m, i \in 0..n
  PROVE  g[i] = h[i]
<1> DEFINE T == {k \in 0..i : g[k] # h[k]}
<1> SUFFICES ASSUME T # {} PROVE FALSE
  OBVIOUS
<1>1. PICK k \in T : \A l \in T : k <= l
  <2> HIDE DEF T
  <2>1. T \subseteq Nat
    BY DEF T
  <2>2. QED
    BY <2>1, LeastNatural
<1>2. k > 1 => g[k - 1] = h[k - 1]
  BY <1>1
<1>3. g[k] = Doubled(g, k) /\ h[k] = Doubled(h, k)
  BY DEF Backoffs
<1>4. QED
  BY <1>2, <1>3 DEF Doubled

\* The recursion of RetryDelayMS has a solution, so it can be unfolded.
LEMMA RetryDelayMSUnfolds ==
  ASSUME NEW n \in Nat
  PROVE  RetryDelayMS[n] = Doubled(RetryDelayMS, n)
<1> DEFINE b(m) == CHOOSE g : g \in Backoffs(m)
           f == [m \in Nat |-> b(m)[m]]
<1>1. \A m \in Nat : b(m) \in Backoffs(m)
  BY BackoffsExist
<1> HIDE DEF b
<1>2. \A m \in Nat : f[m] = Doubled(f, m)
  <2>1. SUFFICES ASSUME NEW m \in Nat PROVE f[m] = Doubled(f, m)
    OBVIOUS
  <2>2. b(m)[m] = Doubled(b(m), m)
    BY <1>1 DEF Backoffs
  <2>3. m > 1 => b(m)[m - 1] = b(m - 1)[m - 1]
    BY <1>1, BackoffsAgree
  <2>4. QED
    BY <2>2, <2>3 DEF Doubled
<1>3. f = [m \in Nat |-> IF m <= 1 THEN Second ELSE AtMost(2 * f[m - 1], MaxDelay)]
  BY <1>2 DEF Doubled
<1> HIDE DEF f
<1>4. RetryDelayMS = [m \in Nat |-> IF m <= 1 THEN Second
                                    ELSE AtMost(2 * RetryDelayMS[m - 1], MaxDelay)]
  BY <1>3 DEF RetryDelayMS
<1>5. QED
  BY <1>4 DEF Doubled

\* Every backoff lies between the first delay and the cap, whatever the number
\* of attempts: the doubling stops at the cap before it can overflow.
LEMMA BackoffBounded ==
  ASSUME NEW n \in Nat
  PROVE  RetryDelayMS[n] \in Second..MaxDelay
<1> DEFINE T == {m \in Nat : RetryDelayMS[m] \notin Second..MaxDelay}
<1> SUFFICES ASSUME T # {} PROVE FALSE
  OBVIOUS
<1>1. PICK m \in T : \A k \in T : m <= k
  <2> HIDE DEF T
  <2>1. T \subseteq Nat
    BY DEF T
  <2>2. QED
    BY <2>1, LeastNatural
<1>2. RetryDelayMS[m] = Doubled(RetryDelayMS, m)
  BY RetryDelayMSUnfolds
<1>3. m > 1 => RetryDelayMS[m - 1] \in Second..MaxDelay
  BY <1>1
<1>4. Doubled(RetryDelayMS, m) \in Second..MaxDelay
  BY <1>3, DurationsAssumption DEF Doubled, AtMost
<1>5. QED
  BY <1>2, <1>4

-----------------------------------------------------------------------------
(* What an exchange may end with.                                          *)

\* The delay of an answer is the one its header asks for.
FromHeader(answer) ==
  answer.after = IF answer.header = Null THEN Null ELSE ParseRetryAfter(answer.header)

\* A failure is an answer, without an order and without a delay.
LEMMA FailureIsAnswer ==
  ASSUME NEW retryable \in BOOLEAN
  PROVE  /\ Failure(retryable) \in Answers
         /\ Failure(retryable).order = Null
         /\ FromHeader(Failure(retryable))
BY DEF Failure, NoAnswer, Answers, FromHeader

\* The answer of a call that has none yet.
LEMMA NoAnswerIsAnswer ==
  /\ NoAnswer \in Answers
  /\ FromHeader(NoAnswer)
BY DEF NoAnswer, Answers, FromHeader

\* A success is an answer for the order that was sent.
LEMMA SuccessIsAnswer ==
  ASSUME NEW key \in Keys, NEW body \in Bodies
  PROVE  /\ Success(key, body) \in Answers
         /\ Success(key, body).order = <<key, body>>
         /\ FromHeader(Success(key, body))
BY DEF Success, NoAnswer, Answers, FromHeader

\* A 429 is an answer with the delay of its header.
LEMMA ThrottledIsAnswer ==
  ASSUME NEW header \in Headers
  PROVE  /\ Throttled(header) \in Answers
         /\ Throttled(header).order = Null
         /\ FromHeader(Throttled(header))
<1>1. RetryableStatus(429) \in BOOLEAN
  BY DEF RetryableStatus
<1>2. header # Null
  BY NullAssumption
<1>3. QED
  BY <1>1, <1>2, ParseRetryAfterTyped DEF Throttled, Answers, FromHeader

\* postOrder answers for the order that its caller sent.
LEMMA PostOrderAnswers ==
  ASSUME NEW c \in Callers, callers[c].key \in Keys, callers[c].body \in Bodies,
         NEW answer \in PostOrder(c)
  PROVE  /\ answer \in Answers
         /\ answer.order \in {Null, <<callers[c].key, callers[c].body>>}
         /\ FromHeader(answer)
<1>1. \A error : RetryableTransportError(error) \in BOOLEAN
  BY DEF RetryableTransportError
<1>2. \A code : RetryableStatus(code) \in BOOLEAN
  BY DEF RetryableStatus
<1>3. \/ answer = Success(callers[c].key, callers[c].body)
      \/ \E retryable \in BOOLEAN : answer = Failure(retryable)
      \/ \E header \in Headers : answer = Throttled(header)
  BY <1>1, <1>2 DEF PostOrder
<1>4. QED
  BY <1>3, SuccessIsAnswer, FailureIsAnswer, ThrottledIsAnswer

-----------------------------------------------------------------------------
(* The invariant.                                                          *)

Owns(c, id, key) ==
  callers[c].pc = "posting" /\ callers[c].call = id /\ callers[c].key = key

\* A caller refers to a call from the moment it posts or waits until it
\* returns, and the call is for its body.
ReferenceOK(c) ==
  /\ callers[c].pc \in {"idle", "returned"} <=> callers[c].call = Null
  /\ callers[c].call # Null =>
       /\ callers[c].key \in Keys
       /\ callers[c].body \in Bodies
       /\ callers[c].body = calls[callers[c].call].body

\* The call of an owner is in the map, under its key, and open.
OwnerOK(c) ==
  callers[c].pc = "posting" =>
    /\ inflight[callers[c].key] = callers[c].call
    /\ calls[callers[c].call].done = FALSE

\* The call a follower waits for has an owner with the same key, or is over
\* with an answer about the follower's own order.
FollowerOK(c) ==
  callers[c].pc = "waiting" =>
    \/ \E d \in Callers : Owns(d, callers[c].call, callers[c].key)
    \/ /\ calls[callers[c].call].done = TRUE
       /\ calls[callers[c].call].answer.order \in {Null, <<callers[c].key, callers[c].body>>}

CallInv ==
  /\ \A c \in Callers : ReferenceOK(c)
  /\ \A c \in Callers : OwnerOK(c)
  /\ \A c \in Callers : FollowerOK(c)
  /\ \A k \in Keys : inflight[k] # Null => \E c \in Callers : Owns(c, inflight[k], k)
  /\ \A c, d \in Callers : /\ callers[c].pc = "posting" /\ callers[d].pc = "posting"
                           /\ callers[c].call = callers[d].call
                           => c = d
  /\ AnswerIsMine

\* startCall finds an object that nobody refers to.
LEMMA FreshCall ==
  ASSUME NEW c \in Callers
  PROVE  \E id \in CallIds : Unused(id, c)
<1> SUFFICES ASSUME \A id \in CallIds : \E d \in Callers \ {c} : callers[d].call = id
             PROVE  FALSE
  BY DEF Unused
<1> DEFINE f == [id \in CallIds |-> CHOOSE d \in Callers \ {c} : callers[d].call = id]
<1>1. f \in [CallIds -> Callers \ {c}] /\ \A id \in CallIds : callers[f[id]].call = id
  OBVIOUS
<1>2. /\ IsFiniteSet(Callers \ {c})
      /\ Cardinality(Callers \ {c}) = Cardinality(Callers) - 1
  BY FS_RemoveElement, CallersAssumption
<1>3. Cardinality(Callers) \in Nat /\ Cardinality(CallIds) \in Nat
  BY FS_CardinalityType, CallersAssumption
<1>4. Cardinality(Callers \ {c}) < Cardinality(CallIds)
  BY <1>2, <1>3, CallersAssumption
<1>5. \E x, y \in CallIds : x # y /\ f[x] = f[y]
  <2> HIDE DEF f
  <2>1. QED
    BY <1>1, <1>2, <1>4, FS_PigeonHole, CallersAssumption
<1>6. QED
  BY <1>1, <1>5

\* No two owners have the same key.
LEMMA OneOwnerPerKey ==
  ASSUME CallInv
  PROVE  OneRequestPerKey
BY DEF CallInv, OwnerOK, OneRequestPerKey

-----------------------------------------------------------------------------
(* Every step preserves the invariant.                                     *)

\* A caller starts a call of its own.
LEMMA OwnCallKeepsInv ==
  ASSUME TypeOK, CallInv, NEW c \in Callers, NEW key \in Keys, NEW body \in Bodies,
         callers[c].pc = "idle", inflight[key] = Null,
         NEW id \in CallIds, Unused(id, c),
         calls' = [calls EXCEPT ![id] = NewCall(body)],
         inflight' = [inflight EXCEPT ![key] = id],
         Enters(c, key, body, "posting", id)
  PROVE  TypeOK' /\ CallInv'
<1>1. NewCall(body) \in CallObjects /\ NewCall(body) # Null
  <2>1. NewCall(body) \in CallObjects
    BY NoAnswerIsAnswer DEF NewCall, CallObjects
  <2>2. QED
    BY <2>1, NullAssumption
<1>2. /\ callers'[c] \in CallerStates
      /\ callers'[c].pc = "posting" /\ callers'[c].key = key /\ callers'[c].body = body
      /\ callers'[c].call = id
      /\ \A d \in Callers : d # c => callers'[d] = callers[d]
      /\ callers' \in [Callers -> CallerStates]
  BY NoAnswerIsAnswer DEF Enters, Idle, CallerStates, TypeOK
<1>3. /\ calls'[id] = NewCall(body)
      /\ \A i \in CallIds : i # id => calls'[i] = calls[i]
      /\ calls' \in [CallIds -> CallObjects \cup {Null}]
  BY <1>1 DEF TypeOK
<1>4. /\ inflight'[key] = id
      /\ \A k \in Keys : k # key => inflight'[k] = inflight[k]
      /\ inflight' \in [Keys -> CallIds \cup {Null}]
  BY DEF TypeOK
<1>5. \A d \in Callers : d # c => callers[d].call # id
  BY DEF Unused
<1>6. ASSUME NEW d \in Callers, d # c, callers[d].call # Null
      PROVE  calls'[callers[d].call] = calls[callers[d].call]
  BY <1>3, <1>5, <1>6 DEF TypeOK, CallerStates
<1>7. TypeOK'
  BY <1>1, <1>2, <1>3, <1>4, <1>6 DEF TypeOK
<1>8. \A d \in Callers : ReferenceOK(d)'
  <2>1. ReferenceOK(c)'
    BY <1>2, <1>3, NullAssumption DEF ReferenceOK, NewCall
  <2>2. ASSUME NEW d \in Callers, d # c PROVE ReferenceOK(d)'
    BY <1>2, <1>6, <2>2 DEF CallInv, ReferenceOK
  <2>3. QED
    BY <2>1, <2>2
<1>9. \A d \in Callers : OwnerOK(d)'
  <2>1. OwnerOK(c)'
    BY <1>2, <1>3, <1>4 DEF OwnerOK, NewCall
  <2>2. ASSUME NEW d \in Callers, d # c, callers[d].pc = "posting" PROVE OwnerOK(d)'
    <3>1. callers[d].call # Null /\ callers[d].key \in Keys \ {key}
      BY <2>2 DEF CallInv, ReferenceOK, OwnerOK
    <3>2. QED
      BY <1>2, <1>4, <1>6, <2>2, <3>1 DEF CallInv, OwnerOK
  <2>3. QED
    BY <1>2, <2>1, <2>2 DEF OwnerOK
<1>10. \A d \in Callers : FollowerOK(d)'
  <2>1. ASSUME NEW d \in Callers, d # c, callers[d].pc = "waiting" PROVE FollowerOK(d)'
    <3>1. callers[d].call # Null
      BY <2>1 DEF CallInv, ReferenceOK
    <3>2. CASE \E e \in Callers : Owns(e, callers[d].call, callers[d].key)
      BY <1>2, <2>1, <3>2 DEF FollowerOK, Owns
    <3>3. CASE /\ calls[callers[d].call].done = TRUE
               /\ calls[callers[d].call].answer.order \in {Null, <<callers[d].key, callers[d].body>>}
      BY <1>2, <1>6, <2>1, <3>1, <3>3 DEF FollowerOK
    <3>4. QED
      BY <2>1, <3>2, <3>3 DEF CallInv, FollowerOK
  <2>2. QED
    BY <1>2, <2>1 DEF FollowerOK
<1>11. \A k \in Keys : inflight'[k] # Null => \E d \in Callers : Owns(d, inflight[k], k)'
  <2>1. Owns(c, inflight[key], key)'
    BY <1>2, <1>4 DEF Owns
  <2>2. ASSUME NEW k \in Keys, k # key, inflight[k] # Null
        PROVE  \E d \in Callers : Owns(d, inflight[k], k)'
    <3>1. PICK d \in Callers : Owns(d, inflight[k], k)
      BY <2>2 DEF CallInv
    <3>2. Owns(d, inflight[k], k)'
      BY <1>2, <1>4, <2>2, <3>1 DEF Owns
    <3>3. QED
      BY <3>2
  <2>3. QED
    BY <1>4, <2>1, <2>2
<1>12. \A d, e \in Callers :
         callers'[d].pc = "posting" /\ callers'[e].pc = "posting" /\ callers'[d].call = callers'[e].call
           => d = e
  BY <1>2, <1>5 DEF CallInv
<1>13. AnswerIsMine'
  BY <1>2 DEF CallInv, AnswerIsMine
<1>14. QED
  BY <1>7, <1>8, <1>9, <1>10, <1>11, <1>12, <1>13 DEF CallInv

\* A caller that owns no call, before and after, moves on: it joins, is
\* refused, leaves a call it followed, or has used its answer.
LEMMA MoveKeepsInv ==
  ASSUME TypeOK, CallInv, NEW c \in Callers,
         callers[c].pc # "posting", callers'[c].pc # "posting",
         callers'[c] \in CallerStates,
         callers' = [callers EXCEPT ![c] = callers'[c]],
         UNCHANGED inflight,
         calls' \in [CallIds -> CallObjects \cup {Null}],
         \A d \in Callers \ {c} : callers[d].call # Null =>
           calls'[callers[d].call] = calls[callers[d].call],
         callers'[c].call # Null => calls'[callers'[c].call] # Null,
         ReferenceOK(c)', FollowerOK(c)',
         callers'[c].pc = "returned" =>
           callers'[c].answer.order \in {Null, <<callers'[c].key, callers'[c].body>>}
  PROVE  TypeOK' /\ CallInv'
<1>1. \A d \in Callers : d # c => callers'[d] = callers[d]
  BY DEF TypeOK
<1>2. TypeOK'
  BY <1>1 DEF TypeOK
<1>3. ASSUME NEW d \in Callers, d # c, callers[d].call # Null
      PROVE  calls'[callers[d].call] = calls[callers[d].call]
  BY <1>3
<1>4. \A d \in Callers : ReferenceOK(d)'
  <2>1. ASSUME NEW d \in Callers, d # c PROVE ReferenceOK(d)'
    BY <1>1, <1>3, <2>1 DEF CallInv, ReferenceOK
  <2>2. QED
    BY <2>1
<1>5. \A d \in Callers : OwnerOK(d)'
  <2>1. ASSUME NEW d \in Callers, d # c, callers[d].pc = "posting" PROVE OwnerOK(d)'
    <3>1. callers[d].call # Null
      BY <2>1 DEF CallInv, ReferenceOK
    <3>2. QED
      BY <1>1, <1>3, <2>1, <3>1 DEF CallInv, OwnerOK
  <2>2. QED
    BY <1>1, <2>1 DEF OwnerOK
<1>6. \A d \in Callers : FollowerOK(d)'
  <2>1. ASSUME NEW d \in Callers, d # c, callers[d].pc = "waiting" PROVE FollowerOK(d)'
    <3>1. callers[d].call # Null
      BY <2>1 DEF CallInv, ReferenceOK
    <3>2. CASE \E e \in Callers : Owns(e, callers[d].call, callers[d].key)
      <4>1. PICK e \in Callers : Owns(e, callers[d].call, callers[d].key)
        BY <3>2
      <4>2. Owns(e, callers[d].call, callers[d].key)'
        BY <1>1, <2>1, <4>1 DEF Owns
      <4>3. QED
        BY <4>2 DEF FollowerOK
    <3>3. CASE /\ calls[callers[d].call].done = TRUE
               /\ calls[callers[d].call].answer.order \in {Null, <<callers[d].key, callers[d].body>>}
      BY <1>1, <1>3, <2>1, <3>1, <3>3 DEF FollowerOK
    <3>4. QED
      BY <2>1, <3>2, <3>3 DEF CallInv, FollowerOK
  <2>2. QED
    BY <1>1, <2>1 DEF FollowerOK
<1>7. \A k \in Keys : inflight'[k] # Null => \E d \in Callers : Owns(d, inflight[k], k)'
  <2>1. ASSUME NEW k \in Keys, inflight[k] # Null
        PROVE  \E d \in Callers : Owns(d, inflight[k], k)'
    <3>1. PICK d \in Callers : Owns(d, inflight[k], k)
      BY <2>1 DEF CallInv
    <3>2. Owns(d, inflight[k], k)'
      BY <1>1, <3>1 DEF Owns
    <3>3. QED
      BY <3>2
  <2>2. QED
    BY <2>1
<1>8. \A d, e \in Callers :
        callers'[d].pc = "posting" /\ callers'[e].pc = "posting" /\ callers'[d].call = callers'[e].call
          => d = e
  BY <1>1 DEF CallInv
<1>9. AnswerIsMine'
  BY <1>1 DEF CallInv, AnswerIsMine
<1>10. QED
  BY <1>2, <1>4, <1>5, <1>6, <1>7, <1>8, <1>9 DEF CallInv

\* SyncOrder up to startCall.
LEMMA SyncOrderKeepsInv ==
  ASSUME TypeOK, CallInv, NEW c \in Callers, NEW key \in Keys, NEW body \in Bodies,
         SyncOrder(c, key, body)
  PROVE  TypeOK' /\ CallInv'
<1>1. callers[c].pc = "idle"
  BY DEF SyncOrder
<1>2. CASE key # EmptyKey /\ inflight[key] = Null
  <2> DEFINE id == CHOOSE id \in CallIds : Unused(id, c)
  <2>1. id \in CallIds /\ Unused(id, c)
    BY FreshCall
  <2>2. /\ calls' = [calls EXCEPT ![id] = NewCall(body)]
        /\ inflight' = [inflight EXCEPT ![key] = id]
        /\ Enters(c, key, body, "posting", id)
    BY <1>2 DEF SyncOrder
  <2> HIDE DEF id
  <2>3. QED
    BY <1>1, <1>2, <2>1, <2>2, OwnCallKeepsInv
<1>3. CASE ~(key # EmptyKey /\ inflight[key] = Null)
  <2>1. UNCHANGED <<inflight, calls>>
    BY <1>3 DEF SyncOrder
  <2>2. CASE key # EmptyKey /\ Joins(inflight[key], body)
    <3>1. inflight[key] \in CallIds /\ inflight[key] # Null
      BY <1>3, <2>2 DEF TypeOK
    <3>2. PICK d \in Callers : Owns(d, inflight[key], key)
      BY <3>1 DEF CallInv
    <3>3. calls[inflight[key]] # Null /\ d # c
      BY <1>1, <3>1, <3>2 DEF Owns, TypeOK
    <3>4. callers' = [callers EXCEPT ![c] = [Idle EXCEPT !.pc = "waiting", !.key = key,
                                                         !.body = body, !.call = inflight[key]]]
      BY <1>3, <2>2 DEF SyncOrder, Enters
    <3>5. /\ callers'[c] \in CallerStates
          /\ callers'[c].pc = "waiting" /\ callers'[c].key = key /\ callers'[c].body = body
          /\ callers'[c].call = inflight[key]
          /\ callers' = [callers EXCEPT ![c] = callers'[c]]
          /\ callers'[d] = callers[d]
      BY <3>1, <3>3, <3>4, NoAnswerIsAnswer DEF Idle, CallerStates, TypeOK
    <3>6. ReferenceOK(c)'
      BY <2>1, <2>2, <3>1, <3>5 DEF ReferenceOK, Joins
    <3>7. FollowerOK(c)'
      <4>1. Owns(d, callers[c].call, callers[c].key)'
        BY <3>2, <3>5 DEF Owns
      <4>2. QED
        BY <4>1 DEF FollowerOK
    <3>8. calls' \in [CallIds -> CallObjects \cup {Null}]
      BY <2>1 DEF TypeOK
    <3>9. QED
      BY <1>1, <2>1, <3>3, <3>5, <3>6, <3>7, <3>8, MoveKeepsInv
  <2>3. CASE ~(key # EmptyKey /\ Joins(inflight[key], body))
    <3>1. callers' = [callers EXCEPT ![c] = [Idle EXCEPT !.pc = "returned", !.key = key,
                                                         !.body = body, !.answer = Failure(FALSE)]]
      BY <1>3, <2>3 DEF SyncOrder, Returns
    <3>2. /\ callers'[c] \in CallerStates
          /\ callers'[c].pc = "returned" /\ callers'[c].call = Null
          /\ callers'[c].answer.order = Null
          /\ callers' = [callers EXCEPT ![c] = callers'[c]]
      BY <3>1, FailureIsAnswer DEF Idle, CallerStates, TypeOK
    <3>3. ReferenceOK(c)' /\ FollowerOK(c)'
      BY <3>2 DEF ReferenceOK, FollowerOK
    <3>4. calls' \in [CallIds -> CallObjects \cup {Null}]
      BY <2>1 DEF TypeOK
    <3>5. QED
      BY <1>1, <2>1, <3>2, <3>3, <3>4, MoveKeepsInv
  <2>4. QED
    BY <2>2, <2>3
<1>4. QED
  BY <1>2, <1>3

\* A follower returns, with the answer of its call or because it gave up; the
\* object is dropped by the last one that refers to it.
LEMMA FollowerLeaves ==
  ASSUME TypeOK, CallInv, NEW c \in Callers, callers[c].pc = "waiting",
         NEW answer \in Answers,
         answer.order \in {Null, <<callers[c].key, callers[c].body>>},
         Returns(c, callers[c].key, callers[c].body, answer),
         calls' = Collected(c, calls), UNCHANGED inflight
  PROVE  TypeOK' /\ CallInv'
<1>1. /\ callers[c].call \in CallIds
      /\ callers[c].key \in Keys /\ callers[c].body \in Bodies
  BY DEF CallInv, ReferenceOK, TypeOK, CallerStates
<1>2. /\ callers'[c] \in CallerStates
      /\ callers'[c].pc = "returned" /\ callers'[c].call = Null
      /\ callers'[c].key = callers[c].key /\ callers'[c].body = callers[c].body
      /\ callers'[c].answer = answer
      /\ callers' = [callers EXCEPT ![c] = callers'[c]]
  BY <1>1 DEF Returns, Idle, CallerStates, TypeOK
<1>3. ReferenceOK(c)' /\ FollowerOK(c)'
  BY <1>2 DEF ReferenceOK, FollowerOK
<1>4. calls' \in [CallIds -> CallObjects \cup {Null}]
  BY DEF Collected, TypeOK
<1>5. \A d \in Callers \ {c} : callers[d].call # Null =>
        calls'[callers[d].call] = calls[callers[d].call]
  BY DEF Collected, Unused, TypeOK, CallerStates
<1>6. QED
  BY <1>2, <1>3, <1>4, <1>5, MoveKeepsInv

\* The owner's exchange ends and its answer is published.
LEMMA PostEndsKeepsInv ==
  ASSUME TypeOK, CallInv, NEW c \in Callers, PostEnds(c)
  PROVE  TypeOK' /\ CallInv'
<1> DEFINE id == callers[c].call
           key == callers[c].key
           body == callers[c].body
<1>1. callers[c].pc = "posting"
  BY DEF PostEnds
<1>2. id \in CallIds /\ key \in Keys /\ body \in Bodies /\ calls[id] # Null
  BY <1>1 DEF CallInv, ReferenceOK, TypeOK, CallerStates
<1>3. /\ inflight[key] = id /\ calls[id].done = FALSE /\ calls[id].body = body
  BY <1>1, <1>2 DEF CallInv, ReferenceOK, OwnerOK
<1>4. PICK answer \in PostOrder(c) : Publish(c, answer) /\ Returns(c, key, body, answer)
  BY DEF PostEnds
<1>5. answer \in Answers /\ answer.order \in {Null, <<key, body>>}
  BY <1>2, PostOrderAnswers
<1>6. /\ callers'[c].pc = "returned" /\ callers'[c].call = Null
      /\ callers'[c].key = key /\ callers'[c].body = body
      /\ callers'[c].answer = answer
      /\ callers' \in [Callers -> CallerStates]
      /\ \A d \in Callers : d # c => callers'[d] = callers[d]
  BY <1>2, <1>4, <1>5 DEF Returns, Idle, CallerStates, TypeOK
<1>7. /\ inflight'[key] = Null
      /\ \A k \in Keys : k # key => inflight'[k] = inflight[k]
      /\ inflight' \in [Keys -> CallIds \cup {Null}]
  BY <1>2, <1>4 DEF Publish, TypeOK
<1> DEFINE closed == [calls[id] EXCEPT !.answer = answer, !.done = TRUE]
<1>8. closed \in CallObjects /\ closed.done = TRUE /\ closed.answer = answer /\ closed.body = body
  BY <1>2, <1>3, <1>5 DEF CallObjects, TypeOK
<1>9. Closed(c, answer) = [calls EXCEPT ![id] = closed]
  BY <1>2, <1>8 DEF Closed, TypeOK
<1>10. /\ calls' \in [CallIds -> CallObjects \cup {Null}]
       /\ \A i \in CallIds : i # id => calls'[i] = calls[i]
       /\ \A d \in Callers : d # c /\ callers[d].call = id => calls'[id] = closed
  <2> HIDE DEF closed
  <2>1. calls' = Collected(c, [calls EXCEPT ![id] = closed])
    BY <1>4, <1>9 DEF Publish
  <2>2. QED
    BY <1>2, <1>8, <2>1 DEF Collected, Unused, TypeOK
<1> HIDE DEF closed
<1>11. TypeOK'
  <2>1. closed # Null
    BY <1>8, NullAssumption
  <2>2. ASSUME NEW d \in Callers, d # c, callers[d].call # Null
        PROVE  calls'[callers[d].call] # Null
    BY <1>10, <2>1, <2>2 DEF TypeOK, CallerStates
  <2>3. QED
    BY <1>6, <1>7, <1>10, <2>2 DEF TypeOK
<1>12. \A d \in Callers : ReferenceOK(d)'
  <2>1. ReferenceOK(c)'
    BY <1>6 DEF ReferenceOK
  <2>2. ASSUME NEW d \in Callers, d # c PROVE ReferenceOK(d)'
    <3>1. callers[d].call # Null => calls'[callers[d].call].body = calls[callers[d].call].body
      BY <1>3, <1>8, <1>10, <2>2 DEF TypeOK, CallerStates
    <3>2. QED
      BY <1>6, <2>2, <3>1 DEF CallInv, ReferenceOK
  <2>3. QED
    BY <2>1, <2>2
<1>13. ASSUME NEW d \in Callers, d # c, callers[d].pc = "posting"
       PROVE  callers[d].call \in CallIds \ {id} /\ callers[d].key \in Keys \ {key}
  <2>1. callers[d].call \in CallIds /\ callers[d].key \in Keys
    BY <1>13 DEF CallInv, ReferenceOK, TypeOK, CallerStates
  <2>2. callers[d].call # id
    BY <1>1, <1>13 DEF CallInv
  <2>3. callers[d].key # key
    BY <1>3, <1>13, <2>2 DEF CallInv, OwnerOK
  <2>4. QED
    BY <2>1, <2>2, <2>3
<1>14. \A d \in Callers : OwnerOK(d)'
  <2>1. ASSUME NEW d \in Callers, d # c, callers[d].pc = "posting" PROVE OwnerOK(d)'
    BY <1>6, <1>7, <1>10, <1>13, <2>1 DEF CallInv, OwnerOK
  <2>2. QED
    BY <1>6, <2>1 DEF OwnerOK
<1>15. \A d \in Callers : FollowerOK(d)'
  <2>1. ASSUME NEW d \in Callers, d # c, callers[d].pc = "waiting" PROVE FollowerOK(d)'
    <3>1. callers[d].call \in CallIds
      BY <2>1 DEF CallInv, ReferenceOK, TypeOK, CallerStates
    <3>2. CASE callers[d].call = id
      <4>1. PICK e \in Callers : Owns(e, id, callers[d].key)
        BY <1>3, <2>1, <3>2 DEF CallInv, FollowerOK
      <4>2. e = c
        BY <1>1, <4>1 DEF CallInv, Owns
      <4>3. callers[d].key = key
        BY <4>1, <4>2 DEF Owns
      <4>4. callers[d].body = body
        BY <1>3, <2>1, <3>1, <3>2, NullAssumption DEF CallInv, ReferenceOK
      <4>5. QED
        BY <1>5, <1>6, <1>8, <1>10, <2>1, <3>2, <4>3, <4>4 DEF FollowerOK
    <3>3. CASE callers[d].call # id /\ \E e \in Callers : Owns(e, callers[d].call, callers[d].key)
      <4>1. PICK e \in Callers : Owns(e, callers[d].call, callers[d].key)
        BY <3>3
      <4>2. e # c
        BY <3>3, <4>1 DEF Owns
      <4>3. Owns(e, callers[d].call, callers[d].key)'
        BY <1>6, <2>1, <4>1, <4>2 DEF Owns
      <4>4. QED
        BY <4>3 DEF FollowerOK
    <3>4. CASE /\ callers[d].call # id
               /\ calls[callers[d].call].done = TRUE
               /\ calls[callers[d].call].answer.order \in {Null, <<callers[d].key, callers[d].body>>}
      BY <1>6, <1>10, <2>1, <3>1, <3>4 DEF FollowerOK
    <3>5. QED
      BY <2>1, <3>2, <3>3, <3>4 DEF CallInv, FollowerOK
  <2>2. QED
    BY <1>6, <2>1 DEF FollowerOK
<1>16. \A k \in Keys : inflight'[k] # Null => \E d \in Callers : Owns(d, inflight[k], k)'
  <2>1. ASSUME NEW k \in Keys, k # key, inflight[k] # Null
        PROVE  \E d \in Callers : Owns(d, inflight[k], k)'
    <3>1. PICK d \in Callers : Owns(d, inflight[k], k)
      BY <2>1 DEF CallInv
    <3>2. Owns(d, inflight[k], k)'
      BY <1>6, <1>7, <2>1, <3>1 DEF Owns
    <3>3. QED
      BY <3>2
  <2>2. QED
    BY <1>7, <2>1
<1>17. \A d, e \in Callers :
         callers'[d].pc = "posting" /\ callers'[e].pc = "posting" /\ callers'[d].call = callers'[e].call
           => d = e
  BY <1>6 DEF CallInv
<1>18. AnswerIsMine'
  BY <1>5, <1>6 DEF CallInv, AnswerIsMine
<1>19. QED
  BY <1>11, <1>12, <1>14, <1>15, <1>16, <1>17, <1>18 DEF CallInv

\* Every step preserves the invariant.
LEMMA StepKeepsInv ==
  ASSUME TypeOK, CallInv, [Next]_vars
  PROVE  TypeOK' /\ CallInv'
<1>1. ASSUME NEW c \in Callers, NEW key \in Keys, NEW body \in Bodies, SyncOrder(c, key, body)
      PROVE  TypeOK' /\ CallInv'
  BY <1>1, SyncOrderKeepsInv
<1>2. ASSUME NEW c \in Callers, PostEnds(c) PROVE TypeOK' /\ CallInv'
  BY <1>2, PostEndsKeepsInv
<1>3. ASSUME NEW c \in Callers, FollowerDone(c) PROVE TypeOK' /\ CallInv'
  <2> DEFINE call == calls[callers[c].call]
  <2>1. callers[c].pc = "waiting" /\ call.done
    BY <1>3 DEF FollowerDone
  <2>2. call \in CallObjects
    BY <2>1 DEF CallInv, ReferenceOK, TypeOK, CallerStates
  <2>3. call.answer \in Answers
    BY <2>2 DEF CallObjects
  <2>4. call.answer.order \in {Null, <<callers[c].key, callers[c].body>>}
    <3>1. ASSUME NEW d \in Callers PROVE ~Owns(d, callers[c].call, callers[c].key)
      BY <2>1 DEF CallInv, OwnerOK, Owns
    <3>2. QED
      BY <2>1, <3>1 DEF CallInv, FollowerOK
  <2>5. QED
    BY <1>3, <2>1, <2>3, <2>4, FollowerLeaves DEF FollowerDone
<1>4. ASSUME NEW c \in Callers, FollowerCancelled(c) PROVE TypeOK' /\ CallInv'
  BY <1>4, FollowerLeaves, FailureIsAnswer DEF FollowerCancelled, BareError
<1>5. ASSUME NEW c \in Callers, Finish(c) PROVE TypeOK' /\ CallInv'
  <2>1. /\ callers[c].pc = "returned"
        /\ callers' = [callers EXCEPT ![c] = callers'[c]]
        /\ callers'[c] = Idle
        /\ UNCHANGED <<inflight, calls>>
    BY <1>5 DEF Finish, TypeOK
  <2>2. /\ Idle \in CallerStates
        /\ Idle.pc = "idle" /\ Idle.call = Null
    BY NoAnswerIsAnswer DEF Idle, CallerStates
  <2>3. ReferenceOK(c)' /\ FollowerOK(c)'
    BY <2>1, <2>2 DEF ReferenceOK, FollowerOK
  <2>4. calls' \in [CallIds -> CallObjects \cup {Null}]
    BY <2>1 DEF TypeOK
  <2>5. QED
    BY <2>1, <2>2, <2>3, <2>4, MoveKeepsInv
<1>6. ASSUME NEW c \in Callers, Cancel(c) PROVE TypeOK' /\ CallInv'
  <2>1. /\ callers' \in [Callers -> CallerStates]
        /\ UNCHANGED <<inflight, calls>>
        /\ \A d \in Callers : /\ callers'[d].pc = callers[d].pc
                              /\ callers'[d].key = callers[d].key
                              /\ callers'[d].body = callers[d].body
                              /\ callers'[d].call = callers[d].call
                              /\ callers'[d].answer = callers[d].answer
    BY <1>6 DEF Cancel, TypeOK, CallerStates
  <2>2. TypeOK'
    BY <2>1 DEF TypeOK
  <2>3. CallInv'
    BY <2>1 DEF CallInv, ReferenceOK, OwnerOK, FollowerOK, Owns, AnswerIsMine
  <2>4. QED
    BY <2>2, <2>3
<1>7. CASE UNCHANGED vars
  BY <1>7 DEF vars, TypeOK, CallInv, ReferenceOK, OwnerOK, FollowerOK, Owns, AnswerIsMine
<1>8. QED
  BY <1>1, <1>2, <1>3, <1>4, <1>5, <1>6, <1>7 DEF Next, Step

\* The invariant holds in every state.
LEMMA CallsKept == Spec => [](TypeOK /\ CallInv)
<1>1. Init => TypeOK /\ CallInv
  <2> SUFFICES ASSUME Init PROVE TypeOK /\ CallInv
    OBVIOUS
  <2>1. Idle \in CallerStates /\ Idle.pc = "idle" /\ Idle.call = Null
    BY NoAnswerIsAnswer DEF Idle, CallerStates
  <2>2. TypeOK
    BY <2>1 DEF Init, TypeOK
  <2>3. CallInv
    BY <2>1 DEF Init, CallInv, ReferenceOK, OwnerOK, FollowerOK, AnswerIsMine
  <2>4. QED
    BY <2>2, <2>3
<1>2. (TypeOK /\ CallInv) /\ [Next]_vars => (TypeOK /\ CallInv)'
  BY StepKeepsInv
<1>3. QED
  BY <1>1, <1>2, PTL DEF Spec

-----------------------------------------------------------------------------
\* The map, the objects and the callers keep their types, and an object lives
\* as long as somebody refers to it: the last of the owner and the followers
\* drops it, and startCall always finds one that nobody uses.
THEOREM TypeCorrect == Spec => []TypeOK
BY CallsKept, PTL

\* SAP never has two requests with one idempotency key from this process:
\* the entry that startCall puts into the map stays until its owner is done.
THEOREM RequestsExclusive == Spec => []OneRequestPerKey
<1>1. CallInv => OneRequestPerKey
  BY OneOwnerPerKey
<1>2. QED
  BY <1>1, CallsKept, PTL

\* Nobody joins a call that is over: an entry of the map is an open call with
\* exactly one owner, which has its key.
THEOREM EntriesOwned == Spec => []EntryHasOwner
<1>1. TypeOK /\ CallInv => EntryHasOwner
  <2> SUFFICES ASSUME TypeOK, CallInv, NEW k \in Keys, inflight[k] # Null
               PROVE  /\ ~calls[inflight[k]].done
                      /\ Cardinality({c \in Callers : /\ callers[c].pc = "posting"
                                                      /\ callers[c].call = inflight[k]
                                                      /\ callers[c].key = k}) = 1
    BY DEF EntryHasOwner
  <2>1. PICK c \in Callers : Owns(c, inflight[k], k)
    BY DEF CallInv
  <2>2. calls[inflight[k]].done = FALSE
    BY <2>1 DEF CallInv, OwnerOK, Owns
  <2>3. {d \in Callers : /\ callers[d].pc = "posting"
                         /\ callers[d].call = inflight[k]
                         /\ callers[d].key = k} = {c}
    BY <2>1 DEF CallInv, Owns
  <2>4. QED
    BY <2>2, <2>3, FS_Singleton
<1>2. QED
  BY <1>1, CallsKept, PTL

\* A caller that is told success is told so of the order it called with, also
\* when another caller sent it.
THEOREM AnswersMine == Spec => []AnswerIsMine
<1>1. CallInv => AnswerIsMine
  BY DEF CallInv
<1>2. QED
  BY <1>1, CallsKept, PTL

-----------------------------------------------------------------------------
(* The delay that a failure asks for.                                      *)

\* The answers that are kept, in objects and by callers, still have the delay
\* of their header.
HeaderInv ==
  /\ \A c \in Callers : FromHeader(callers[c].answer)
  /\ \A id \in CallIds : calls[id] # Null => FromHeader(calls[id].answer)

\* A step that brings no new answer, or drops some.
LEMMA NoNewAnswer ==
  ASSUME HeaderInv,
         \A d \in Callers : FromHeader(callers'[d].answer),
         \A id \in CallIds : calls'[id] = calls[id] \/ calls'[id] = Null
  PROVE  HeaderInv'
BY DEF HeaderInv, FromHeader

\* An answer that is shared is shared with its delay.
LEMMA StepKeepsHeaders ==
  ASSUME TypeOK, CallInv, HeaderInv, [Next]_vars
  PROVE  HeaderInv'
<1>1. Idle.answer = NoAnswer
  BY DEF Idle
<1>2. ASSUME NEW c \in Callers, NEW key, NEW body, NEW answer, Returns(c, key, body, answer),
             FromHeader(answer)
      PROVE  \A d \in Callers : FromHeader(callers'[d].answer)
  BY <1>2 DEF Returns, Idle, HeaderInv, TypeOK
<1>3. ASSUME NEW c \in Callers, calls' = Collected(c, calls)
      PROVE  \A id \in CallIds : calls'[id] = calls[id] \/ calls'[id] = Null
  BY <1>3 DEF Collected, TypeOK
<1>4. ASSUME NEW c \in Callers, NEW key \in Keys, NEW body \in Bodies, SyncOrder(c, key, body)
      PROVE  HeaderInv'
  <2>1. CASE key # EmptyKey /\ inflight[key] = Null
    <3> DEFINE id == CHOOSE id \in CallIds : Unused(id, c)
    <3>1. id \in CallIds
      BY FreshCall
    <3>2. /\ calls' = [calls EXCEPT ![id] = NewCall(body)]
          /\ Enters(c, key, body, "posting", id)
      BY <1>4, <2>1 DEF SyncOrder
    <3> HIDE DEF id
    <3>3. \A d \in Callers : FromHeader(callers'[d].answer)
      BY <3>2, NoAnswerIsAnswer DEF Enters, Idle, HeaderInv, TypeOK
    <3>4. FromHeader(NewCall(body).answer)
      BY NoAnswerIsAnswer DEF NewCall
    <3>5. \A i \in CallIds : calls'[i] # Null => FromHeader(calls'[i].answer)
      BY <3>1, <3>2, <3>4 DEF HeaderInv, TypeOK
    <3>6. QED
      BY <3>3, <3>5 DEF HeaderInv, FromHeader
  <2>2. CASE ~(key # EmptyKey /\ inflight[key] = Null)
    <3>1. UNCHANGED calls
      BY <1>4, <2>2 DEF SyncOrder
    <3>2. CASE Enters(c, key, body, "waiting", inflight[key])
      <4>1. \A d \in Callers : FromHeader(callers'[d].answer)
        BY <3>2, NoAnswerIsAnswer DEF Enters, Idle, HeaderInv, TypeOK
      <4>2. QED
        BY <3>1, <4>1, NoNewAnswer
    <3>3. CASE Returns(c, key, body, Failure(FALSE))
      BY <1>2, <3>1, <3>3, FailureIsAnswer, NoNewAnswer
    <3>4. QED
      BY <1>4, <2>2, <3>2, <3>3 DEF SyncOrder
  <2>3. QED
    BY <2>1, <2>2
<1>5. ASSUME NEW c \in Callers, PostEnds(c) PROVE HeaderInv'
  <2>1. /\ callers[c].key \in Keys /\ callers[c].body \in Bodies
        /\ callers[c].call \in CallIds /\ calls[callers[c].call] \in CallObjects
    BY <1>5 DEF PostEnds, CallInv, ReferenceOK, TypeOK, CallerStates
  <2>2. PICK answer \in PostOrder(c) :
          Publish(c, answer) /\ Returns(c, callers[c].key, callers[c].body, answer)
    BY <1>5 DEF PostEnds
  <2>3. FromHeader(answer)
    BY <2>1, PostOrderAnswers
  <2>4. \A d \in Callers : FromHeader(callers'[d].answer)
    BY <1>2, <2>2, <2>3
  <2>5. \A id \in CallIds : calls'[id] # Null => FromHeader(calls'[id].answer)
    <3> DEFINE objects == Closed(c, answer)
    <3>1. /\ objects[callers[c].call].answer = answer
          /\ \A id \in CallIds : id # callers[c].call => objects[id] = calls[id]
          /\ DOMAIN objects = CallIds
          /\ objects = [id \in CallIds |-> objects[id]]
      BY <2>1 DEF Closed, TypeOK, CallObjects
    <3>2. \A id \in CallIds : calls'[id] = objects[id] \/ calls'[id] = Null
      <4> HIDE DEF objects
      <4>1. calls' = Collected(c, objects)
        BY <2>2 DEF Publish, objects
      <4>2. QED
        BY <3>1, <4>1 DEF Collected
    <3> HIDE DEF objects
    <3>3. QED
      BY <2>3, <3>1, <3>2 DEF HeaderInv
  <2>6. QED
    BY <2>4, <2>5 DEF HeaderInv, FromHeader
<1>6. ASSUME NEW c \in Callers, FollowerDone(c) PROVE HeaderInv'
  <2>1. callers[c].call \in CallIds /\ calls[callers[c].call] # Null
    BY <1>6 DEF FollowerDone, CallInv, ReferenceOK, TypeOK, CallerStates
  <2>2. FromHeader(calls[callers[c].call].answer)
    BY <2>1 DEF HeaderInv
  <2>3. QED
    BY <1>2, <1>3, <1>6, <2>2, NoNewAnswer DEF FollowerDone
<1>7. ASSUME NEW c \in Callers, FollowerCancelled(c) PROVE HeaderInv'
  BY <1>2, <1>3, <1>7, FailureIsAnswer, NoNewAnswer DEF FollowerCancelled, BareError
<1>8. ASSUME NEW c \in Callers, Finish(c) \/ Cancel(c) PROVE HeaderInv'
  <2>1. UNCHANGED calls
    BY <1>8 DEF Finish, Cancel
  <2>2. \A d \in Callers : callers'[d].answer \in {callers[d].answer, NoAnswer}
    <3>1. CASE Finish(c)
      BY <1>1, <3>1 DEF Finish, TypeOK
    <3>2. CASE Cancel(c)
      BY <3>2 DEF Cancel, TypeOK, CallerStates
    <3>3. QED
      BY <1>8, <3>1, <3>2
  <2>3. QED
    BY <2>1, <2>2, NoAnswerIsAnswer, NoNewAnswer DEF HeaderInv
<1>9. CASE UNCHANGED vars
  BY <1>9 DEF vars, HeaderInv, FromHeader
<1>10. QED
  BY <1>4, <1>5, <1>6, <1>7, <1>8, <1>9 DEF Next, Step

\* A number of seconds that parseRetryAfter does not take does not fit.
LEMMA SecondsOverflow ==
  ASSUME NEW n \in Nat, n \notin 0..(MaxInt \div Second)
  PROVE  n * Second > MaxInt
<1>1. MaxInt \in Nat /\ Second \in Nat /\ Second > 0
  BY DurationsAssumption
<1> DEFINE q == MaxInt \div Second
<1>2. q \in Int /\ (q + 1) * Second > MaxInt /\ (q + 1) * Second \in Int
  BY <1>1
<1>3. n >= q + 1
  BY <1>2
<1>4. n * Second >= (q + 1) * Second /\ n * Second \in Int
  <2> HIDE DEF q
  <2>1. QED
    BY <1>1, <1>2, <1>3
<1>5. QED
  <2> HIDE DEF q
  <2>1. QED
    BY <1>1, <1>2, <1>4

\* What parseRetryAfter returns, in terms of what SAP asked for.
LEMMA ParsedAsAsked ==
  ASSUME NEW header \in Headers
  PROVE  LET asked == Asked(header)
             after == ParseRetryAfter(header) IN
         \/ asked = Null /\ after = Null
         \/ asked \in 0..MaxInt /\ after = asked
         \/ asked \in Nat /\ asked > MaxInt /\ after \in {Null, MaxInt}
<1> DEFINE v == header.value
<1>1. v \in Int /\ MaxInt \in Nat /\ header # Null /\ Second \in Nat
  BY HeadersAssumption, DurationsAssumption, NullAssumption
<1>2. header.kind \in {"seconds", "date", "garbled"}
  BY HeadersAssumption
<1>3. CASE header.kind = "garbled" \/ v < 0
  <2>1. Asked(header) = Null
    BY <1>3 DEF Asked
  <2>2. v < 0 => v \notin 0..(MaxInt \div Second) /\ ~(v >= 0)
    BY <1>1
  <2>3. ParseRetryAfter(header) = Null
    BY <1>3, <2>2 DEF ParseRetryAfter
  <2>4. QED
    BY <2>1, <2>3
<1>4. CASE header.kind = "seconds" /\ v >= 0
  <2>1. Asked(header) = v * Second
    BY <1>1, <1>4 DEF Asked
  <2>2. CASE v \in 0..(MaxInt \div Second)
    <3>1. v * Second \in 0..MaxInt
      BY <2>2, SecondsFit
    <3>2. ParseRetryAfter(header) = v * Second
      BY <1>4, <2>2, <3>1, WrappedFits DEF ParseRetryAfter
    <3>3. QED
      BY <2>1, <3>1, <3>2
  <2>3. CASE v \notin 0..(MaxInt \div Second)
    <3>1. v * Second > MaxInt /\ v * Second \in Nat
      BY <1>1, <1>4, <2>3, SecondsOverflow
    <3>2. ParseRetryAfter(header) = Null
      BY <1>4, <2>3 DEF ParseRetryAfter
    <3>3. QED
      BY <2>1, <3>1, <3>2
  <2>4. QED
    BY <2>2, <2>3
<1>5. CASE header.kind = "date" /\ v >= 0
  <2>1. Asked(header) = v
    BY <1>1, <1>5 DEF Asked
  <2>2. ParseRetryAfter(header) = AtMost(v, MaxInt)
    BY <1>5 DEF ParseRetryAfter
  <2>3. QED
    BY <1>1, <1>5, <2>1, <2>2 DEF AtMost
<1>6. QED
  BY <1>1, <1>2, <1>3, <1>4, <1>5

\* retryDelay on an answer that has the delay of its header.
LEMMA DelayHonoured ==
  ASSUME NEW answer \in Answers, FromHeader(answer), NEW n \in Attempts,
         NEW delay \in RetryDelays(answer.after, n)
  PROVE  LET asked == Asked(answer.header) IN
         /\ delay \in 0..MaxDelay
         /\ asked # Null /\ asked <= MaxInt => delay = AtMost(asked, MaxDelay)
         /\ asked = Null => delay <= RetryDelayMS[n]
         /\ asked # Null /\ asked > MaxInt => delay = MaxDelay \/ delay <= RetryDelayMS[n]
<1> DEFINE asked == Asked(answer.header)
           after == answer.after
<1>1. /\ MaxDelay \in Nat /\ MaxInt \in Nat /\ MaxDelay <= MaxInt
      /\ n \in Nat /\ RetryDelayMS[n] \in 0..MaxDelay
  <2>1. MaxDelay \in Nat /\ MaxInt \in Nat /\ MaxDelay <= MaxInt /\ n \in Nat
    BY DurationsAssumption
  <2>2. RetryDelayMS[n] \in Second..MaxDelay
    BY <2>1, BackoffBounded
  <2>3. QED
    BY <2>1, <2>2, DurationsAssumption
<1>2. \/ asked = Null /\ after = Null
      \/ asked \in 0..MaxInt /\ after = asked
      \/ asked \in Nat /\ asked > MaxInt /\ after \in {Null, MaxInt}
  <2>1. CASE answer.header = Null
    BY <2>1 DEF FromHeader, Asked
  <2>2. CASE answer.header \in Headers
    BY <2>2, ParsedAsAsked, NullAssumption DEF FromHeader
  <2>3. QED
    BY <2>1, <2>2 DEF Answers
<1> HIDE DEF asked
<1>3. CASE after = Null
  <2>1. PICK d \in 0..RetryDelayMS[n] : delay = AtMost(d, MaxDelay)
    BY <1>3 DEF RetryDelays
  <2>2. delay \in 0..MaxDelay /\ delay <= RetryDelayMS[n]
    BY <1>1, <2>1 DEF AtMost
  <2>3. asked = Null \/ (asked > MaxInt /\ asked \in Nat)
    BY <1>2, <1>3, NullAssumption
  <2>4. asked # Null => ~(asked <= MaxInt)
    BY <1>1, <2>3
  <2>5. QED
    BY <2>2, <2>4 DEF asked
<1>4. CASE after \in 0..MaxInt
  <2>1. delay = AtMost(after, MaxDelay)
    BY <1>1, <1>4, NullAssumption DEF RetryDelays
  <2>2. delay \in 0..MaxDelay
    BY <1>1, <1>4, <2>1 DEF AtMost
  <2>3. CASE asked = after
    <3>1. asked \in Int /\ asked # Null /\ ~(asked > MaxInt)
      BY <1>1, <1>4, <2>3, NullAssumption
    <3>2. QED
      BY <2>1, <2>2, <2>3, <3>1 DEF asked
  <2>4. CASE asked > MaxInt /\ asked \in Nat /\ after = MaxInt
    <3>1. asked # Null /\ ~(asked <= MaxInt)
      BY <1>1, <2>4, NullAssumption
    <3>2. delay = MaxDelay
      BY <1>1, <2>1, <2>4 DEF AtMost
    <3>3. QED
      BY <2>2, <3>1, <3>2 DEF asked
  <2>5. QED
    BY <1>2, <1>4, <2>3, <2>4, NullAssumption
<1>5. QED
  BY <1>3, <1>4 DEF Answers

\* Every delay the worker may wait after a failed call lies within the cap, is
\* what SAP asked for if that fits a duration, and no overflow becomes a
\* delay, for the caller that sent the request and for every follower.
THEOREM DelaysHonoured == Spec => []RetryAfterHonoured
<1>1. Init => HeaderInv
  BY NoAnswerIsAnswer DEF Init, HeaderInv, Idle
<1>2. TypeOK /\ CallInv /\ HeaderInv /\ [Next]_vars => HeaderInv'
  BY StepKeepsHeaders
<1>3. TypeOK /\ HeaderInv => RetryAfterHonoured
  <2> SUFFICES ASSUME TypeOK, HeaderInv, NEW c \in Callers, NEW n \in Attempts,
                      NEW delay \in RetryDelays(callers[c].answer.after, n)
               PROVE  LET asked == Asked(callers[c].answer.header) IN
                      /\ delay \in 0..MaxDelay
                      /\ asked # Null /\ asked <= MaxInt => delay = AtMost(asked, MaxDelay)
                      /\ asked = Null => delay <= RetryDelayMS[n]
                      /\ asked # Null /\ asked > MaxInt =>
                           delay = MaxDelay \/ delay <= RetryDelayMS[n]
    BY DEF RetryAfterHonoured
  <2>1. callers[c].answer \in Answers /\ FromHeader(callers[c].answer)
    BY DEF TypeOK, CallerStates, HeaderInv
  <2>2. QED
    BY <2>1, DelayHonoured
<1>4. QED
  BY <1>1, <1>2, <1>3, CallsKept, PTL DEF Spec
=============================================================================
