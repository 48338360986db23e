---------------------------- MODULE MCSapClient -----------------------------
(* An instance of SapClient for TLC.                                       *)
EXTENDS SapClient

CONSTANTS c1, c2, c3, k1, none, b1, b2

Header(kind, value) == [kind |-> kind, value |-> value]

\* Numbers of seconds below the cap and no backoff, above the cap, and so
\* large that the product does not fit a duration and would come around to a
\* delay below the cap.
EdgeHeaders ==
  {Header("seconds", 3), Header("seconds", MaxDelay),
   Header("seconds", ((2 * MaxInt + 2) + 3 * Second) \div Second)}

\* parseRetryAfter over a range of headers: what fits a duration is taken as
\* it is, and nothing negative comes out.
ASSUME RetryAfterAssumption ==
  \A kind \in {"seconds", "date", "garbled"}, value \in -2..(3 * MaxInt) :
    LET header == Header(kind, value) IN
    /\ ParseRetryAfter(header) \in 0..MaxInt \cup {Null}
    /\ Asked(header) # Null /\ Asked(header) <= MaxInt =>
         ParseRetryAfter(header) = Asked(header)
=============================================================================
