------------------------- MODULE StreamClientProofs -------------------------
(***************************************************************************)
(* Proofs about StreamClient: a request delivers the events of one attempt *)
(* only, each once and in order; a failed one has delivered nothing; a     *)
(* cancel stops the retries; the calls assembled of the deltas are those   *)
(* the server sent, and the text shown is what stands outside the markup.  *)
(*                                                                         *)
(* The argument: an attempt may be repeated only while anyContent is FALSE *)
(* and nothing is delivered before it is TRUE; so all that was delivered   *)
(* comes from the attempt under way.  Content comes only with status 200,  *)
(* so a status that is retried or given up finds none.                     *)
(*                                                                         *)
(* What is delivered is then the first events of the answer, as many as    *)
(* there are in got, and each event makes of the calls and of the text of  *)
(* the first n events those of the first n + 1: a delta is the last of its *)
(* call, a token the last of the text.  What a token shows depends on the  *)
(* markers before it, of which inToolCall and dsml remember enough.        *)
(***************************************************************************)
EXTENDS StreamClient, FiniteSetTheorems, WellFoundedInduction, TLAPS

Streaming == {"attempt", "waiting", "receiving", "parsing", "performed", "sleeping"}

\* Before any content nothing is delivered, and content needs status 200.
ContentFirst ==
  /\ ~anyContent => got = <<>> /\ content = <<>> /\ calls = <<>> /\ ~ended
  /\ client \in {"attempt", "waiting", "sleeping"} => ~anyContent
  /\ client = "parsing" => anyContent /\ status = OK
  /\ client \in {"receiving", "performed"} /\ anyContent => status = OK

\* The verdict of a stream comes at its end only, and of a blocking request
\* with its reply.
VerdictLast ==
  /\ client \in Streaming => ~error
  /\ client = "returned" =>
       /\ error <=> ~success
       /\ error => ~anyContent
  /\ FailureIsTold

\* Requests behind a cancel: the one whose back-off was under way.
OneLate ==
  /\ late \in 0 .. 1
  /\ late = 1 => cancelled
  /\ client \in {"attempt", "sleeping"} => late = 0

\* The types, the flags apart from the rest.
Flags ==
  /\ cancelled \in BOOLEAN /\ anyContent \in BOOLEAN /\ finished \in BOOLEAN
  /\ failed \in BOOLEAN /\ dsml \in BOOLEAN
  /\ ended \in BOOLEAN /\ error \in BOOLEAN /\ success \in BOOLEAN

Numbers ==
  /\ client \in Places
  /\ streams \in 0 .. MaxStreams /\ retries \in 0 .. MaxRetries
  /\ answer \in Answers \cup {<<>>} /\ asked \in Blocking \cup {"stream"}
  /\ reply \in {"none", "answer", "error", "nothing"}
  /\ status \in {0, OK, Wait, Refused}
  /\ sent \in Nat /\ parsed \in Nat /\ late \in Nat

StreamIInv == StreamTypeOK /\ ContentFirst /\ VerdictLast /\ OneLate

\* What a stream under way has delivered, event by event.
FromOneAttempt(a) ==
  /\ DOMAIN got = 1 .. Len(got)
  /\ \A k \in 1 .. Len(got) : got[k] = [attempt |-> a, event |-> k]

Delivery ==
  /\ got \in Seq([attempt : 0 .. MaxRetries, event : Nat])
  /\ \E a \in 0 .. MaxRetries : FromOneAttempt(a)
  /\ client \in Streaming => FromOneAttempt(retries)
  /\ client = "waiting" => parsed = 0 /\ sent = 0
  /\ client \in {"waiting", "receiving", "parsing", "performed"} => Len(got) = parsed
  /\ client = "receiving" => 2 * (parsed + 1) > sent
  /\ client = "performed" /\ status = OK => 2 * (parsed + 1) > sent \/ Event.kind = "done"

----------------------------------------------------------------------------
\* The first invariant

LEMMA TypesApart == StreamTypeOK <=> Flags /\ Numbers
  BY DEF StreamTypeOK, Flags, Numbers

LEMMA StreamIInvHolds == StreamInit => StreamIInv
<1> SUFFICES ASSUME StreamInit PROVE StreamIInv
  OBVIOUS
<1>1. Flags
  BY Zenon DEF StreamInit, Flags
<1>2. Numbers
  BY StreamAssumption DEF StreamInit, Numbers, Places, Blocking
<1>3. ContentFirst /\ VerdictLast /\ OneLate
  BY DEF StreamInit, ContentFirst, VerdictLast, OneLate, Streaming, FailureIsTold
<1> QED BY <1>1, <1>2, <1>3, TypesApart DEF StreamIInv

LEMMA StreamStepKeeps == StreamIInv /\ [StreamNext]_streamVars => StreamIInv'
<1> SUFFICES ASSUME StreamIInv, [StreamNext]_streamVars PROVE StreamIInv'
  OBVIOUS
<1> DEFINE Rest == ContentFirst /\ VerdictLast /\ OneLate
<1>0. Flags /\ Numbers /\ Rest
  BY TypesApart DEF StreamIInv
<1> SUFFICES Flags' /\ Numbers' /\ Rest'
  BY DEF StreamIInv, StreamTypeOK, Flags, Numbers
<1> USE <1>0 DEF requestVars, attemptVars, filterVars, agentVars, callVars, blockVars
<1> HIDE DEF Rest
<1>1. CASE StreamBlocking
  <2>1. Numbers'
    BY <1>1, StreamAssumption DEF Numbers, Places, OK, Wait, Refused, StreamBlocking
  <2>2. Flags'
    BY <1>1, Zenon DEF Flags, StreamBlocking
  <2>3. Rest'
    BY <1>1 DEF Rest, Numbers, ContentFirst, VerdictLast, OneLate, Streaming,
        FailureIsTold, OK, Wait, Refused, StreamBlocking
  <2> QED BY <2>1, <2>2, <2>3
<1>2. ASSUME NEW kind \in Blocking, SendBlocking(kind) \/ Decline(kind)
      PROVE  Flags' /\ Numbers' /\ Rest'
  <2>1. Numbers'
    BY <1>2, StreamAssumption
    DEF Numbers, Places, OK, Wait, Refused, SendBlocking, Decline
  <2>2. Flags'
    BY <1>2, Zenon DEF Flags, SendBlocking, Decline
  <2>3. Rest'
    BY <1>2 DEF Rest, Numbers, ContentFirst, VerdictLast, OneLate, Streaming,
        FailureIsTold, OK, Wait, Refused, SendBlocking, Decline
  <2> QED BY <2>1, <2>2, <2>3
<1>3. CASE Open
  <2>1. Numbers'
    BY <1>3, StreamAssumption DEF Numbers, Places, OK, Wait, Refused, Open
  <2>2. Flags'
    BY <1>3, Zenon DEF Flags, Open
  <2>3. Rest'
    BY <1>3 DEF Rest, Numbers, ContentFirst, VerdictLast, OneLate, Streaming,
        FailureIsTold, OK, Wait, Refused, Open
  <2> QED BY <2>1, <2>2, <2>3
<1>4. CASE NoHandle
  <2>1. Numbers'
    BY <1>4, StreamAssumption
    DEF Numbers, Places, OK, Wait, Refused, NoHandle, Retry, MayRetry, Fail
  <2>2. Flags'
    BY <1>4, Zenon DEF Flags, NoHandle, Retry, MayRetry, Fail
  <2>3. Rest'
    BY <1>4 DEF Rest, Numbers, ContentFirst, VerdictLast, OneLate, Streaming,
        FailureIsTold, OK, Wait, Refused, NoHandle, Retry, MayRetry, Fail
  <2> QED BY <2>1, <2>2, <2>3
<1>5. CASE Wake
  <2>1. Numbers'
    BY <1>5, StreamAssumption DEF Numbers, Places, OK, Wait, Refused, Wake
  <2>2. Flags'
    BY <1>5, Zenon DEF Flags, Wake
  <2>3. Rest'
    BY <1>5 DEF Rest, Numbers, ContentFirst, VerdictLast, OneLate, Streaming,
        FailureIsTold, OK, Wait, Refused, Wake
  <2> QED BY <2>1, <2>2, <2>3
<1>6. CASE StatusLine
  <2>1. Numbers'
    BY <1>6, StreamAssumption DEF Numbers, Places, OK, Wait, Refused, StatusLine
  <2>2. Flags'
    BY <1>6, Zenon DEF Flags, StatusLine
  <2>3. Rest'
    BY <1>6 DEF Rest, Numbers, ContentFirst, VerdictLast, OneLate, Streaming,
        FailureIsTold, OK, Wait, Refused, StatusLine
  <2> QED BY <2>1, <2>2, <2>3
<1>7. CASE Chunk
  <2>1. Numbers'
    BY <1>7, StreamAssumption DEF Numbers, Places, OK, Wait, Refused, Chunk
  <2>2. Flags'
    BY <1>7, Zenon DEF Flags, Chunk
  <2>3. Rest'
    BY <1>7 DEF Rest, Numbers, ContentFirst, VerdictLast, OneLate, Streaming,
        FailureIsTold, OK, Wait, Refused, Chunk
  <2> QED BY <2>1, <2>2, <2>3
<1>8. CASE EndOfTransfer
  <2>1. Numbers'
    BY <1>8, StreamAssumption DEF Numbers, Places, OK, Wait, Refused, EndOfTransfer
  <2>2. Flags'
    BY <1>8, Zenon DEF Flags, EndOfTransfer
  <2>3. Rest'
    BY <1>8 DEF Rest, Numbers, ContentFirst, VerdictLast, OneLate, Streaming,
        FailureIsTold, OK, Wait, Refused, EndOfTransfer
  <2> QED BY <2>1, <2>2, <2>3
<1>9. CASE ParseDone
  <2>1. Numbers'
    BY <1>9, StreamAssumption DEF Numbers, Places, OK, Wait, Refused, ParseDone
  <2>2. Flags'
    BY <1>9, Zenon DEF Flags, ParseDone
  <2>3. Rest'
    BY <1>9 DEF Rest, Numbers, ContentFirst, VerdictLast, OneLate, Streaming,
        FailureIsTold, OK, Wait, Refused, ParseDone
  <2> QED BY <2>1, <2>2, <2>3
<1>10. CASE ParseEvent
  <2>1. Numbers'
    BY <1>10, StreamAssumption
    DEF Numbers, Places, OK, Wait, Refused, ParseEvent, OnText, OnToolCall, OnFinish
  <2>2. Flags'
    BY <1>10, Zenon DEF Flags, ParseEvent, OnText, OnToolCall, OnFinish
  <2>3. Rest'
    BY <1>10 DEF Rest, Numbers, ContentFirst, VerdictLast, OneLate, Streaming,
        FailureIsTold, OK, Wait, Refused, ParseEvent, OnText, OnToolCall, OnFinish
  <2> QED BY <2>1, <2>2, <2>3
<1>11. CASE ParseRest
  <2>1. Numbers'
    BY <1>11, StreamAssumption DEF Numbers, Places, OK, Wait, Refused, ParseRest
  <2>2. Flags'
    BY <1>11, Zenon DEF Flags, ParseRest
  <2>3. Rest'
    BY <1>11 DEF Rest, Numbers, ContentFirst, VerdictLast, OneLate, Streaming,
        FailureIsTold, OK, Wait, Refused, ParseRest
  <2> QED BY <2>1, <2>2, <2>3
<1>12. CASE Performed
  <2> USE DEF Broken, Retry, MayRetry, Fail, isRetryableHttpStatus
  <2>1. Numbers'
    BY <1>12, StreamAssumption
    DEF Numbers, Places, OK, Wait, Refused, Performed, KeepContent, RetryBroken, RetryStatus,
        GiveUp, Succeed
  <2>2. Flags'
    BY <1>12, Zenon DEF Flags, Performed, KeepContent, RetryBroken, RetryStatus, GiveUp, Succeed
  <2>3. Rest'
    <3> USE <1>12 DEF Performed, Rest, Numbers, ContentFirst, VerdictLast, OneLate, Streaming,
          FailureIsTold, OK, Wait, Refused
    <3>1. CASE KeepContent
      BY <3>1 DEF KeepContent
    <3>2. CASE RetryBroken
      BY <3>2 DEF RetryBroken
    <3>3. CASE RetryStatus
      BY <3>3 DEF RetryStatus
    <3>4. CASE GiveUp
      BY <3>4 DEF GiveUp
    <3>5. CASE Succeed
      BY <3>5 DEF Succeed
    <3> QED BY <3>1, <3>2, <3>3, <3>4, <3>5
  <2> QED BY <2>1, <2>2, <2>3
<1>13. CASE Return
  <2>1. Numbers'
    BY <1>13, StreamAssumption DEF Numbers, Places, OK, Wait, Refused, Return
  <2>2. Flags'
    BY <1>13, Zenon DEF Flags, Return
  <2>3. Rest'
    BY <1>13 DEF Rest, Numbers, ContentFirst, VerdictLast, OneLate, Streaming,
        FailureIsTold, OK, Wait, Refused, Return
  <2> QED BY <2>1, <2>2, <2>3
<1>14. CASE Post
  <2>1. Numbers'
    BY <1>14, StreamAssumption DEF Numbers, Places, OK, Wait, Refused, Post
  <2>2. Flags'
    BY <1>14, Zenon DEF Flags, Post
  <2>3. Rest'
    BY <1>14 DEF Rest, Numbers, ContentFirst, VerdictLast, OneLate, Streaming,
        FailureIsTold, OK, Wait, Refused, Post
  <2> QED BY <2>1, <2>2, <2>3
<1>15. CASE PostRetry
  <2>1. Numbers'
    BY <1>15, StreamAssumption DEF Numbers, Places, OK, Wait, Refused, PostRetry
  <2>2. Flags'
    BY <1>15, Zenon DEF Flags, PostRetry
  <2>3. Rest'
    BY <1>15 DEF Rest, Numbers, ContentFirst, VerdictLast, OneLate, Streaming,
        FailureIsTold, OK, Wait, Refused, PostRetry
  <2> QED BY <2>1, <2>2, <2>3
<1>16. CASE PostReturn
  <2>0. /\ reply' \in {"answer", "error", "nothing"}
        /\ reply' = "nothing" => asked = "chat" /\ ~failed /\ status = OK
        /\ reply' = "answer" => ~failed /\ status = OK /\ body[1].status = OK
    <3>1. CASE failed \/ status # OK
      BY <1>16, <3>1 DEF PostReturn
    <3>2. CASE ~failed /\ status = OK
      <4>1. reply' \in Reading(asked)
        BY <1>16, <3>2 DEF PostReturn
      <4>2. CASE asked = "chat"
        BY <3>2, <4>1, <4>2 DEF Reading, ChatReading, Answers200
      <4>3. CASE asked # "chat"
        BY <3>2, <4>1, <4>3 DEF Reading, SearchReading, PageReading, Answers200
      <4> QED BY <4>2, <4>3
    <3> QED BY <3>1, <3>2
  <2>1. Numbers'
    BY <1>16, <2>0, StreamAssumption DEF Numbers, Places, OK, Wait, Refused, PostReturn
  <2>2. Flags'
    BY <1>16, Zenon DEF Flags, PostReturn
  <2>3. Rest'
    BY <1>16, <2>0 DEF Rest, Numbers, ContentFirst, VerdictLast, OneLate, Streaming,
        FailureIsTold, OK, Wait, Refused, PostReturn
  <2> QED BY <2>1, <2>2, <2>3
<1>17. CASE CancelStream
  <2>1. Numbers'
    BY <1>17, StreamAssumption DEF Numbers, Places, OK, Wait, Refused, CancelStream
  <2>2. Flags'
    BY <1>17, Zenon DEF Flags, CancelStream
  <2>3. Rest'
    BY <1>17 DEF Rest, Numbers, ContentFirst, VerdictLast, OneLate, Streaming,
        FailureIsTold, OK, Wait, Refused, CancelStream
  <2> QED BY <2>1, <2>2, <2>3
<1>18. CASE StreamRest \/ UNCHANGED streamVars
  <2>1. Numbers'
    BY <1>18, StreamAssumption DEF Numbers, Places, OK, Wait, Refused, StreamRest, streamVars
  <2>2. Flags'
    BY <1>18, Zenon DEF Flags, StreamRest, streamVars
  <2>3. Rest'
    BY <1>18 DEF Rest, Numbers, ContentFirst, VerdictLast, OneLate, Streaming,
        FailureIsTold, OK, Wait, Refused, StreamRest, streamVars
  <2> QED BY <2>1, <2>2, <2>3
<1> QED
  BY <1>1, <1>2, <1>3, <1>4, <1>5, <1>6, <1>7, <1>8, <1>9, <1>10, <1>11, <1>12,
     <1>13, <1>14, <1>15, <1>16, <1>17, <1>18 DEF StreamNext, ClientThread, SendMessage, SearchWeb,
     FetchWeb, Blocking

----------------------------------------------------------------------------
\* What is delivered

\* One more event of the attempt under way.
LEMMA OneMoreEvent ==
  ASSUME Delivery, StreamTypeOK, FromOneAttempt(retries), Len(got) = parsed,
         got' = Append(got, [attempt |-> retries, event |-> parsed + 1]),
         retries' = retries, parsed' = parsed + 1
  PROVE  /\ got' \in Seq([attempt : 0 .. MaxRetries, event : Nat])
         /\ FromOneAttempt(retries)'
         /\ Len(got') = parsed'
<1> DEFINE r == [attempt |-> retries, event |-> parsed + 1]
           S == [attempt : 0 .. MaxRetries, event : Nat]
<1>1. r \in S /\ got \in Seq(S) /\ got' = Append(got, r)
  BY DEF Delivery, StreamTypeOK
<1>2. /\ Len(got') = Len(got) + 1 /\ got' \in Seq(S)
      /\ \A k \in 1 .. Len(got) : got'[k] = got[k]
      /\ got'[Len(got) + 1] = r
  <2> HIDE DEF r, S
  <2> QED BY <1>1
<1>3. DOMAIN got' = 1 .. Len(got')
  <2> HIDE DEF S
  <2> QED BY <1>2
<1>4. ASSUME NEW k \in 1 .. Len(got')
      PROVE  got'[k] = [attempt |-> retries, event |-> k]
  <2> Len(got) \in Nat
    BY <1>1
  <2>1. CASE k \in 1 .. Len(got)
    BY <2>1, <1>2 DEF FromOneAttempt
  <2>2. CASE k = Len(got) + 1
    BY <2>2, <1>2
  <2> QED BY <2>1, <2>2, <1>2
<1> QED BY <1>2, <1>3, <1>4 DEF FromOneAttempt

LEMMA FromSomeAttempt ==
  ASSUME NEW r \in 0 .. MaxRetries, DOMAIN got' = 1 .. Len(got'),
         \A k \in 1 .. Len(got') : got'[k] = [attempt |-> r, event |-> k]
  PROVE  \E a \in 0 .. MaxRetries : FromOneAttempt(a)'
  BY DEF FromOneAttempt

LEMMA DeliveryHolds == StreamInit => Delivery
<1> SUFFICES ASSUME StreamInit PROVE Delivery
  OBVIOUS
<1>1. FromOneAttempt(0)
  BY DEF StreamInit, FromOneAttempt
<1> QED BY <1>1, StreamAssumption DEF StreamInit, Delivery, Streaming

\* A step that leaves the deliveries and the attempt alone.
LEMMA NothingDelivered ==
  ASSUME got' = got, retries' = retries
  PROVE  /\ FromOneAttempt(retries)' <=> FromOneAttempt(retries)
         /\ (\E a \in 0 .. MaxRetries : FromOneAttempt(a))'
              <=> (\E a \in 0 .. MaxRetries : FromOneAttempt(a))
         /\ got' \in Seq([attempt : 0 .. MaxRetries, event : Nat])
              <=> got \in Seq([attempt : 0 .. MaxRetries, event : Nat])
  BY DEF FromOneAttempt

\* One that repeats the attempt or begins a request, with nothing delivered.
LEMMA NothingToDeliver ==
  ASSUME StreamTypeOK', got' = <<>>
  PROVE  /\ FromOneAttempt(retries)' /\ Len(got') = 0
         /\ (\E a \in 0 .. MaxRetries : FromOneAttempt(a))'
         /\ got' \in Seq([attempt : 0 .. MaxRetries, event : Nat])
<1>1. FromOneAttempt(retries)'
  BY DEF FromOneAttempt
<1>2. retries' \in 0 .. MaxRetries
  BY DEF StreamTypeOK
<1>3. (\E a \in 0 .. MaxRetries : FromOneAttempt(a))'
  BY <1>2 DEF FromOneAttempt
<1> QED BY <1>1, <1>3

LEMMA DeliveryKeeps == StreamIInv /\ Delivery /\ [StreamNext]_streamVars => Delivery'
<1> SUFFICES ASSUME StreamIInv, Delivery, [StreamNext]_streamVars PROVE Delivery'
  OBVIOUS
<1>0. Numbers /\ ContentFirst
  BY TypesApart DEF StreamIInv
<1>t. StreamTypeOK'
  BY StreamStepKeeps DEF StreamIInv
<1> USE <1>0, StreamAssumption DEF Numbers, OK, Wait, Refused, requestVars, attemptVars,
      filterVars, agentVars, callVars, blockVars
<1>1. CASE StreamBlocking
  <2>1. got' = <<>> /\ client' = "attempt"
    BY <1>1 DEF StreamBlocking
  <2> QED BY <2>1, <1>t, NothingToDeliver DEF Delivery, Streaming
<1>2. ASSUME NEW kind \in Blocking, SendBlocking(kind) \/ Decline(kind)
      PROVE  Delivery'
  <2>1. CASE SendBlocking(kind)
    BY <2>1 DEF Delivery, FromOneAttempt, Streaming, SendBlocking
  <2>2. CASE Decline(kind)
    BY <2>2 DEF Delivery, FromOneAttempt, Streaming, Decline
  <2> QED BY <1>2, <2>1, <2>2
<1>3. CASE Open
  BY <1>3 DEF Delivery, FromOneAttempt, Streaming, Event, Open, ContentFirst
<1>4. CASE NoHandle
  BY <1>4 DEF Delivery, FromOneAttempt, Streaming, Event, NoHandle, Retry,
      MayRetry, Fail, ContentFirst
<1>5. CASE Wake
  BY <1>5 DEF Delivery, FromOneAttempt, Streaming, Event, Wake
<1>6. CASE StatusLine
  BY <1>6 DEF Delivery, FromOneAttempt, Streaming, Event, StatusLine
<1>7. CASE Chunk
  BY <1>7 DEF Delivery, FromOneAttempt, Streaming, Event, Chunk
<1>8. CASE EndOfTransfer
  <2>1. got' = got /\ retries' = retries
    BY <1>8 DEF EndOfTransfer
  <2> QED BY <1>8, <2>1, NothingDelivered DEF Delivery, Streaming, Event, EndOfTransfer
<1>9. CASE ParseDone
  BY <1>9 DEF Delivery, FromOneAttempt, Streaming, Event, ParseDone, Complete
<1>10. CASE ParseEvent
  <2>1. FromOneAttempt(retries) /\ Len(got) = parsed
    BY <1>10 DEF ParseEvent, Delivery, Streaming
  <2>2. /\ got' = Append(got, [attempt |-> retries, event |-> parsed + 1])
        /\ retries' = retries /\ parsed' = parsed + 1 /\ client' = "parsing"
    BY <1>10 DEF ParseEvent
  <2>3. /\ got' \in Seq([attempt : 0 .. MaxRetries, event : Nat])
        /\ FromOneAttempt(retries)'
        /\ Len(got') = parsed'
    BY <2>1, <2>2, OneMoreEvent DEF StreamIInv
  <2>4. \E a \in 0 .. MaxRetries : FromOneAttempt(a)'
    <3>1. retries' \in 0 .. MaxRetries
      BY <2>2 DEF Numbers
    <3>2. /\ DOMAIN got' = 1 .. Len(got')
          /\ \A k \in 1 .. Len(got') : got'[k] = [attempt |-> retries', event |-> k]
      BY <2>3, Zenon DEF FromOneAttempt
    <3> QED BY <3>1, <3>2, FromSomeAttempt
  <2> QED BY <2>2, <2>3, <2>4 DEF Delivery, Streaming
<1>11. CASE ParseRest
  <2>1. got' = got /\ retries' = retries
    BY <1>11 DEF ParseRest, Complete
  <2> QED BY <1>11, <2>1, NothingDelivered DEF Delivery, Streaming, Event, ParseRest, Complete
<1>12. CASE Performed
  <2> USE DEF Performed
  <2>1. CASE KeepContent \/ GiveUp \/ Succeed
    <3>1. got' = got /\ retries' = retries /\ client' = "returned"
      BY <1>12, <2>1 DEF KeepContent, GiveUp, Succeed, Fail
    <3> QED BY <3>1, NothingDelivered DEF Delivery, Streaming
  <2>2. CASE RetryBroken \/ RetryStatus
    <3>1. got' = <<>> /\ client' = "sleeping"
      BY <1>12, <2>2 DEF RetryBroken, RetryStatus, Retry, MayRetry, ContentFirst
    <3> QED BY <3>1, <1>t, NothingToDeliver DEF Delivery, Streaming
  <2> QED BY <1>12, <2>1, <2>2
<1>13. CASE Return
  BY <1>13 DEF Delivery, FromOneAttempt, Streaming, Event, Return
<1>14. CASE Post
  BY <1>14 DEF Delivery, FromOneAttempt, Streaming, Event, Post
<1>15. CASE PostRetry
  BY <1>15 DEF Delivery, FromOneAttempt, Streaming, Event, PostRetry
<1>16. CASE PostReturn
  BY <1>16 DEF Delivery, FromOneAttempt, Streaming, Event, PostReturn
<1>17. CASE CancelStream
  BY <1>17 DEF Delivery, FromOneAttempt, Streaming, Event, CancelStream
<1>18. CASE StreamRest \/ UNCHANGED streamVars
  <2>1. /\ got' = got /\ retries' = retries /\ client' = client /\ parsed' = parsed
        /\ sent' = sent /\ status' = status /\ answer' = answer
    BY <1>18 DEF StreamRest, streamVars
  <2>2. Event' = Event
    BY <2>1 DEF Event
  <2> QED BY <2>1, <2>2, NothingDelivered DEF Delivery
<1> QED
  BY <1>1, <1>2, <1>3, <1>4, <1>5, <1>6, <1>7, <1>8, <1>9, <1>10, <1>11, <1>12,
     <1>13, <1>14, <1>15, <1>16, <1>17, <1>18 DEF StreamNext, ClientThread, SendMessage, SearchWeb,
     FetchWeb, Blocking

\* What a request delivers is DeliveredOnce.
LEMMA DeliveryIsOnce == ASSUME StreamIInv, Delivery PROVE DeliveredOnce
<1>1. ASSUME NEW a \in 0 .. MaxRetries, FromOneAttempt(a)
      PROVE  got = [k \in 1 .. Len(got) |-> [attempt |-> a, event |-> k]]
  <2>1. got \in Seq([attempt : 0 .. MaxRetries, event : Nat])
    BY DEF Delivery
  <2>2. got = [k \in 1 .. Len(got) |-> got[k]]
    BY <2>1
  <2> QED BY <2>2, <1>1 DEF FromOneAttempt
<1>2. \E a \in 0 .. MaxRetries : got = [k \in 1 .. Len(got) |-> [attempt |-> a, event |-> k]]
  BY <1>1 DEF Delivery
<1> QED BY <1>2 DEF Delivery, DeliveredOnce

----------------------------------------------------------------------------
\* The tool calls

\* What the deltas of the answer are made of.
IsDelta(k) == answer[k].kind \in {"call", "args"}
Indices == {answer[k].index : k \in {j \in 1 .. Len(answer) : IsDelta(j)}}
Bits == {answer[k].part : k \in {j \in 1 .. Len(answer) : IsDelta(j)}}

\* A chunk brings no more than there is.
WithinAnswer ==
  client \in {"waiting", "receiving", "parsing", "performed"} =>
    sent <= 2 * Len(answer)

HasCall(i) == \E c \in 1 .. Len(calls) : calls[c].index = i

\* A sub-agent has a part for each index a delta has come for, and its bits.
PartsOK ==
  /\ \A i \in DOMAIN parts : /\ parts[i] \in [named : BOOLEAN, args : Seq(Bits)]
                             /\ Deltas(i, Len(got)) # {}
                             /\ IsSent(parts[i].args, i, Len(got))
                             /\ parts[i].named <=> HasCall(i)
  /\ \A k \in 1 .. Len(got) : IsDelta(k) => answer[k].index \in DOMAIN parts

\* The agent has one call for each index that was named.
CallsOK ==
  /\ calls \in Seq([index : Indices, args : Seq(Bits)])
  /\ \A c \in 1 .. Len(calls) : calls[c].index \in DOMAIN parts
  /\ \A b, c \in 1 .. Len(calls) : calls[b].index = calls[c].index => b = c
  /\ \A k \in 1 .. Len(got) : answer[k].kind = "call" => HasCall(answer[k].index)

\* Of a server that keeps the format, every delta has a call, and its bits.
FormatOK ==
  NamedFirst =>
    /\ \A k \in 1 .. Len(got) : IsDelta(k) => HasCall(answer[k].index)
    /\ \A c \in 1 .. Len(calls) : IsSent(calls[c].args, calls[c].index, Len(got))

Assembled == WithinAnswer /\ PartsOK /\ CallsOK /\ FormatOK

\* The deltas of a call are finitely many, and one more event adds one or none.
LEMMA DeltasGrow ==
  ASSUME NEW i, NEW n \in Nat
  PROVE  /\ IsFiniteSet(Deltas(i, n)) /\ Cardinality(Deltas(i, n)) \in Nat
         /\ IsDelta(n + 1) /\ answer[n + 1].index = i =>
              /\ Deltas(i, n + 1) = Deltas(i, n) \cup {n + 1}
              /\ Cardinality(Deltas(i, n + 1)) = Cardinality(Deltas(i, n)) + 1
         /\ ~ (IsDelta(n + 1) /\ answer[n + 1].index = i) => Deltas(i, n + 1) = Deltas(i, n)
<1>1. IsFiniteSet(1 .. n)
  BY FS_Interval
<1>2. IsFiniteSet(Deltas(i, n)) /\ Cardinality(Deltas(i, n)) \in Nat
  BY <1>1, FS_Subset, FS_CardinalityType DEF Deltas
<1>3. \A k : k \in 1 .. n + 1 <=> k \in 1 .. n \/ k = n + 1
  OBVIOUS
<1>4. ASSUME IsDelta(n + 1), answer[n + 1].index = i
      PROVE  Deltas(i, n + 1) = Deltas(i, n) \cup {n + 1}
  BY <1>3, <1>4 DEF Deltas, IsDelta
<1>5. n + 1 \notin Deltas(i, n)
  BY DEF Deltas
<1>6. Cardinality(Deltas(i, n) \cup {n + 1}) = Cardinality(Deltas(i, n)) + 1
  BY <1>2, <1>5, FS_AddElement
<1>7. ASSUME ~ (IsDelta(n + 1) /\ answer[n + 1].index = i)
      PROVE  Deltas(i, n + 1) = Deltas(i, n)
  BY <1>3, <1>7 DEF Deltas, IsDelta
<1> QED BY <1>2, <1>4, <1>6, <1>7

\* The rank of a delta among those of its call.
LEMMA DeltaRank ==
  ASSUME NEW i, NEW n \in Nat, NEW k \in Deltas(i, n)
  PROVE  /\ k \in Nat /\ Cardinality(Deltas(i, k)) \in 1 .. Cardinality(Deltas(i, n))
<1>1. k \in 1 .. n /\ k \in Deltas(i, k) /\ Deltas(i, k) \subseteq Deltas(i, n)
  BY DEF Deltas
<1>2. /\ IsFiniteSet(Deltas(i, n)) /\ IsFiniteSet(Deltas(i, k))
      /\ Cardinality(Deltas(i, n)) \in Nat /\ Cardinality(Deltas(i, k)) \in Nat
  BY <1>1, DeltasGrow
<1>3. Cardinality(Deltas(i, k)) <= Cardinality(Deltas(i, n))
  BY <1>1, <1>2, FS_Subset
<1>4. Cardinality(Deltas(i, k)) # 0
  BY <1>1, <1>2, FS_EmptySet
<1> QED BY <1>1, <1>2, <1>3, <1>4

\* A delta lengthens the arguments of its call, and leaves those of the others.
LEMMA OneMoreDelta ==
  ASSUME NEW T, NEW args \in Seq(T), NEW i, NEW n \in Nat, IsSent(args, i, n),
         IsDelta(n + 1), answer[n + 1].index = i, answer[n + 1].part \in T
  PROVE  IsSent(Append(args, answer[n + 1].part), i, n + 1)
<1> DEFINE more == Append(args, answer[n + 1].part)
           size == Cardinality(Deltas(i, n))
<1>1. /\ Deltas(i, n + 1) = Deltas(i, n) \cup {n + 1}
      /\ Cardinality(Deltas(i, n + 1)) = size + 1 /\ size \in Nat
  BY DeltasGrow
<1>2. Len(args) = size
  BY DEF IsSent
<1>3. /\ Len(more) = size + 1 /\ more[size + 1] = answer[n + 1].part
      /\ \A j \in 1 .. size : more[j] = args[j]
  BY <1>2
<1> HIDE DEF more
<1>4. ASSUME NEW k \in Deltas(i, n)
      PROVE  more[Cardinality(Deltas(i, k))] = answer[k].part
  <2>1. Cardinality(Deltas(i, k)) \in 1 .. size
    BY DeltaRank
  <2>2. args[Cardinality(Deltas(i, k))] = answer[k].part
    BY DEF IsSent
  <2> QED BY <1>3, <2>1, <2>2
<1>5. more[Cardinality(Deltas(i, n + 1))] = answer[n + 1].part
  BY <1>1, <1>3
<1>6. \A k \in Deltas(i, n + 1) : more[Cardinality(Deltas(i, k))] = answer[k].part
  <2> SUFFICES ASSUME NEW k \in Deltas(i, n + 1)
               PROVE  more[Cardinality(Deltas(i, k))] = answer[k].part
    OBVIOUS
  <2>1. CASE k \in Deltas(i, n)
    BY <2>1, <1>4
  <2>2. CASE k = n + 1
    BY <2>2, <1>5
  <2> QED BY <1>1, <2>1, <2>2
<1> QED BY <1>1, <1>3, <1>6 DEF IsSent, more

LEMMA OthersStay ==
  ASSUME NEW args, NEW i, NEW n \in Nat, IsSent(args, i, n),
         ~ (IsDelta(n + 1) /\ answer[n + 1].index = i)
  PROVE  IsSent(args, i, n + 1)
  BY DeltasGrow DEF IsSent

\* The least of some numbers.
LEMMA LeastNumber ==
  ASSUME NEW S, S \subseteq Nat, S # {}
  PROVE  \E k \in S : \A j \in S : k <= j
<1> DEFINE Below == OpToRel(<, Nat)
<1>1. IsWellFoundedOn(Below, Nat)
  BY NatLessThanWellFounded, Zenon
<1>2. \A j, k \in Nat : j < k => <<j, k>> \in Below
  BY DEF OpToRel
<1> HIDE DEF Below
<1>3. PICK k \in S : \A j \in S : ~ (<<j, k>> \in Below)
  BY <1>1, WFMin
<1>4. ASSUME NEW j \in S PROVE k <= j
  <2>1. j \in Nat /\ k \in Nat
    OBVIOUS
  <2>2. ~ (j < k)
    BY <1>2, <1>3, <2>1
  <2> QED BY <2>1, <2>2
<1> QED BY <1>4

LEMMA MinIsMember ==
  ASSUME NEW S, S \subseteq Nat, S # {}
  PROVE  Min(S) \in S
  BY LeastNumber DEF Min

\* The search for the call of an index finds it.
At(e) == SelectInSeq(calls, LAMBDA c : c.index = e.index)

LEMMA SearchFinds ==
  ASSUME NEW T, calls \in Seq(T), NEW e
  PROVE  \/ At(e) = 0 /\ \A c \in 1 .. Len(calls) : calls[c].index # e.index
         \/ At(e) \in 1 .. Len(calls) /\ calls[At(e)].index = e.index
<1> DEFINE I == {k \in 1 .. Len(calls) : calls[k].index = e.index}
<1>1. At(e) = IF I # {} THEN Min(I) ELSE 0
  BY DEF At, SelectInSeq
<1>2. I \subseteq Nat
  OBVIOUS
<1>3. \A k : k \in I <=> k \in 1 .. Len(calls) /\ calls[k].index = e.index
  OBVIOUS
<1> HIDE DEF I
<1>4. CASE I = {}
  BY <1>1, <1>3, <1>4
<1>5. CASE I # {}
  <2>1. At(e) \in I
    BY <1>1, <1>2, <1>5, MinIsMember
  <2> QED BY <1>3, <2>1
<1> QED BY <1>4, <1>5

\* The list of calls behind a delta: still one call for each index.
Joined(new, e) ==
  /\ new \in Seq([index : Indices, args : Seq(Bits)])
  /\ \A b, c \in 1 .. Len(new) : new[b].index = new[c].index => b = c
  /\ \A i : (\E c \in 1 .. Len(new) : new[c].index = i) <=>
              HasCall(i) \/ (e.kind = "call" /\ i = e.index)
  /\ HasCall(e.index) /\ e.kind = "args" =>
       \A c \in 1 .. Len(new) : \E b \in 1 .. Len(calls) :
          /\ new[c].index = calls[b].index
          /\ new[c].args = IF calls[b].index = e.index
                           THEN Append(calls[b].args, e.part) ELSE calls[b].args
  /\ ~ HasCall(e.index) /\ e.kind = "call" =>
       \A c \in 1 .. Len(new) :
          \/ \E b \in 1 .. Len(calls) : new[c] = calls[b] /\ calls[b].index # e.index
          \/ new[c].index = e.index /\ new[c].args = <<e.part>>

\* A sub-agent's parts behind a delta, the one behind the first n events.
Gathered(new, e, n) ==
  /\ DOMAIN new = DOMAIN parts \cup {e.index}
  /\ \A i \in DOMAIN new :
       /\ new[i] \in [named : BOOLEAN, args : Seq(Bits)]
       /\ Deltas(i, n + 1) # {}
       /\ IsSent(new[i].args, i, n + 1)
       /\ new[i].named <=> (\E c \in 1 .. Len(calls) : calls[c].index = i)
                           \/ (e.kind = "call" /\ i = e.index)
  /\ \A k \in 1 .. n + 1 : IsDelta(k) => answer[k].index \in DOMAIN new

LEMMA AssembleKeeps ==
  ASSUME NEW n \in Nat, n + 1 \in 1 .. Len(answer), IsDelta(n + 1),
         calls \in Seq([index : Indices, args : Seq(Bits)]),
         \A b, c \in 1 .. Len(calls) : calls[b].index = calls[c].index => b = c,
         NEW e, e = answer[n + 1], NEW new, new = Assemble(e)
  PROVE  Joined(new, e)
<1> DEFINE Call == [index : Indices, args : Seq(Bits)]
           at == At(e)
           one == [index |-> e.index, args |-> <<e.part>>]
<1>1. e.index \in Indices /\ e.part \in Bits /\ e.kind \in {"call", "args"}
  <2>1. n + 1 \in {j \in 1 .. Len(answer) : IsDelta(j)}
    OBVIOUS
  <2>2. answer[n + 1].index \in Indices /\ answer[n + 1].part \in Bits
    BY <2>1 DEF Indices, Bits
  <2> QED BY <2>2 DEF IsDelta
<1>2. \/ at = 0 /\ \A c \in 1 .. Len(calls) : calls[c].index # e.index
      \/ at \in 1 .. Len(calls) /\ calls[at].index = e.index
  BY SearchFinds
<1>3. new = IF e.kind = "call"
            THEN IF at = 0 THEN Append(calls, one) ELSE [calls EXCEPT ![at] = one]
            ELSE IF at # 0 THEN [calls EXCEPT ![at].args = Append(@, e.part)]
            ELSE IF calls = <<>> THEN calls
            ELSE [calls EXCEPT ![Len(calls)].args = Append(@, e.part)]
  BY DEF Assemble, At
<1>4. one \in Call /\ one.index = e.index /\ one.args = <<e.part>>
  BY <1>1
<1>5. calls \in Seq(Call) /\ Len(calls) \in Nat
  OBVIOUS
<1>6. \A r \in Call : r.index \in Indices /\ r.args \in Seq(Bits)
  OBVIOUS
<1> HIDE DEF at, one, Call
<1>7. \A c \in 1 .. Len(calls) : calls[c] \in Call
  BY <1>5
<1> DEFINE longer(k) == [calls[k] EXCEPT !.args = Append(@, e.part)]
<1>8. ASSUME NEW k \in 1 .. Len(calls)
      PROVE  /\ longer(k) \in Call /\ longer(k).index = calls[k].index
             /\ longer(k).args = Append(calls[k].args, e.part)
  <2>1. calls[k].args \in Seq(Bits) /\ calls[k].index \in Indices
    BY <1>6, <1>7
  <2>2. Append(calls[k].args, e.part) \in Seq(Bits)
    BY <1>1, <2>1
  <2> QED BY <1>7, <2>1, <2>2 DEF Call
<1> HIDE DEF longer
\* Joining at the end.
<1>9. CASE e.kind = "call" /\ at = 0
  <2>1. new = Append(calls, one) /\ \A c \in 1 .. Len(calls) : calls[c].index # e.index
    BY <1>2, <1>3, <1>5, <1>9
  <2>2. /\ new \in Seq(Call) /\ Len(new) = Len(calls) + 1
        /\ \A c \in 1 .. Len(calls) : new[c] = calls[c]
        /\ new[Len(calls) + 1] = one
    BY <1>4, <1>5, <2>1
  <2>3. \A c : c \in 1 .. Len(new) <=> c \in 1 .. Len(calls) \/ c = Len(calls) + 1
    BY <1>5, <2>2
  <2>4. \A b, c \in 1 .. Len(new) : new[b].index = new[c].index => b = c
    BY <1>4, <2>1, <2>2, <2>3
  <2>5. \A i : (\E c \in 1 .. Len(new) : new[c].index = i) <=>
                 HasCall(i) \/ (e.kind = "call" /\ i = e.index)
    BY <1>4, <1>9, <2>2, <2>3 DEF HasCall
  <2>6. \A c \in 1 .. Len(new) :
            \/ \E b \in 1 .. Len(calls) : new[c] = calls[b] /\ calls[b].index # e.index
            \/ new[c].index = e.index /\ new[c].args = <<e.part>>
    BY <1>4, <2>1, <2>2, <2>3
  <2> QED BY <1>9, <2>2, <2>4, <2>5, <2>6 DEF Joined, Call
\* Taking the place of the call at hand.
<1>10. CASE e.kind = "call" /\ at # 0
  <2>1. /\ at \in 1 .. Len(calls) /\ calls[at].index = e.index
        /\ new = [calls EXCEPT ![at] = one]
    BY <1>2, <1>3, <1>10
  <2>2. /\ new \in Seq(Call) /\ Len(new) = Len(calls)
        /\ \A c \in 1 .. Len(calls) : new[c] = IF c = at THEN one ELSE calls[c]
    BY <1>4, <1>5, <2>1
  <2>3. \A c \in 1 .. Len(calls) : new[c].index = calls[c].index
    BY <1>4, <2>1, <2>2
  <2>4. \A b, c \in 1 .. Len(new) : new[b].index = new[c].index => b = c
    BY <2>2, <2>3
  <2>5. \A i : (\E c \in 1 .. Len(new) : new[c].index = i) <=>
                 HasCall(i) \/ (e.kind = "call" /\ i = e.index)
    BY <2>1, <2>2, <2>3 DEF HasCall
  <2>6. HasCall(e.index)
    BY <2>1 DEF HasCall
  <2> QED BY <1>10, <2>2, <2>4, <2>5, <2>6 DEF Joined, Call
\* Lengthening a call: that of the index, or the last one.
<1>11. ASSUME e.kind = "args", NEW k \in 1 .. Len(calls),
              new = [calls EXCEPT ![k].args = Append(@, e.part)],
              HasCall(e.index) => calls[k].index = e.index
       PROVE  /\ new \in Seq(Call)
              /\ \A b, c \in 1 .. Len(new) : new[b].index = new[c].index => b = c
              /\ \A i : (\E c \in 1 .. Len(new) : new[c].index = i) <=>
                          HasCall(i) \/ (e.kind = "call" /\ i = e.index)
              /\ HasCall(e.index) =>
                   \A c \in 1 .. Len(new) : \E b \in 1 .. Len(calls) :
                      /\ new[c].index = calls[b].index
                      /\ new[c].args = IF calls[b].index = e.index
                                       THEN Append(calls[b].args, e.part) ELSE calls[b].args
  <2>1. new = [calls EXCEPT ![k] = longer(k)]
    BY <1>11 DEF longer
  <2>2. /\ new \in Seq(Call) /\ Len(new) = Len(calls)
        /\ \A c \in 1 .. Len(calls) : new[c] = IF c = k THEN longer(k) ELSE calls[c]
    BY <1>5, <1>8, <2>1
  <2>3. \A c \in 1 .. Len(calls) : new[c].index = calls[c].index
    BY <1>8, <2>2
  <2>4. \A b, c \in 1 .. Len(new) : new[b].index = new[c].index => b = c
    BY <2>2, <2>3
  <2>5. \A i : (\E c \in 1 .. Len(new) : new[c].index = i) <=>
                 HasCall(i) \/ (e.kind = "call" /\ i = e.index)
    BY <1>11, <2>2, <2>3 DEF HasCall
  <2>6. ASSUME HasCall(e.index), NEW c \in 1 .. Len(new)
        PROVE  /\ new[c].index = calls[c].index
               /\ new[c].args = IF calls[c].index = e.index
                                THEN Append(calls[c].args, e.part) ELSE calls[c].args
    <3>1. calls[k].index = e.index
      BY <1>11, <2>6
    <3>2. CASE c = k
      BY <1>8, <2>2, <3>1, <3>2
    <3>3. CASE c # k
      BY <2>2, <2>3, <2>6, <3>1, <3>3
    <3> QED BY <3>2, <3>3
  <2> QED BY <2>2, <2>4, <2>5, <2>6
<1>12. CASE e.kind = "args" /\ at # 0
  <2>1. /\ at \in 1 .. Len(calls) /\ calls[at].index = e.index
        /\ new = [calls EXCEPT ![at].args = Append(@, e.part)]
    BY <1>2, <1>3, <1>12
  <2> QED BY <1>11, <1>12, <2>1 DEF Joined, Call
<1>13. CASE e.kind = "args" /\ at = 0 /\ calls # <<>>
  <2>1. /\ Len(calls) \in 1 .. Len(calls)
        /\ new = [calls EXCEPT ![Len(calls)].args = Append(@, e.part)]
    BY <1>3, <1>5, <1>13
  <2>2. ~ HasCall(e.index)
    BY <1>2, <1>5, <1>13 DEF HasCall
  <2> QED BY <1>11, <1>13, <2>1, <2>2 DEF Joined, Call
<1>14. CASE e.kind = "args" /\ at = 0 /\ calls = <<>>
  <2>1. new = calls
    BY <1>3, <1>14
  <2>2. \A i : ~ HasCall(i)
    BY <1>14 DEF HasCall
  <2>3. \A i : (\E c \in 1 .. Len(new) : new[c].index = i) <=> HasCall(i)
    BY <2>1 DEF HasCall
  <2> QED BY <1>5, <1>14, <2>1, <2>2, <2>3 DEF Joined, Call
<1> QED BY <1>1, <1>9, <1>10, <1>12, <1>13, <1>14 DEF Joined, Call

LEMMA GatherKeeps ==
  ASSUME NEW n \in Nat, n + 1 \in 1 .. Len(answer), IsDelta(n + 1),
         Len(got) = n, PartsOK,
         \A c \in 1 .. Len(calls) : calls[c].index \in DOMAIN parts,
         NEW e, e = answer[n + 1], NEW new, new = Gather(e)
  PROVE  Gathered(new, e, n)
<1> DEFINE Part == [named : BOOLEAN, args : Seq(Bits)]
           old == IF e.index \in DOMAIN parts THEN parts[e.index]
                                              ELSE [named |-> FALSE, args |-> <<>>]
           joined == [named |-> old.named \/ e.kind = "call", args |-> Append(old.args, e.part)]
<1>1. e.part \in Bits /\ e.kind \in {"call", "args"}
  BY DEF IsDelta, Bits
<1>2. new = [k \in DOMAIN parts \cup {e.index} |-> IF k = e.index THEN joined ELSE parts[k]]
  BY DEF Gather
<1>3. \A r \in Part : r.named \in BOOLEAN /\ r.args \in Seq(Bits)
  OBVIOUS
<1>4. \A i \in DOMAIN parts : /\ parts[i] \in Part
                              /\ Deltas(i, n) # {}
                              /\ IsSent(parts[i].args, i, n)
                              /\ parts[i].named <=> \E c \in 1 .. Len(calls) : calls[c].index = i
  BY DEF PartsOK, HasCall
<1>5. /\ old \in Part
      /\ IsSent(old.args, e.index, n)
      /\ old.named <=> \E c \in 1 .. Len(calls) : calls[c].index = e.index
  <2>1. CASE e.index \in DOMAIN parts
    <3>1. old = parts[e.index]
      BY <2>1
    <3> HIDE DEF old, Part
    <3> QED BY <1>4, <2>1, <3>1
  <2>2. CASE e.index \notin DOMAIN parts
    <3>1. old = [named |-> FALSE, args |-> <<>>]
      BY <2>2
    <3>2. Deltas(e.index, n) = {}
      BY <2>2 DEF PartsOK, Deltas, IsDelta
    <3>3. ASSUME NEW c \in 1 .. Len(calls) PROVE calls[c].index # e.index
      BY <2>2
    <3>4. [named |-> FALSE, args |-> <<>>] \in Part
      OBVIOUS
    <3> HIDE DEF old, Part
    <3>5. IsSent(old.args, e.index, n)
      BY <3>1, <3>2, FS_EmptySet DEF IsSent
    <3> QED BY <3>1, <3>3, <3>4, <3>5
  <2> QED BY <2>1, <2>2
<1>6. /\ joined.args = Append(old.args, e.part)
      /\ joined.named <=> old.named \/ e.kind = "call"
      /\ joined \in Part
  <2> DEFINE args == old.args
             named == old.named
  <2>1. args \in Seq(Bits) /\ named \in BOOLEAN
    BY <1>3, <1>5
  <2> HIDE DEF args, named
  <2>2. Append(args, e.part) \in Seq(Bits)
    BY <1>1, <2>1
  <2>3. joined = [named |-> named \/ e.kind = "call", args |-> Append(args, e.part)]
    BY DEF args, named
  <2> QED BY <2>1, <2>2, <2>3 DEF args, named
<1> HIDE DEF Part, old, joined
<1>7. IsSent(joined.args, e.index, n + 1) /\ Deltas(e.index, n + 1) # {}
  <2>1. old.args \in Seq(Bits)
    BY <1>3, <1>5
  <2>2. IsSent(Append(old.args, answer[n + 1].part), e.index, n + 1)
    BY <1>1, <1>5, <2>1, OneMoreDelta
  <2>3. n + 1 \in Deltas(e.index, n + 1)
    BY DEF Deltas, IsDelta
  <2> QED BY <1>6, <2>2, <2>3
<1>8. ASSUME NEW i \in DOMAIN parts, i # e.index
      PROVE  Deltas(i, n + 1) # {} /\ IsSent(parts[i].args, i, n + 1)
  <2>1. ~ (IsDelta(n + 1) /\ answer[n + 1].index = i)
    BY <1>8
  <2>2. Deltas(i, n + 1) = Deltas(i, n)
    BY <2>1, DeltasGrow
  <2>3. IsSent(parts[i].args, i, n)
    BY <1>4
  <2> QED BY <1>4, <2>1, <2>2, <2>3, OthersStay
<1>9. DOMAIN new = DOMAIN parts \cup {e.index}
  BY <1>2
<1>10. ASSUME NEW i \in DOMAIN new
       PROVE  /\ new[i] \in Part
              /\ Deltas(i, n + 1) # {}
              /\ IsSent(new[i].args, i, n + 1)
              /\ new[i].named <=> (\E c \in 1 .. Len(calls) : calls[c].index = i)
                                  \/ (e.kind = "call" /\ i = e.index)
  <2>1. CASE i = e.index
    <3>1. new[i] = joined
      BY <1>2, <2>1
    <3> QED BY <1>5, <1>6, <1>7, <2>1, <3>1
  <2>2. CASE i # e.index
    <3>1. new[i] = parts[i] /\ i \in DOMAIN parts
      BY <1>2, <2>2
    <3> QED BY <1>4, <1>8, <2>2, <3>1
  <2> QED BY <2>1, <2>2
<1>11. ASSUME NEW k \in 1 .. n + 1, IsDelta(k)
       PROVE  answer[k].index \in DOMAIN new
  <2>1. CASE k = n + 1
    BY <1>9, <2>1
  <2>2. CASE k \in 1 .. n
    BY <1>9, <1>11, <2>2 DEF PartsOK
  <2> QED BY <2>1, <2>2
<1> QED BY <1>9, <1>10, <1>11 DEF Gathered, Part

\* What is read off the answer stays while the answer does.
LEMMA SameAnswer ==
  ASSUME answer' = answer
  PROVE  /\ Bits' = Bits /\ Indices' = Indices
         /\ NamedFirst' <=> NamedFirst
         /\ \A k : IsDelta(k)' <=> IsDelta(k)
         /\ \A i, n : Deltas(i, n)' = Deltas(i, n)
         /\ \A args, i, n : IsSent(args, i, n)' <=> IsSent(args, i, n)
<1>1. \A k : IsDelta(k)' <=> IsDelta(k)
  BY DEF IsDelta
<1>2. Bits' = Bits /\ Indices' = Indices
  BY DEF Bits, Indices, IsDelta
<1>3. \A i, n : Deltas(i, n)' = Deltas(i, n)
  BY DEF Deltas
<1>4. \A args, i, n : IsSent(args, i, n)' <=> IsSent(args, i, n)
  BY <1>3 DEF IsSent
<1>5. NamedFirst' <=> NamedFirst
  BY <1>3 DEF NamedFirst
<1> QED BY <1>1, <1>2, <1>3, <1>4, <1>5

\* One more event that is no delta, or the delta of a call.
LEMMA EventKeeps ==
  ASSUME NEW n \in Nat, n + 1 \in 1 .. Len(answer), Len(got) = n, Len(got') = n + 1,
         answer' = answer, PartsOK, CallsOK, FormatOK,
         IF IsDelta(n + 1) THEN calls' = Assemble(answer[n + 1]) /\ parts' = Gather(answer[n + 1])
                           ELSE calls' = calls /\ parts' = parts
  PROVE  PartsOK' /\ CallsOK' /\ FormatOK'
<1> DEFINE e == answer[n + 1]
           Call == [index : Indices, args : Seq(Bits)]
           Part == [named : BOOLEAN, args : Seq(Bits)]
           HasCallNow(i) == \E c \in 1 .. Len(calls') : calls'[c].index = i
\* It is enough to look at the first n + 1 events.
<1>1. ASSUME \A i \in DOMAIN parts' : /\ parts'[i] \in Part
                                      /\ Deltas(i, n + 1) # {}
                                      /\ IsSent(parts'[i].args, i, n + 1)
                                      /\ parts'[i].named <=> HasCallNow(i),
             \A k \in 1 .. n + 1 : IsDelta(k) => answer[k].index \in DOMAIN parts',
             calls' \in Seq(Call),
             \A c \in 1 .. Len(calls') : calls'[c].index \in DOMAIN parts',
             \A b, c \in 1 .. Len(calls') : calls'[b].index = calls'[c].index => b = c,
             \A k \in 1 .. n + 1 : answer[k].kind = "call" => HasCallNow(answer[k].index),
             NamedFirst =>
               /\ \A k \in 1 .. n + 1 : IsDelta(k) => HasCallNow(answer[k].index)
               /\ \A c \in 1 .. Len(calls') : IsSent(calls'[c].args, calls'[c].index, n + 1)
      PROVE  PartsOK' /\ CallsOK' /\ FormatOK'
  <2> HIDE DEF Part, Call
  <2>1. ASSUME NEW i \in DOMAIN parts'
        PROVE  /\ parts'[i] \in [named : BOOLEAN, args : Seq(Bits')]
               /\ Deltas(i, Len(got))' # {}
               /\ IsSent(parts[i].args, i, Len(got))'
               /\ parts'[i].named <=> HasCall(i)'
    <3>1. parts'[i] \in [named : BOOLEAN, args : Seq(Bits')]
      BY <1>1, SameAnswer DEF Part
    <3>2. Deltas(i, Len(got))' # {}
      BY <1>1, SameAnswer
    <3>3. IsSent(parts[i].args, i, Len(got))'
      BY <1>1, SameAnswer
    <3>4. parts'[i].named <=> HasCall(i)'
      BY <1>1 DEF HasCall
    <3> QED BY <3>1, <3>2, <3>3, <3>4
  <2>2. \A k \in 1 .. Len(got') : IsDelta(k)' => answer'[k].index \in DOMAIN parts'
    BY <1>1, SameAnswer
  <2>3. PartsOK'
    BY <2>1, <2>2 DEF PartsOK
  <2>4. CallsOK'
    BY <1>1, SameAnswer DEF CallsOK, HasCall, Call
  <2>5. FormatOK'
    BY <1>1, SameAnswer DEF FormatOK, HasCall
  <2> QED BY <2>3, <2>4, <2>5
<1>2. CASE ~ IsDelta(n + 1)
  <2>1. \A i : Deltas(i, n + 1) = Deltas(i, n)
    BY <1>2, DeltasGrow
  <2>2. calls' = calls /\ parts' = parts
    BY <1>2
  <2>3. \A args, i : IsSent(args, i, n) => IsSent(args, i, n + 1)
    BY <1>2, OthersStay
  <2>4. \A k \in 1 .. n + 1 : k = n + 1 \/ k \in 1 .. n
    OBVIOUS
  <2>5. answer[n + 1].kind # "call"
    BY <1>2 DEF IsDelta
  <2> HIDE DEF Part, Call
  <2>6. ASSUME NEW i \in DOMAIN parts'
        PROVE  /\ parts'[i] \in Part
               /\ Deltas(i, n + 1) # {}
               /\ IsSent(parts'[i].args, i, n + 1)
               /\ parts'[i].named <=> HasCallNow(i)
    BY <2>1, <2>2, <2>3 DEF PartsOK, HasCall, Part
  <2>7. \A k \in 1 .. n + 1 : IsDelta(k) => answer[k].index \in DOMAIN parts'
    BY <1>2, <2>2, <2>4 DEF PartsOK
  <2>8. /\ calls' \in Seq(Call)
        /\ \A c \in 1 .. Len(calls') : calls'[c].index \in DOMAIN parts'
        /\ \A b, c \in 1 .. Len(calls') : calls'[b].index = calls'[c].index => b = c
    BY <2>2 DEF CallsOK, Call
  <2>9. \A k \in 1 .. n + 1 : answer[k].kind = "call" => HasCallNow(answer[k].index)
    BY <2>2, <2>4, <2>5 DEF CallsOK, HasCall
  <2>10. ASSUME NamedFirst
         PROVE  /\ \A k \in 1 .. n + 1 : IsDelta(k) => HasCallNow(answer[k].index)
                /\ \A c \in 1 .. Len(calls') : IsSent(calls'[c].args, calls'[c].index, n + 1)
    BY <1>2, <2>2, <2>3, <2>4, <2>10 DEF FormatOK, HasCall
  <2> QED BY <1>1, <2>6, <2>7, <2>8, <2>9, <2>10
<1>3. CASE IsDelta(n + 1)
  <2>1. /\ calls \in Seq(Call)
        /\ \A c \in 1 .. Len(calls) : calls[c].index \in DOMAIN parts
        /\ \A b, c \in 1 .. Len(calls) : calls[b].index = calls[c].index => b = c
    BY DEF CallsOK
  <2>2. calls' = Assemble(e) /\ parts' = Gather(e) /\ e.kind \in {"call", "args"}
    BY <1>3 DEF IsDelta
  <2>3. /\ calls' \in Seq(Call)
        /\ \A b, c \in 1 .. Len(calls') : calls'[b].index = calls'[c].index => b = c
        /\ \A i : HasCallNow(i) <=> HasCall(i) \/ (e.kind = "call" /\ i = e.index)
        /\ HasCall(e.index) /\ e.kind = "args" =>
             \A c \in 1 .. Len(calls') : \E b \in 1 .. Len(calls) :
                /\ calls'[c].index = calls[b].index
                /\ calls'[c].args = IF calls[b].index = e.index
                                    THEN Append(calls[b].args, e.part) ELSE calls[b].args
        /\ ~ HasCall(e.index) /\ e.kind = "call" =>
             \A c \in 1 .. Len(calls') :
                \/ \E b \in 1 .. Len(calls) : calls'[c] = calls[b] /\ calls[b].index # e.index
                \/ calls'[c].index = e.index /\ calls'[c].args = <<e.part>>
    <3>1. Joined(calls', e)
      BY <1>3, <2>1, <2>2, AssembleKeeps
    <3> QED BY <3>1 DEF Joined
  <2>4. /\ DOMAIN parts' = DOMAIN parts \cup {e.index}
        /\ \A i \in DOMAIN parts' :
             /\ parts'[i] \in Part
             /\ Deltas(i, n + 1) # {}
             /\ IsSent(parts'[i].args, i, n + 1)
             /\ parts'[i].named <=> (\E c \in 1 .. Len(calls) : calls[c].index = i)
                                    \/ (e.kind = "call" /\ i = e.index)
        /\ \A k \in 1 .. n + 1 : IsDelta(k) => answer[k].index \in DOMAIN parts'
    <3>1. Gathered(parts', e, n)
      BY <1>3, <2>1, <2>2, GatherKeeps
    <3> QED BY <3>1 DEF Gathered
  <2> HIDE DEF e, Call, Part
  <2>5. ASSUME NEW i \in DOMAIN parts' PROVE parts'[i].named <=> HasCallNow(i)
    <3>1. parts'[i].named <=> (\E c \in 1 .. Len(calls) : calls[c].index = i)
                              \/ (e.kind = "call" /\ i = e.index)
      BY <2>4
    <3>2. HasCallNow(i) <=> (\E c \in 1 .. Len(calls) : calls[c].index = i)
                              \/ (e.kind = "call" /\ i = e.index)
      BY <2>3 DEF HasCall
    <3> QED BY <3>1, <3>2, Zenon
  <2>6. \A c \in 1 .. Len(calls') : calls'[c].index \in DOMAIN parts'
    BY <2>1, <2>3, <2>4 DEF HasCall
  <2>7. ASSUME NEW k \in 1 .. n + 1, answer[k].kind = "call"
        PROVE  HasCallNow(answer[k].index)
    <3>1. CASE k \in 1 .. n
      BY <2>3, <2>7, <3>1 DEF CallsOK
    <3>2. CASE k = n + 1
      BY <2>3, <2>7, <3>2 DEF e
    <3> QED BY <3>1, <3>2
  <2>8. ASSUME NamedFirst
        PROVE  /\ \A k \in 1 .. n + 1 : IsDelta(k) => HasCallNow(answer[k].index)
               /\ \A c \in 1 .. Len(calls') : IsSent(calls'[c].args, calls'[c].index, n + 1)
    <3>1. e.kind = "call" <=> Deltas(e.index, n) = {}
      <4>1. e.kind = "call" <=> Deltas(e.index, (n + 1) - 1) = {}
        BY <1>3, <2>8 DEF NamedFirst, IsDelta, e
      <4>2. (n + 1) - 1 = n
        OBVIOUS
      <4> QED BY <4>1, <4>2
    <3>2. /\ \A k \in 1 .. n : IsDelta(k) => HasCall(answer[k].index)
          /\ \A c \in 1 .. Len(calls) : IsSent(calls[c].args, calls[c].index, n)
      BY <2>8 DEF FormatOK
    <3>3. e.kind = "call" <=> ~ HasCall(e.index)
      <4>1. ASSUME e.kind = "call" PROVE ~ HasCall(e.index)
        BY <2>1, <3>1, <4>1 DEF HasCall, PartsOK
      <4>2. ASSUME e.kind # "call" PROVE HasCall(e.index)
        <5>1. PICK k \in Deltas(e.index, n) : TRUE
          BY <3>1, <4>2
        <5>2. k \in 1 .. n /\ IsDelta(k) /\ answer[k].index = e.index
          BY <5>1 DEF Deltas, IsDelta
        <5> QED BY <3>2, <5>2
      <4> QED BY <4>1, <4>2
    <3>4. \A k \in 1 .. n + 1 : IsDelta(k) => HasCallNow(answer[k].index)
      <4> SUFFICES ASSUME NEW k \in 1 .. n + 1, IsDelta(k)
                   PROVE  HasCallNow(answer[k].index)
        OBVIOUS
      <4>1. CASE k \in 1 .. n
        BY <2>3, <3>2, <4>1
      <4>2. CASE k = n + 1
        BY <2>2, <2>3, <3>3, <4>2 DEF e
      <4> QED BY <4>1, <4>2
    <3>5. ASSUME NEW c \in 1 .. Len(calls')
          PROVE  IsSent(calls'[c].args, calls'[c].index, n + 1)
      <4>0. ASSUME NEW b \in 1 .. Len(calls)
            PROVE  calls[b].args \in Seq(Bits)
        <5>1. calls[b] \in Call
          BY <2>1
        <5> QED BY <5>1 DEF Call
      <4>1. CASE e.kind = "args"
        <5>1. PICK b \in 1 .. Len(calls) :
                /\ calls'[c].index = calls[b].index
                /\ calls'[c].args = IF calls[b].index = e.index
                                    THEN Append(calls[b].args, e.part) ELSE calls[b].args
          BY <2>3, <3>3, <4>1
        <5>2. CASE calls[b].index = e.index
          <6>1. e.part \in Bits
            BY <1>3 DEF Bits, e
          <6>2. IsSent(calls[b].args, e.index, n)
            BY <3>2, <5>2
          <6>3. IsSent(Append(calls[b].args, answer[n + 1].part), e.index, n + 1)
            BY <1>3, <4>0, <6>1, <6>2, OneMoreDelta DEF e
          <6> QED BY <5>1, <5>2, <6>3 DEF e
        <5>3. CASE calls[b].index # e.index
          <6>1. ~ (IsDelta(n + 1) /\ answer[n + 1].index = calls[b].index)
            BY <5>3 DEF e
          <6> QED BY <3>2, <5>1, <5>3, <6>1, OthersStay
        <5> QED BY <5>2, <5>3
      <4>2. CASE e.kind = "call"
        <5>1. \/ \E b \in 1 .. Len(calls) : calls'[c] = calls[b] /\ calls[b].index # e.index
              \/ calls'[c].index = e.index /\ calls'[c].args = <<e.part>>
          BY <2>3, <3>3, <4>2
        <5>2. CASE calls'[c].index = e.index /\ calls'[c].args = <<e.part>>
          <6>1. e.part \in Bits
            BY <1>3 DEF Bits, e
          <6>2. <<>> \in Seq(Bits) /\ Append(<<>>, e.part) = <<e.part>>
            BY <6>1
          <6>3. IsSent(<<>>, e.index, n)
            BY <3>1, <4>2, FS_EmptySet DEF IsSent
          <6>4. IsSent(Append(<<>>, answer[n + 1].part), e.index, n + 1)
            BY <1>3, <6>1, <6>2, <6>3, OneMoreDelta DEF e
          <6> QED BY <5>2, <6>2, <6>4 DEF e
        <5>3. ASSUME NEW b \in 1 .. Len(calls), calls'[c] = calls[b], calls[b].index # e.index
              PROVE  IsSent(calls'[c].args, calls'[c].index, n + 1)
          <6>1. ~ (IsDelta(n + 1) /\ answer[n + 1].index = calls[b].index)
            BY <5>3 DEF e
          <6> QED BY <3>2, <5>3, <6>1, OthersStay
        <5> QED BY <5>1, <5>2, <5>3
      <4> QED BY <2>2, <4>1, <4>2
    <3> QED BY <3>4, <3>5
  <2>9. \A i \in DOMAIN parts' : /\ parts'[i] \in Part
                                 /\ Deltas(i, n + 1) # {}
                                 /\ IsSent(parts'[i].args, i, n + 1)
                                 /\ parts'[i].named <=> HasCallNow(i)
    BY <2>4, <2>5
  <2> QED BY <1>1, <2>3, <2>4, <2>6, <2>7, <2>8, <2>9
<1> QED BY <1>2, <1>3

\* Nothing has come yet.
LEMMA NothingAssembled ==
  ASSUME got' = <<>>, calls' = <<>>, parts' = <<>>
  PROVE  PartsOK' /\ CallsOK' /\ FormatOK'
  BY DEF PartsOK, CallsOK, FormatOK

\* A step that leaves the answer and what is made of it alone.
LEMMA AssembledStays ==
  ASSUME PartsOK, CallsOK, FormatOK, answer' = answer, Len(got') = Len(got),
         calls' = calls, parts' = parts
  PROVE  PartsOK' /\ CallsOK' /\ FormatOK'
<1>1. \A i : HasCall(i)' <=> HasCall(i)
  BY DEF HasCall
<1>2. PartsOK'
  BY <1>1, SameAnswer DEF PartsOK
<1>3. CallsOK'
  BY <1>1, SameAnswer DEF CallsOK
<1>4. FormatOK'
  BY <1>1, SameAnswer DEF FormatOK
<1> QED BY <1>2, <1>3, <1>4

LEMMA AssembledHolds == StreamInit => Assembled
  BY DEF StreamInit, Assembled, WithinAnswer, PartsOK, CallsOK, FormatOK

LEMMA AssembledKeeps ==
  StreamIInv /\ Delivery /\ Assembled /\ [StreamNext]_streamVars => Assembled'
<1> SUFFICES ASSUME StreamIInv, Delivery, Assembled, [StreamNext]_streamVars PROVE Assembled'
  OBVIOUS
<1>0. Numbers /\ PartsOK /\ CallsOK /\ FormatOK /\ WithinAnswer
  BY TypesApart DEF StreamIInv, Assembled
<1>a. Len(answer) \in Nat
  BY <1>0, StreamAssumption DEF Numbers
<1> USE <1>a DEF WithinAnswer, requestVars, attemptVars, filterVars, agentVars, callVars,
      blockVars
<1>s. ASSUME answer' = answer, got' = got, calls' = calls, parts' = parts, WithinAnswer'
      PROVE  Assembled'
  BY <1>0, <1>s, AssembledStays DEF Assembled
<1>1. CASE StreamBlocking
  <2>1. got' = <<>> /\ calls' = <<>> /\ parts' = <<>> /\ client' = "attempt"
    BY <1>1 DEF StreamBlocking
  <2> QED BY <2>1, NothingAssembled DEF Assembled
<1>2. ASSUME NEW kind \in Blocking, SendBlocking(kind) \/ Decline(kind)
      PROVE  Assembled'
  BY <1>0, <1>2, <1>s DEF SendBlocking, Decline
<1>3. CASE Open
  BY <1>0, <1>3, <1>s DEF Open
<1>4. CASE NoHandle
  BY <1>0, <1>4, <1>s DEF NoHandle, Retry, MayRetry, Fail
<1>5. CASE Wake
  BY <1>0, <1>5, <1>s DEF Wake
<1>6. CASE StatusLine
  BY <1>0, <1>6, <1>s DEF StatusLine
<1>7. CASE Chunk
  BY <1>0, <1>7, <1>s DEF Chunk
<1>8. CASE EndOfTransfer
  BY <1>0, <1>8, <1>s DEF EndOfTransfer
<1>9. CASE ParseDone
  BY <1>0, <1>9, <1>s DEF ParseDone
<1>10. CASE ParseEvent
  <2>1. /\ client = "parsing" /\ client' = "parsing" /\ Complete /\ answer' = answer
        /\ got' = Append(got, [attempt |-> retries, event |-> parsed + 1])
        /\ sent' = sent
    BY <1>10 DEF ParseEvent
  <2>2. Len(got) = parsed /\ parsed \in Nat /\ sent \in Nat /\ sent <= 2 * Len(answer)
    BY <1>0, <2>1 DEF Delivery, Numbers
  <2>3. parsed + 1 \in 1 .. Len(answer)
    BY <2>1, <2>2 DEF Complete
  <2>4. Len(got') = parsed + 1
    <3> DEFINE r == [attempt |-> retries, event |-> parsed + 1]
               S == [attempt : 0 .. MaxRetries, event : Nat]
    <3>1. r \in S /\ got \in Seq(S) /\ got' = Append(got, r)
      BY <1>0, <2>1 DEF Delivery, Numbers
    <3> HIDE DEF r, S
    <3> QED BY <2>2, <3>1
  <2>5. IF IsDelta(parsed + 1)
        THEN calls' = Assemble(answer[parsed + 1]) /\ parts' = Gather(answer[parsed + 1])
        ELSE calls' = calls /\ parts' = parts
    BY <1>10 DEF ParseEvent, IsDelta, Event, OnText, OnToolCall, OnFinish
  <2>6. PartsOK' /\ CallsOK' /\ FormatOK'
    BY <1>0, <2>1, <2>2, <2>3, <2>4, <2>5, EventKeeps
  <2> QED BY <2>1, <2>2, <2>6 DEF Assembled
<1>11. CASE ParseRest
  BY <1>0, <1>11, <1>s DEF ParseRest
<1>12. CASE Performed
  BY <1>0, <1>12, <1>s DEF Performed, KeepContent, RetryBroken, RetryStatus, GiveUp, Succeed,
      Retry, Fail
<1>13. CASE Return
  BY <1>0, <1>13, <1>s DEF Return
<1>14. CASE Post
  BY <1>0, <1>14, <1>s DEF Post
<1>15. CASE PostRetry
  BY <1>0, <1>15, <1>s DEF PostRetry
<1>16. CASE PostReturn
  BY <1>0, <1>16, <1>s DEF PostReturn
<1>17. CASE CancelStream
  BY <1>0, <1>17, <1>s DEF CancelStream
<1>18. CASE StreamRest \/ UNCHANGED streamVars
  BY <1>0, <1>18, <1>s DEF StreamRest, streamVars
<1> QED
  BY <1>1, <1>2, <1>3, <1>4, <1>5, <1>6, <1>7, <1>8, <1>9, <1>10, <1>11, <1>12,
     <1>13, <1>14, <1>15, <1>16, <1>17, <1>18 DEF StreamNext, ClientThread, SendMessage, SearchWeb,
     FetchWeb, Blocking

LEMMA AssembledIsSent == ASSUME Assembled PROVE CallsAreAsSent
<1> USE DEF Assembled
<1>1. \A c : c \in ToSet(calls) <=> \E k \in 1 .. Len(calls) : c = calls[k]
  <2>1. DOMAIN calls = 1 .. Len(calls)
    BY DEF CallsOK
  <2> QED BY <2>1 DEF ToSet
<1>2. {c.index : c \in ToSet(calls)} = {i \in DOMAIN parts : parts[i].named}
  <2>1. ASSUME NEW c \in ToSet(calls)
        PROVE  c.index \in DOMAIN parts /\ parts[c.index].named
    <3>1. PICK k \in 1 .. Len(calls) : c = calls[k]
      BY <1>1
    <3>2. c.index \in DOMAIN parts /\ HasCall(c.index)
      BY <3>1 DEF CallsOK, HasCall
    <3> QED BY <3>2 DEF PartsOK
  <2>2. ASSUME NEW i \in DOMAIN parts, parts[i].named
        PROVE  \E c \in ToSet(calls) : i = c.index
    <3>1. HasCall(i)
      BY <2>2 DEF PartsOK
    <3> QED BY <1>1, <3>1 DEF HasCall
  <2> QED BY <2>1, <2>2
<1>3. \A k \in 1 .. Len(got) : answer[k].kind = "call" =>
        \E c \in ToSet(calls) : c.index = answer[k].index
  BY <1>1 DEF CallsOK, HasCall
<1>4. IsInjective([k \in DOMAIN calls |-> calls[k].index])
  <2>1. DOMAIN calls = 1 .. Len(calls)
    BY DEF CallsOK
  <2> QED BY <2>1 DEF IsInjective, CallsOK
<1>5. NamedFirst => \A c \in ToSet(calls) : IsSent(c.args, c.index, Len(got))
  BY <1>1 DEF FormatOK
<1>6. \A i \in DOMAIN parts : IsSent(parts[i].args, i, Len(got))
  BY DEF PartsOK
<1> QED BY <1>2, <1>3, <1>4, <1>5, <1>6 DEF CallsAreAsSent

----------------------------------------------------------------------------
\* The text

Place == Nat \X Nat

\* The last marker of these tokens opens a wrapper; one of them begins DSML.
OpenAtEnd(tokens) ==
  \E q \in tokens : /\ Token(q) = "open"
                    /\ \A r \in tokens : Token(r) \in {"open", "close"} => ~ Before(q, r)
BeginsDsml(tokens) == \E q \in tokens : Token(q) = "dsml"

Rank(tokens, p) == Cardinality({q \in Visible(tokens) : ~ Before(p, q)})

LEMMA BeforeIsAnOrder ==
  ASSUME NEW p \in Place, NEW q \in Place
  PROVE  /\ ~ Before(p, p)
         /\ Before(p, q) => ~ Before(q, p)
         /\ p # q => Before(p, q) \/ Before(q, p)
  BY DEF Before, Place

\* Induction over the numbers up to some n.
LEMMA UpTo ==
  ASSUME NEW n \in Nat, NEW Good, 0 \in Good,
         \A m \in 0 .. n - 1 : m \in Good => m + 1 \in Good
  PROVE  0 .. n \subseteq Good
<1> DEFINE Bad == {m \in 0 .. n : m \notin Good}
<1> SUFFICES ASSUME Bad # {} PROVE FALSE
  OBVIOUS
<1>0. Bad \subseteq Nat /\ \A k : k \in Bad <=> k \in 0 .. n /\ k \notin Good
  OBVIOUS
<1> HIDE DEF Bad
<1>1. PICK k \in Bad : \A j \in Bad : k <= j
  BY <1>0, LeastNumber
<1>2. k \in 0 .. n /\ k \notin Good /\ k # 0
  BY <1>0, <1>1
<1>3. k - 1 \in 0 .. n - 1 /\ k - 1 \in 0 .. n /\ ~ (k <= k - 1)
  BY <1>2
<1>4. k - 1 \in Good
  BY <1>0, <1>1, <1>3
<1>5. (k - 1) + 1 = k
  BY <1>2
<1>6. (k - 1) + 1 \in Good
  BY <1>3, <1>4
<1> QED BY <1>2, <1>5, <1>6

\* A token behind the others changes nothing for them, and is seen as the
\* markers before it say.
LEMMA VisibleGrows ==
  ASSUME NEW T \in SUBSET Place, NEW x \in Place, \A p \in T : Before(p, x)
  PROVE  /\ OpenAtEnd(T \cup {x}) <=>
              Token(x) = "open" \/ (Token(x) # "close" /\ OpenAtEnd(T))
         /\ BeginsDsml(T \cup {x}) <=> BeginsDsml(T) \/ Token(x) = "dsml"
         /\ Visible(T \cup {x}) =
              IF Token(x) = "open" \/ OpenAtEnd(T) \/ BeginsDsml(T \cup {x})
              THEN Visible(T) ELSE Visible(T) \cup {x}
<1> DEFINE U == T \cup {x}
<1>1. ~ Before(x, x) /\ x \notin T /\ \A p \in T : ~ Before(x, p)
  BY BeforeIsAnOrder
<1>2. \A p \in T : Marks(U, p) = Marks(T, p)
  BY <1>1 DEF Marks
<1>3. Marks(U, x) = {q \in T : Token(q) \in {"open", "close"}}
  BY <1>1 DEF Marks
<1>4. Wrapped(U, x) <=> OpenAtEnd(T)
  BY <1>3 DEF Wrapped, OpenAtEnd
<1>5. \A p \in T : Wrapped(U, p) <=> Wrapped(T, p)
  BY <1>2 DEF Wrapped
<1>6. OpenAtEnd(U) <=> Token(x) = "open" \/ (Token(x) # "close" /\ OpenAtEnd(T))
  <2>1. CASE Token(x) = "open"
    BY <1>1, <2>1 DEF OpenAtEnd
  <2>2. CASE Token(x) = "close"
    BY <1>1, <2>2 DEF OpenAtEnd
  <2>3. CASE Token(x) \notin {"open", "close"}
    BY <1>1, <2>3 DEF OpenAtEnd
  <2> QED BY <2>1, <2>2, <2>3
<1>7. BeginsDsml(U) <=> BeginsDsml(T) \/ Token(x) = "dsml"
  BY DEF BeginsDsml
<1>8. ASSUME NEW p \in T PROVE p \in Visible(U) <=> p \in Visible(T)
  BY <1>5 DEF Visible
<1>9. x \in Visible(U) <=> ~ (Token(x) = "open" \/ OpenAtEnd(T) \/ BeginsDsml(U))
  <2>1. (\A q \in U : Token(q) = "dsml" => Before(x, q)) <=> ~ BeginsDsml(U)
    BY <1>1 DEF BeginsDsml
  <2> QED BY <1>4, <2>1 DEF Visible
<1>10. Visible(U) \subseteq U /\ Visible(T) \subseteq T
  BY DEF Visible
<1> HIDE DEF U
<1>11. U = T \cup {x}
  BY DEF U
<1>12. Visible(U) = IF Token(x) = "open" \/ OpenAtEnd(T) \/ BeginsDsml(U)
                    THEN Visible(T) ELSE Visible(T) \cup {x}
  <2>1. CASE Token(x) = "open" \/ OpenAtEnd(T) \/ BeginsDsml(U)
    BY <1>1, <1>8, <1>9, <1>10, <1>11, <2>1
  <2>2. CASE ~ (Token(x) = "open" \/ OpenAtEnd(T) \/ BeginsDsml(U))
    BY <1>1, <1>8, <1>9, <1>10, <1>11, <2>2
  <2> QED BY <2>1, <2>2
<1> QED BY <1>6, <1>7, <1>12 DEF U

\* What is seen and its ranks, when one more token is seen behind the others.
LEMMA ShownGrows ==
  ASSUME NEW T \in SUBSET Place, NEW x \in Place, IsFiniteSet(T), \A p \in T : Before(p, x),
         NEW s \in Seq(STRING), Token(x) \in STRING, IsShown(s, T),
         ~ (Token(x) = "open" \/ OpenAtEnd(T) \/ BeginsDsml(T \cup {x}))
  PROVE  IsShown(Append(s, Token(x)), T \cup {x})
<1> DEFINE U == T \cup {x}
           V == Visible(T)
           size == Cardinality(V)
           more == Append(s, Token(x))
<1>1. Visible(U) = V \cup {x}
  BY VisibleGrows
<1>2. V \subseteq T /\ x \notin V /\ \A p \in V : ~ Before(x, p) /\ Before(p, x) /\ p \in Place
  BY BeforeIsAnOrder DEF Visible
<1>3. IsFiniteSet(V) /\ size \in Nat
  BY <1>2, FS_Subset, FS_CardinalityType
<1>4. Cardinality(V \cup {x}) = size + 1
  BY <1>2, <1>3, FS_AddElement
<1>5. Len(s) = size /\ \A p \in V : s[Rank(T, p)] = Token(p)
  BY DEF IsShown, Rank
<1>6. /\ Len(more) = size + 1 /\ more[size + 1] = Token(x)
      /\ \A j \in 1 .. size : more[j] = s[j]
  BY <1>3, <1>5
<1>7. ASSUME NEW p \in V
      PROVE  Rank(U, p) = Rank(T, p) /\ Rank(T, p) \in 1 .. size
  <2>1. {q \in V \cup {x} : ~ Before(p, q)} = {q \in V : ~ Before(p, q)}
    BY <1>2
  <2>2. p \in {q \in V : ~ Before(p, q)} /\ {q \in V : ~ Before(p, q)} \subseteq V
    BY <1>2, BeforeIsAnOrder
  <2>3. /\ IsFiniteSet({q \in V : ~ Before(p, q)}) /\ Rank(T, p) <= size
        /\ Rank(T, p) \in Nat /\ Rank(T, p) # 0
    <3> DEFINE W == {q \in V : ~ Before(p, q)}
    <3>1. IsFiniteSet(W) /\ Cardinality(W) <= size
      BY <1>3, <2>2, FS_Subset
    <3>2. Cardinality(W) \in Nat /\ Cardinality(W) # 0
      BY <2>2, <3>1, FS_CardinalityType, FS_EmptySet
    <3> QED BY <3>1, <3>2 DEF Rank
  <2>4. Rank(U, p) = Rank(T, p)
    <3>1. {q \in Visible(U) : ~ Before(p, q)} = {q \in V : ~ Before(p, q)}
      BY <1>1, <2>1, Zenon
    <3> QED BY <3>1, Zenon DEF Rank
  <2> HIDE DEF size
  <2>5. Rank(T, p) \in 1 .. size
    BY <1>3, <2>3
  <2> QED BY <2>4, <2>5
<1>8. Rank(U, x) = size + 1
  <2>1. {q \in V \cup {x} : ~ Before(x, q)} = V \cup {x}
    BY <1>2, BeforeIsAnOrder
  <2> QED BY <1>1, <1>4, <2>1 DEF Rank
<1> HIDE DEF more, U, V
<1>9. \A p \in V \cup {x} : more[Rank(U, p)] = Token(p)
  BY <1>5, <1>6, <1>7, <1>8
<1>10. IsShown(more, U)
  BY <1>1, <1>4, <1>6, <1>9 DEF IsShown, Rank
<1> QED BY <1>10 DEF more, U

\* The recursion of the filter has a solution: what it says of a run holds.
LEMMA FilterIsRun ==
  ASSUME NEW text, Len(text) \in Nat, NEW inside
  PROVE  LET run == FilterRun(text, inside)
         IN  /\ run[0] = [inside |-> inside, out |-> <<>>]
             /\ \A n \in 1 .. Len(text) : run[n] = filterToken(run[n - 1], text[n])
<1> DEFINE start == [inside |-> inside, out |-> <<>>]
           IsRun(f, m) == f = [n \in 0 .. m |->
                                 IF n = 0 THEN start ELSE filterToken(f[n - 1], text[n])]
           Good == {m \in 0 .. Len(text) : \E f : IsRun(f, m)}
<1>1. 0 \in Good
  <2> DEFINE f == [n \in 0 .. 0 |-> start]
  <2>1. f = [n \in 0 .. 0 |-> IF n = 0 THEN start ELSE filterToken(f[n - 1], text[n])]
    <3> HIDE DEF start
    <3> QED OBVIOUS
  <2>2. IsRun(f, 0)
    BY <2>1, Zenon
  <2>3. 0 \in 0 .. Len(text)
    OBVIOUS
  <2> HIDE DEF f, IsRun
  <2> QED BY <2>2, <2>3
<1>2. ASSUME NEW m \in 0 .. Len(text) - 1, m \in Good PROVE m + 1 \in Good
  <2> HIDE DEF IsRun
  <2>1. PICK f : IsRun(f, m)
    BY <1>2
  <2> DEFINE next == filterToken(f[m], text[m + 1])
             g == [n \in 0 .. m + 1 |-> IF n <= m THEN f[n] ELSE next]
  <2>2. f = [n \in 0 .. m |-> IF n = 0 THEN start ELSE filterToken(f[n - 1], text[n])]
    BY <2>1 DEF IsRun
  <2>3. f[0] = start /\ \A n \in 1 .. m : f[n] = filterToken(f[n - 1], text[n])
    <3> HIDE DEF start
    <3>1. \A n \in 0 .. m : f[n] = IF n = 0 THEN start ELSE filterToken(f[n - 1], text[n])
      BY <2>2
    <3> QED BY <3>1
  <2>4. ASSUME NEW n \in 0 .. m + 1
        PROVE  g[n] = IF n = 0 THEN start ELSE filterToken(g[n - 1], text[n])
    <3> HIDE DEF start
    <3>0. g[n] = (IF n <= m THEN f[n] ELSE next)
      OBVIOUS
    <3>1. CASE n = 0
      BY <2>3, <3>0, <3>1
    <3>2. CASE n \in 1 .. m
      <4>1. g[n] = f[n] /\ g[n - 1] = f[n - 1]
        BY <3>2
      <4> QED BY <2>3, <3>2, <4>1
    <3>3. CASE n = m + 1
      <4>1. g[n] = next /\ g[m] = f[m] /\ n - 1 = m
        BY <3>3
      <4> QED BY <3>3, <4>1
    <3> QED BY <3>1, <3>2, <3>3
  <2>5. g = [n \in 0 .. m + 1 |-> g[n]]
    OBVIOUS
  <2> HIDE DEF g
  <2>6. g = [n \in 0 .. m + 1 |-> IF n = 0 THEN start ELSE filterToken(g[n - 1], text[n])]
    <3> HIDE DEF start
    <3> QED BY <2>4, <2>5
  <2>7. IsRun(g, m + 1)
    BY <2>6, Zenon DEF IsRun
  <2>8. m + 1 \in 0 .. Len(text)
    OBVIOUS
  <2> QED BY <2>7, <2>8
<1> HIDE DEF Good
<1>3. Len(text) \in Good
  <2>1. \A m \in 0 .. Len(text) - 1 : m \in Good => m + 1 \in Good
    BY <1>2
  <2>2. 0 .. Len(text) \subseteq Good
    BY <1>1, <2>1, UpTo
  <2> QED BY <2>2
<1>4. \E f : IsRun(f, Len(text))
  BY <1>3 DEF Good
<1> DEFINE run == FilterRun(text, inside)
<1>5. IsRun(run, Len(text))
  BY <1>4, Zenon DEF FilterRun
<1> HIDE DEF run
<1>6. \A n \in 0 .. Len(text) :
         run[n] = IF n = 0 THEN start ELSE filterToken(run[n - 1], text[n])
  <2> HIDE DEF start
  <2> QED BY <1>5
<1>7. /\ run[0] = start
      /\ \A n \in 1 .. Len(text) : run[n] = filterToken(run[n - 1], text[n])
  <2> HIDE DEF start
  <2> QED BY <1>6
<1> QED BY <1>7 DEF run

\* What the filter makes of one token.
LEMMA FilterOne ==
  ASSUME NEW out \in Seq(STRING), NEW inside \in BOOLEAN, NEW t \in STRING,
         NEW a, a = [inside |-> inside, out |-> out], NEW b, b = filterToken(a, t)
  PROVE  /\ b = [inside |-> b.inside, out |-> b.out] /\ b.inside \in BOOLEAN
         /\ b.inside <=> t = "open" \/ (t # "close" /\ inside)
         /\ b.out = IF t = "open" \/ inside THEN out ELSE Append(out, t)
<1>0. "open" # "close"
  OBVIOUS
<1>1. CASE inside /\ t # "close"
  <2>1. b = [inside |-> TRUE, out |-> out]
    BY <1>1 DEF filterToken
  <2>2. b.inside = TRUE /\ b.out = out
    BY <2>1
  <2> QED BY <1>1, <2>1, <2>2, Zenon
<1>4. CASE inside /\ t = "close"
  <2>1. b = [inside |-> FALSE, out |-> out]
    BY <1>4 DEF filterToken
  <2>2. b.inside = FALSE /\ b.out = out
    BY <2>1
  <2> QED BY <1>0, <1>4, <2>1, <2>2, Zenon
<1>2. CASE ~ inside /\ t = "open"
  <2>1. b = [inside |-> TRUE, out |-> out]
    BY <1>2 DEF filterToken
  <2>2. b.inside = TRUE /\ b.out = out
    BY <2>1
  <2> QED BY <1>2, <2>1, <2>2, Zenon
<1>3. CASE ~ inside /\ t # "open"
  <2>1. b = [inside |-> FALSE, out |-> Append(out, t)]
    BY <1>3 DEF filterToken
  <2>2. b.inside = FALSE /\ b.out = Append(out, t)
    BY <2>1
  <2> QED BY <1>3, <2>1, <2>2, Zenon
<1> QED BY <1>1, <1>2, <1>3, <1>4

\* What a filter leaves behind some tokens: what is seen of them, and whether
\* the last marker has opened a wrapper.
Leaves(r, s, T) ==
  /\ T \in SUBSET Place /\ IsFiniteSet(T) /\ ~ BeginsDsml(T)
  /\ r = [inside |-> r.inside, out |-> r.out]
  /\ r.inside \in BOOLEAN /\ r.out \in Seq(STRING)
  /\ r.inside <=> OpenAtEnd(T)
  /\ IsShown(s \o r.out, T)

LEMMA OneTokenLeaves ==
  ASSUME NEW s \in Seq(STRING), NEW T, NEW r, Leaves(r, s, T),
         NEW x \in Place, \A p \in T : Before(p, x), Token(x) \in STRING, Token(x) # "dsml",
         NEW next, next = filterToken(r, Token(x))
  PROVE  Leaves(next, s, T \cup {x})
<1> DEFINE t == Token(x)
           U == T \cup {x}
           inside == r.inside
           out == r.out
<1>1. /\ T \in SUBSET Place /\ IsFiniteSet(T) /\ ~ BeginsDsml(T)
      /\ r = [inside |-> inside, out |-> out]
      /\ inside \in BOOLEAN /\ out \in Seq(STRING)
      /\ inside <=> OpenAtEnd(T)
      /\ IsShown(s \o out, T)
  BY DEF Leaves
<1>2. /\ next = [inside |-> next.inside, out |-> next.out] /\ next.inside \in BOOLEAN
      /\ next.inside <=> t = "open" \/ (t # "close" /\ inside)
      /\ next.out = IF t = "open" \/ inside THEN out ELSE Append(out, t)
  <2> HIDE DEF inside, out, t
  <2>1. t \in STRING /\ next = filterToken(r, t)
    BY DEF t
  <2> QED BY <1>1, <2>1, FilterOne
<1>3. /\ OpenAtEnd(U) <=> t = "open" \/ (t # "close" /\ OpenAtEnd(T))
      /\ BeginsDsml(U) <=> BeginsDsml(T) \/ t = "dsml"
      /\ Visible(U) = IF t = "open" \/ OpenAtEnd(T) \/ BeginsDsml(U)
                      THEN Visible(T) ELSE Visible(T) \cup {x}
  BY <1>1, VisibleGrows
<1>4. U \in SUBSET Place /\ IsFiniteSet(U) /\ ~ BeginsDsml(U)
  BY <1>1, <1>3, FS_AddElement
<1>5. next.inside <=> OpenAtEnd(U)
  BY <1>1, <1>2, <1>3, Zenon
<1>6. next.out \in Seq(STRING) /\ IsShown(s \o next.out, U)
  <2>1. CASE t = "open" \/ inside
    <3>1. next.out = out
      BY <1>2, <2>1, Zenon
    <3>2. Visible(U) = Visible(T)
      BY <1>1, <1>3, <2>1, Zenon
    <3> QED BY <1>1, <3>1, <3>2, Zenon DEF IsShown
  <2>2. CASE ~ (t = "open" \/ inside)
    <3>1. next.out = Append(out, t)
      BY <1>2, <2>2, Zenon
    <3>2. ~ (t = "open" \/ OpenAtEnd(T) \/ BeginsDsml(U))
      BY <1>1, <1>4, <2>2, Zenon
    <3>3. s \o out \in Seq(STRING) /\ s \o Append(out, t) = Append(s \o out, t)
          /\ Append(out, t) \in Seq(STRING)
      <4> HIDE DEF out, t
      <4>1. t \in STRING /\ out \in Seq(STRING)
        BY <1>1 DEF t
      <4> QED BY <4>1
    <3>4. IsShown(Append(s \o out, t), U)
      <4> HIDE DEF out
      <4> QED BY <1>1, <3>2, <3>3, ShownGrows
    <3> QED BY <3>1, <3>3, <3>4
  <2> QED BY <2>1, <2>2
<1> HIDE DEF U
<1>7. Leaves(next, s, U)
  BY <1>2, <1>4, <1>5, <1>6 DEF Leaves
<1> QED BY <1>7 DEF U

\* The filter over the part of a delta in front of DSML, token by token.
LEMMA DeltaLeaves ==
  ASSUME NEW s \in Seq(STRING), NEW T, NEW r, Leaves(r, s, T), r.out = <<>>,
         NEW k \in Nat, \A p \in T : p[1] < k,
         NEW text \in Seq(STRING),
         \A i \in 1 .. Len(text) : text[i] # "dsml" /\ Token(<<k, i>>) = text[i]
  PROVE  Leaves(filterToolCallDelta(text, r.inside), s, T \cup ({k} \X (1 .. Len(text))))
<1> DEFINE run == FilterRun(text, r.inside)
           U(m) == T \cup ({k} \X (1 .. m))
           Good == {m \in 0 .. Len(text) : Leaves(run[m], s, U(m))}
<1>1. /\ run[0] = [inside |-> r.inside, out |-> <<>>]
      /\ \A n \in 1 .. Len(text) : run[n] = filterToken(run[n - 1], text[n])
  BY FilterIsRun
<1> HIDE DEF run
<1>2. 0 \in Good
  <2>1. run[0] = r
    BY <1>1 DEF Leaves
  <2>2. U(0) = T
    OBVIOUS
  <2>3. Leaves(run[0], s, U(0))
    BY <2>1, <2>2
  <2> QED BY <2>3
<1>3. ASSUME NEW m \in 0 .. Len(text) - 1, m \in Good PROVE m + 1 \in Good
  <2> DEFINE x == <<k, m + 1>>
  <2>1. m + 1 \in 1 .. Len(text) /\ (m + 1) - 1 = m /\ m + 1 \in 0 .. Len(text) /\ m \in Nat
    OBVIOUS
  <2>2. run[m + 1] = filterToken(run[m], text[m + 1])
    BY <1>1, <2>1
  <2>3. Token(x) = text[m + 1] /\ text[m + 1] # "dsml" /\ text[m + 1] \in STRING
    BY <2>1
  <2>4. x \in Place
    BY <2>1 DEF Place
  <2>5. U(m + 1) = U(m) \cup {x}
    <3>1. 1 .. m + 1 = (1 .. m) \cup {m + 1}
      BY <2>1
    <3> QED BY <3>1
  <2>6. ASSUME NEW p \in U(m) PROVE Before(p, x)
    <3>1. CASE p \in T
      BY <3>1 DEF Before
    <3>2. CASE p \in {k} \X (1 .. m)
      BY <2>1, <3>2 DEF Before
    <3> QED BY <3>1, <3>2
  <2>7. Leaves(run[m], s, U(m))
    BY <1>3
  <2> HIDE DEF U, x
  <2>8. Leaves(run[m + 1], s, U(m) \cup {x})
    BY <2>2, <2>3, <2>4, <2>6, <2>7, OneTokenLeaves
  <2> QED BY <2>1, <2>5, <2>8
<1>4. Len(text) \in Good
  <2> HIDE DEF Good
  <2>1. \A m \in 0 .. Len(text) - 1 : m \in Good => m + 1 \in Good
    BY <1>3
  <2>2. 0 .. Len(text) \subseteq Good /\ Len(text) \in Nat
    BY <1>2, <2>1, UpTo
  <2> QED BY <2>2
<1> QED BY <1>4 DEF filterToolCallDelta, run

\* Behind the first DSML marker nothing is seen.
LEMMA BehindDsml ==
  ASSUME NEW T \in SUBSET Place, NEW U \in SUBSET Place, T \subseteq U,
         \A p \in T, q \in U \ T : Before(p, q),
         NEW d \in U, Token(d) = "dsml", \A p \in U \ T : ~ Before(p, d)
  PROVE  Visible(U) = Visible(T)
<1>1. ASSUME NEW p \in U, p \notin T PROVE p \notin Visible(U)
  BY <1>1 DEF Visible
<1>2. ASSUME NEW p \in T PROVE p \in Visible(U) <=> p \in Visible(T)
  <2>1. ASSUME NEW q \in U, Before(q, p) PROVE q \in T
    BY <2>1, BeforeIsAnOrder
  <2>2. Marks(U, p) = Marks(T, p)
    BY <2>1 DEF Marks
  <2>3. Wrapped(U, p) <=> Wrapped(T, p)
    BY <2>2 DEF Wrapped
  <2>4. (\A q \in U : Token(q) = "dsml" => Before(p, q))
          <=> (\A q \in T : Token(q) = "dsml" => Before(p, q))
    OBVIOUS
  <2> QED BY <2>3, <2>4 DEF Visible
<1>3. Visible(U) \subseteq U /\ Visible(T) \subseteq T
  BY DEF Visible
<1> QED BY <1>1, <1>2, <1>3

\* What is in front of the first DSML marker of a delta.
LEMMA FrontOfDelta ==
  ASSUME NEW text \in Seq(STRING)
  PROVE  \E c \in 0 .. Len(text) :
           /\ BeforeDsml(text) \in Seq(STRING) /\ Len(BeforeDsml(text)) = c
           /\ \A i \in 1 .. c : BeforeDsml(text)[i] = text[i] /\ text[i] # "dsml"
           /\ c < Len(text) => text[c + 1] = "dsml"
<1> DEFINE I == {k \in 1 .. Len(text) : text[k] = "dsml"}
           cut == SelectInSeq(text, LAMBDA t : t = "dsml")
<1>1. cut = IF I # {} THEN Min(I) ELSE 0
  BY DEF SelectInSeq
<1>2. I \subseteq Nat /\ \A k : k \in I <=> k \in 1 .. Len(text) /\ text[k] = "dsml"
  OBVIOUS
<1>3. BeforeDsml(text) = IF cut = 0 THEN text ELSE SubSeq(text, 1, cut - 1)
  BY DEF BeforeDsml
<1>4. Len(text) \in Nat
  OBVIOUS
<1> HIDE DEF I, cut
<1>5. CASE I = {}
  <2>1. BeforeDsml(text) = text /\ \A i \in 1 .. Len(text) : text[i] # "dsml"
    BY <1>1, <1>2, <1>3, <1>5
  <2> QED BY <1>4, <2>1
<1>6. CASE I # {}
  <2>1. \E k \in I : \A j \in I : k <= j
    BY <1>2, <1>6, LeastNumber
  <2>2. cut \in I /\ \A j \in I : cut <= j
    BY <1>1, <1>6, <2>1 DEF Min
  <2>3. cut \in 1 .. Len(text) /\ text[cut] = "dsml"
    BY <1>2, <2>2
  <2>4. ASSUME NEW i \in 1 .. cut - 1 PROVE text[i] # "dsml"
    <3>1. i \in 1 .. Len(text) /\ ~ (cut <= i)
      BY <1>4, <2>3
    <3> QED BY <1>2, <2>2, <3>1
  <2>5. BeforeDsml(text) = SubSeq(text, 1, cut - 1)
    BY <1>3, <2>3
  <2>6. /\ SubSeq(text, 1, cut - 1) \in Seq(STRING)
        /\ Len(SubSeq(text, 1, cut - 1)) = cut - 1
        /\ \A i \in 1 .. cut - 1 : SubSeq(text, 1, cut - 1)[i] = text[i]
    BY <1>4, <2>3
  <2>7. cut - 1 \in 0 .. Len(text) /\ (cut - 1) + 1 = cut
    BY <1>4, <2>3
  <2> QED BY <2>3, <2>4, <2>5, <2>6, <2>7
<1> QED BY <1>5, <1>6

\* What the agent shows is what can be seen of the text that has come; the
\* filter knows whether DSML has begun and whether the last marker opens.
ShownOK ==
  LET come == Tokens(Len(got))
  IN  /\ come \in SUBSET Place /\ IsFiniteSet(come)
      /\ content \in Seq(STRING) /\ IsShown(content, come)
      /\ inToolCall \in BOOLEAN /\ dsml \in BOOLEAN
      /\ dsml <=> BeginsDsml(come)
      /\ ~ dsml => (inToolCall <=> OpenAtEnd(come))

LEMMA TokensGrow ==
  ASSUME NEW n \in Nat
  PROVE  /\ answer[n + 1].kind # "text" => Tokens(n + 1) = Tokens(n)
         /\ answer[n + 1].kind = "text" =>
              Tokens(n + 1) = Tokens(n) \cup ({n + 1} \X DOMAIN answer[n + 1].text)
         /\ \A p \in Tokens(n) : p[1] < n + 1
<1> DEFINE K(m) == {j \in 1 .. m : answer[j].kind = "text"}
           F(k) == {k} \X DOMAIN answer[k].text
<1>1. \A k : k \in 1 .. n + 1 <=> k \in 1 .. n \/ k = n + 1
  OBVIOUS
<1>2. Tokens(n) = UNION {F(k) : k \in K(n)} /\ Tokens(n + 1) = UNION {F(k) : k \in K(n + 1)}
  BY DEF Tokens
<1>3. ASSUME answer[n + 1].kind # "text" PROVE Tokens(n + 1) = Tokens(n)
  <2>1. K(n + 1) = K(n)
    BY <1>1, <1>3
  <2> HIDE DEF K, F
  <2> QED BY <1>2, <2>1
<1>4. ASSUME answer[n + 1].kind = "text"
      PROVE  Tokens(n + 1) = Tokens(n) \cup ({n + 1} \X DOMAIN answer[n + 1].text)
  <2>1. K(n + 1) = K(n) \cup {n + 1}
    BY <1>1, <1>4
  <2> HIDE DEF K, F
  <2>2. UNION {F(k) : k \in K(n) \cup {n + 1}} = (UNION {F(k) : k \in K(n)}) \cup F(n + 1)
    OBVIOUS
  <2> QED BY <1>2, <2>1, <2>2 DEF F
<1>5. ASSUME NEW p \in Tokens(n) PROVE p[1] < n + 1
  <2>1. PICK k \in K(n) : p \in F(k)
    BY <1>2
  <2> QED BY <2>1
<1> QED BY <1>3, <1>4, <1>5

\* What is read off the tokens stays while the answer does.
LEMMA SameTokens ==
  ASSUME answer' = answer
  PROVE  /\ \A n : Tokens(n)' = Tokens(n)
         /\ \A T : Visible(T)' = Visible(T)
         /\ \A T : BeginsDsml(T)' <=> BeginsDsml(T)
         /\ \A T : OpenAtEnd(T)' <=> OpenAtEnd(T)
         /\ \A s, T : IsShown(s, T)' <=> IsShown(s, T)
<1>1. \A p : Token(p)' = Token(p)
  BY DEF Token
<1>2. \A n : Tokens(n)' = Tokens(n)
  BY DEF Tokens
<1>3. \A T, p : Marks(T, p)' = Marks(T, p)
  BY <1>1 DEF Marks
<1>4. \A T, p : Wrapped(T, p)' <=> Wrapped(T, p)
  BY <1>1, <1>3 DEF Wrapped
<1>5. \A T : Visible(T)' = Visible(T)
  BY <1>1, <1>4 DEF Visible
<1>6. \A T : BeginsDsml(T)' <=> BeginsDsml(T)
  BY <1>1 DEF BeginsDsml
<1>7. \A T : OpenAtEnd(T)' <=> OpenAtEnd(T)
  BY <1>1 DEF OpenAtEnd
<1>8. \A s, T : IsShown(s, T)' <=> IsShown(s, T)
  BY <1>1, <1>5 DEF IsShown
<1> QED BY <1>2, <1>5, <1>6, <1>7, <1>8

\* It is enough to look at the tokens of the first events.
LEMMA ShownFrom ==
  ASSUME NEW U, answer' = answer, U = Tokens(Len(got')),
         U \in SUBSET Place /\ IsFiniteSet(U),
         content' \in Seq(STRING) /\ IsShown(content', U),
         inToolCall' \in BOOLEAN /\ dsml' \in BOOLEAN,
         dsml' <=> BeginsDsml(U),
         ~ dsml' => (inToolCall' <=> OpenAtEnd(U))
  PROVE  ShownOK'
<1>1. Tokens(Len(got))' = U
  BY SameTokens
<1>2. IsShown(content, Tokens(Len(got)))'
  BY <1>1, SameTokens
<1>3. BeginsDsml(Tokens(Len(got)))' <=> BeginsDsml(U)
  BY <1>1, SameTokens
<1>4. OpenAtEnd(Tokens(Len(got)))' <=> OpenAtEnd(U)
  BY <1>1, SameTokens
<1> QED BY <1>1, <1>2, <1>3, <1>4, Zenon DEF ShownOK

\* A text event: the filter shows what is in front of DSML and outside the
\* wrappers, and goes on where the last delta has left it.
LEMMA TextKeeps ==
  ASSUME ShownOK, answer' = answer, NEW n \in Nat, Len(got) = n, Len(got') = n + 1,
         answer[n + 1].kind = "text", answer[n + 1].text \in Seq(STRING),
         OnText(answer[n + 1].text)
  PROVE  ShownOK'
<1> DEFINE text == answer[n + 1].text
           size == Len(text)
           k == n + 1
           T == Tokens(n)
           U == Tokens(n + 1)
<1>a. text \in Seq(STRING) /\ size \in Nat /\ DOMAIN text = 1 .. size /\ k \in Nat
  OBVIOUS
<1>b. \A i : Token(<<k, i>>) = text[i]
  BY DEF Token
<1>c. U = T \cup ({k} \X (1 .. size)) /\ \A p \in T : p[1] < k
  BY <1>a, TokensGrow
<1>d. /\ T \in SUBSET Place /\ IsFiniteSet(T)
      /\ content \in Seq(STRING) /\ IsShown(content, T)
      /\ inToolCall \in BOOLEAN /\ dsml \in BOOLEAN
      /\ dsml <=> BeginsDsml(T)
      /\ ~ dsml => (inToolCall <=> OpenAtEnd(T))
  BY DEF ShownOK
<1>e. /\ dsml' = (dsml \/ \E i \in 1 .. size : text[i] = "dsml")
      /\ dsml => /\ inToolCall' = filterToolCallDelta(<<>>, inToolCall).inside
                 /\ content' = content \o filterToolCallDelta(<<>>, inToolCall).out
      /\ ~ dsml => /\ inToolCall' = filterToolCallDelta(BeforeDsml(text), inToolCall).inside
                   /\ content' = content \o filterToolCallDelta(BeforeDsml(text), inToolCall).out
  BY <1>a DEF OnText
<1>f. U = Tokens(Len(got')) /\ answer' = answer
  OBVIOUS
<1> HIDE DEF text, size, k, T, U
<1>1. U \in SUBSET Place /\ IsFiniteSet(U)
  <2>1. IsFiniteSet({k}) /\ IsFiniteSet(1 .. size)
    <3>1. size \in Int /\ 1 \in Int
      BY <1>a
    <3> QED BY <3>1, FS_Singleton, FS_Interval
  <2>2. IsFiniteSet({k} \X (1 .. size))
    BY <2>1, FS_Product
  <2>3. {k} \X (1 .. size) \in SUBSET Place
    BY <1>a DEF Place
  <2> QED BY <1>c, <1>d, <2>2, <2>3, FS_Union
<1>2. BeginsDsml(U) <=> BeginsDsml(T) \/ \E i \in 1 .. size : text[i] = "dsml"
  <2>1. \A q : q \in U <=> q \in T \/ \E i \in 1 .. size : q = <<k, i>>
    BY <1>c
  <2>2. \A i \in 1 .. size : <<k, i>> \in U
    BY <2>1
  <2>3. ASSUME NEW q \in U, Token(q) = "dsml"
        PROVE  BeginsDsml(T) \/ \E i \in 1 .. size : text[i] = "dsml"
    BY <1>b, <2>1, <2>3 DEF BeginsDsml
  <2>4. ASSUME NEW i \in 1 .. size, text[i] = "dsml" PROVE BeginsDsml(U)
    BY <1>b, <2>2, <2>4 DEF BeginsDsml
  <2>5. BeginsDsml(T) => BeginsDsml(U)
    BY <2>1 DEF BeginsDsml
  <2> QED BY <2>3, <2>4, <2>5 DEF BeginsDsml
<1>3. dsml' \in BOOLEAN /\ (dsml' <=> BeginsDsml(U))
  BY <1>d, <1>e, <1>2, Zenon
<1>4. CASE dsml
  <2> DEFINE nothing == filterToolCallDelta(<<>>, inToolCall)
  <2>1. nothing = [inside |-> inToolCall, out |-> <<>>]
    BY FilterIsRun DEF filterToolCallDelta
  <2> HIDE DEF nothing
  <2>a. nothing.inside = inToolCall /\ nothing.out = <<>>
    BY <2>1
  <2>b. inToolCall' = nothing.inside /\ content' = content \o nothing.out
    BY <1>e, <1>4, Zenon DEF nothing
  <2>c. content \o <<>> = content
    BY <1>d
  <2>2. inToolCall' = inToolCall /\ content' = content
    BY <2>a, <2>b, <2>c, Zenon
  <2>3. PICK d \in T : Token(d) = "dsml"
    BY <1>d, <1>4 DEF BeginsDsml
  <2>4. Visible(U) = Visible(T)
    <3>1. \A p \in U \ T : p[1] = k
      BY <1>c
    <3>2. \A p \in T, q \in U \ T : Before(p, q)
      BY <1>c, <3>1 DEF Before
    <3>3. \A q \in U \ T : ~ Before(q, d)
      BY <1>1, <1>c, <1>d, <2>3, <3>2, BeforeIsAnOrder
    <3> QED BY <1>1, <1>c, <1>d, <2>3, <3>2, <3>3, BehindDsml
  <2>5. IsShown(content', U)
    BY <1>d, <2>2, <2>4 DEF IsShown
  <2>6. dsml'
    BY <1>e, <1>4
  <2> QED BY <1>d, <1>f, <1>1, <1>3, <2>2, <2>5, <2>6, ShownFrom
<1>5. CASE ~ dsml
  <2> DEFINE front == BeforeDsml(text)
             r == [inside |-> inToolCall, out |-> <<>>]
             f == filterToolCallDelta(front, inToolCall)
  <2>1. PICK c \in 0 .. size :
           /\ front \in Seq(STRING) /\ Len(front) = c
           /\ \A i \in 1 .. c : front[i] = text[i] /\ text[i] # "dsml"
           /\ c < size => text[c + 1] = "dsml"
    BY <1>a, FrontOfDelta DEF size
  <2> DEFINE V == T \cup ({k} \X (1 .. c))
  <2>2. Leaves(r, content, T)
    <3>1. r.inside = inToolCall /\ r.out = <<>> /\ r = [inside |-> r.inside, out |-> r.out]
      OBVIOUS
    <3>2. content \o <<>> = content /\ <<>> \in Seq(STRING)
      BY <1>d
    <3> HIDE DEF r
    <3>3. r.out \in Seq(STRING) /\ IsShown(content \o r.out, T)
      BY <1>d, <3>1, <3>2
    <3>4. r.inside \in BOOLEAN /\ (r.inside <=> OpenAtEnd(T)) /\ ~ BeginsDsml(T)
      BY <1>d, <1>5, <3>1, Zenon
    <3> QED BY <1>d, <3>1, <3>3, <3>4 DEF Leaves
  <2>3. r.inside = inToolCall /\ r.out = <<>>
    OBVIOUS
  <2> HIDE DEF r, front
  <2>4. Leaves(f, content, V)
    <3>1. \A i \in 1 .. Len(front) : front[i] # "dsml" /\ Token(<<k, i>>) = front[i]
      BY <1>b, <2>1
    <3>2. Leaves(filterToolCallDelta(front, r.inside), content,
                 T \cup ({k} \X (1 .. Len(front))))
      BY <1>a, <1>c, <1>d, <2>1, <2>2, <2>3, <3>1, DeltaLeaves
    <3> QED BY <2>1, <2>3, <3>2
  <2>5. inToolCall' = f.inside /\ content' = content \o f.out
    BY <1>e, <1>5 DEF front
  <2> HIDE DEF f
  <2>6. /\ content' \in Seq(STRING) /\ IsShown(content', V)
        /\ inToolCall' \in BOOLEAN /\ (inToolCall' <=> OpenAtEnd(V)) /\ V \in SUBSET Place
    <3>1. f.out \in Seq(STRING) /\ IsShown(content \o f.out, V)
      BY <2>4 DEF Leaves
    <3>2. f.inside \in BOOLEAN /\ (f.inside <=> OpenAtEnd(V)) /\ V \in SUBSET Place
      BY <2>4, Zenon DEF Leaves
    <3>3. content' \in Seq(STRING) /\ IsShown(content', V)
      BY <1>d, <2>5, <3>1
    <3> QED BY <2>5, <3>2, <3>3, Zenon
  <2>7. CASE c = size
    <3>1. V = U
      BY <1>c, <2>7
    <3> HIDE DEF V
    <3> QED BY <1>f, <1>1, <1>3, <2>6, <3>1, ShownFrom
  <2>8. CASE c # size
    <3> DEFINE d == <<k, c + 1>>
    <3>1. c + 1 \in 1 .. size /\ c \in Nat /\ text[c + 1] = "dsml"
      BY <1>a, <2>1, <2>8
    <3>2. d \in U /\ Token(d) = "dsml"
      BY <1>b, <1>c, <3>1
    <3>3. ASSUME NEW q \in U, q \notin V
          PROVE  q[1] = k /\ q[2] \in Nat /\ q[2] > c
      <4>1. q \in {k} \X (1 .. size) /\ q \notin {k} \X (1 .. c)
        BY <1>c, <3>3
      <4>2. PICK i \in 1 .. size : q = <<k, i>>
        BY <4>1
      <4>3. i \notin 1 .. c
        BY <4>1, <4>2
      <4> QED BY <1>a, <3>1, <4>2, <4>3
    <3>4. V \subseteq U
      BY <1>a, <1>c, <3>1
    <3>5. ASSUME NEW p \in V, NEW q \in U \ V PROVE Before(p, q)
      <4>1. CASE p \in T
        BY <1>c, <3>3, <4>1 DEF Before
      <4>2. CASE p \in {k} \X (1 .. c)
        BY <3>1, <3>3, <4>2 DEF Before
      <4> QED BY <4>1, <4>2
    <3>6. ASSUME NEW q \in U \ V PROVE ~ Before(q, d)
      BY <1>a, <3>1, <3>3 DEF Before
    <3> HIDE DEF d, V
    <3>7. Visible(U) = Visible(V)
      BY <1>1, <2>6, <3>2, <3>4, <3>5, <3>6, BehindDsml
    <3>8. IsShown(content', U)
      BY <2>6, <3>7 DEF IsShown
    <3>9. dsml'
      BY <1>3, <3>2, Zenon DEF BeginsDsml
    <3> QED BY <1>f, <1>1, <1>3, <2>6, <3>8, <3>9, ShownFrom
  <2> QED BY <2>7, <2>8
<1> QED BY <1>d, <1>4, <1>5, Zenon

\* Any other event, and any step that leaves the text alone.
LEMMA ShownStays ==
  ASSUME ShownOK, answer' = answer, Tokens(Len(got')) = Tokens(Len(got)),
         content' = content, inToolCall' = inToolCall, dsml' = dsml
  PROVE  ShownOK'
<1>1. /\ Tokens(Len(got)) \in SUBSET Place /\ IsFiniteSet(Tokens(Len(got)))
      /\ content \in Seq(STRING) /\ IsShown(content, Tokens(Len(got)))
      /\ inToolCall \in BOOLEAN /\ dsml \in BOOLEAN
      /\ dsml <=> BeginsDsml(Tokens(Len(got)))
      /\ ~ dsml => (inToolCall <=> OpenAtEnd(Tokens(Len(got))))
  BY DEF ShownOK
<1> DEFINE U == Tokens(Len(got))
<1>2. U = Tokens(Len(got'))
  OBVIOUS
<1> HIDE DEF U
<1>3. /\ U \in SUBSET Place /\ IsFiniteSet(U)
      /\ content' \in Seq(STRING) /\ IsShown(content', U)
      /\ inToolCall' \in BOOLEAN /\ dsml' \in BOOLEAN
  BY <1>1 DEF U
<1>4. (dsml' <=> BeginsDsml(U)) /\ (~ dsml' => (inToolCall' <=> OpenAtEnd(U)))
  BY <1>1, Zenon DEF U
<1> QED BY <1>2, <1>3, <1>4, ShownFrom

\* No event has come, and nothing is shown.
NothingShown == got = <<>> /\ content = <<>> /\ inToolCall = FALSE /\ dsml = FALSE

LEMMA ShownReset == (NothingShown => ShownOK) /\ (NothingShown' => ShownOK')
<1>1. Tokens(0) = {} /\ Tokens(0)' = {} /\ Len(<<>>) = 0
  BY DEF Tokens
<1>2. /\ Visible({}) = {} /\ ~ BeginsDsml({}) /\ ~ OpenAtEnd({})
      /\ Visible({})' = {} /\ ~ BeginsDsml({})' /\ ~ OpenAtEnd({})'
  BY DEF Visible, BeginsDsml, OpenAtEnd
<1>3. IsFiniteSet({}) /\ Cardinality({}) = 0
  BY FS_EmptySet
<1>4. <<>> \in Seq(STRING) /\ {} \in SUBSET Place
  OBVIOUS
<1>5. IsShown(<<>>, {}) /\ IsShown(<<>>, {})'
  BY <1>2, <1>3 DEF IsShown
<1>6. NothingShown => ShownOK
  BY <1>1, <1>2, <1>3, <1>4, <1>5 DEF ShownOK, NothingShown
<1>7. NothingShown' => ShownOK'
  BY <1>1, <1>2, <1>3, <1>4, <1>5 DEF ShownOK, NothingShown
<1> QED BY <1>6, <1>7

LEMMA ShownHolds == StreamInit => ShownOK
  BY ShownReset DEF StreamInit, NothingShown

LEMMA ShownKeeps ==
  StreamIInv /\ Delivery /\ Assembled /\ ShownOK /\ [StreamNext]_streamVars => ShownOK'
<1> SUFFICES ASSUME StreamIInv, Delivery, Assembled, ShownOK, [StreamNext]_streamVars
             PROVE  ShownOK'
  OBVIOUS
<1>0. Numbers /\ WithinAnswer
  BY TypesApart DEF StreamIInv, Assembled
<1>a. Len(answer) \in Nat
  BY <1>0, StreamAssumption DEF Numbers
<1> USE DEF requestVars, attemptVars, filterVars, agentVars, callVars, blockVars
<1>s. ASSUME answer' = answer, got' = got, content' = content, inToolCall' = inToolCall,
             dsml' = dsml
      PROVE  ShownOK'
  BY <1>s, ShownStays
<1>1. CASE StreamBlocking
  BY <1>1, ShownReset DEF StreamBlocking, NothingShown
<1>2. ASSUME NEW kind \in Blocking, SendBlocking(kind) \/ Decline(kind)
      PROVE  ShownOK'
  BY <1>2, <1>s DEF SendBlocking, Decline
<1>3. CASE Open
  BY <1>3, <1>s DEF Open
<1>4. CASE NoHandle
  BY <1>4, <1>s DEF NoHandle
<1>5. CASE Wake
  BY <1>5, <1>s DEF Wake
<1>6. CASE StatusLine
  BY <1>6, <1>s DEF StatusLine
<1>7. CASE Chunk
  BY <1>7, <1>s DEF Chunk
<1>8. CASE EndOfTransfer
  BY <1>8, <1>s DEF EndOfTransfer
<1>9. CASE ParseDone
  BY <1>9, <1>s DEF ParseDone
<1>10. CASE ParseEvent
  <2>1. /\ client = "parsing" /\ Complete /\ answer' = answer
        /\ got' = Append(got, [attempt |-> retries, event |-> parsed + 1])
    BY <1>10 DEF ParseEvent
  <2>2. Len(got) = parsed /\ parsed \in Nat /\ sent \in Nat /\ sent <= 2 * Len(answer)
    BY <1>0, <2>1 DEF Delivery, Numbers, WithinAnswer
  <2>3. parsed + 1 \in 1 .. Len(answer)
    BY <1>a, <2>1, <2>2 DEF Complete
  <2>4. Len(got') = parsed + 1
    <3> DEFINE r == [attempt |-> retries, event |-> parsed + 1]
               S == [attempt : 0 .. MaxRetries, event : Nat]
    <3>1. r \in S /\ got \in Seq(S) /\ got' = Append(got, r)
      BY <1>0, <2>1, <2>2 DEF Delivery, Numbers
    <3> HIDE DEF r, S
    <3> QED BY <2>2, <3>1
  <2>5. CASE Event.kind = "text"
    <3>1. OnText(answer[parsed + 1].text) /\ answer[parsed + 1].kind = "text"
      BY <1>10, <2>5 DEF ParseEvent, Event
    <3>2. answer[parsed + 1].text \in Seq(STRING)
      <4>1. answer \in Answers
        BY <1>0, <2>3 DEF Numbers
      <4> QED BY <2>3, <3>1, <4>1, StreamAssumption
    <3> HIDE DEF Numbers
    <3> QED BY <2>1, <2>2, <2>4, <3>1, <3>2, TextKeeps
  <2>6. CASE Event.kind # "text"
    <3>1. content' = content /\ inToolCall' = inToolCall /\ dsml' = dsml
      BY <1>10, <2>6 DEF ParseEvent, OnToolCall, OnFinish
    <3>2. Tokens(parsed + 1) = Tokens(parsed)
      BY <2>2, <2>6, TokensGrow DEF Event
    <3> QED BY <2>1, <2>2, <2>4, <3>1, <3>2, ShownStays
  <2> QED BY <2>5, <2>6
<1>11. CASE ParseRest
  BY <1>11, <1>s DEF ParseRest
<1>12. CASE Performed
  BY <1>12, <1>s DEF Performed
<1>13. CASE Return
  BY <1>13, <1>s DEF Return
<1>14. CASE Post
  BY <1>14, <1>s DEF Post
<1>15. CASE PostRetry
  BY <1>15, <1>s DEF PostRetry
<1>16. CASE PostReturn
  BY <1>16, <1>s DEF PostReturn
<1>17. CASE CancelStream
  BY <1>17, <1>s DEF CancelStream
<1>18. CASE StreamRest \/ UNCHANGED streamVars
  BY <1>18, <1>s DEF StreamRest, streamVars
<1> QED
  BY <1>1, <1>2, <1>3, <1>4, <1>5, <1>6, <1>7, <1>8, <1>9, <1>10, <1>11, <1>12,
     <1>13, <1>14, <1>15, <1>16, <1>17, <1>18 DEF StreamNext, ClientThread, SendMessage, SearchWeb,
     FetchWeb, Blocking

----------------------------------------------------------------------------
\* The theorems

\* The types, what a failed request has delivered, what a cancel still sends
\* and what the caller of a blocking request is told, in every reachable state.
THEOREM StreamInvariant == StreamSpec => []StreamInv
<1>1. StreamInit => StreamIInv
  BY StreamIInvHolds
<1>2. StreamIInv /\ [StreamNext]_streamVars => StreamIInv'
  BY StreamStepKeeps
<1>3. StreamIInv => StreamInv
  <2> SUFFICES ASSUME StreamIInv PROVE StreamInv
    OBVIOUS
  <2>1. FailureDeliversNothing
    BY DEF StreamIInv, ContentFirst, VerdictLast, FailureDeliversNothing
  <2>2. CancelEndsRetries
    BY DEF StreamIInv, OneLate, CancelEndsRetries
  <2>3. FailureIsTold
    BY DEF StreamIInv, VerdictLast
  <2> QED BY <2>1, <2>2, <2>3 DEF StreamIInv, StreamInv
<1> QED BY <1>1, <1>2, <1>3, PTL DEF StreamSpec

\* The events of a request reach the agent from one attempt only, each once
\* and in the order the server sent them, whatever the network cuts, breaks
\* or delays and whenever the user cancels.
THEOREM StreamDeliversOnce == StreamSpec => []DeliveredOnce
<1>1. StreamInit => StreamIInv /\ Delivery
  BY StreamIInvHolds, DeliveryHolds
<1>2. (StreamIInv /\ Delivery) /\ [StreamNext]_streamVars => (StreamIInv /\ Delivery)'
  BY StreamStepKeeps, DeliveryKeeps
<1>3. StreamIInv /\ Delivery => DeliveredOnce
  BY DeliveryIsOnce
<1> QED BY <1>1, <1>2, <1>3, PTL DEF StreamSpec

\* What a sub-agent gathers by index, and what the agent assembles by search,
\* are the calls the server sent, however their deltas interleave, wherever
\* the network cuts the stream and whatever attempt they come with.
THEOREM StreamCallsAreAsSent == StreamSpec => []CallsAreAsSent
<1> DEFINE Both == StreamIInv /\ Delivery /\ Assembled
<1>1. StreamInit => Both
  BY StreamIInvHolds, DeliveryHolds, AssembledHolds
<1>2. Both /\ [StreamNext]_streamVars => Both'
  BY StreamStepKeeps, DeliveryKeeps, AssembledKeeps
<1>3. Both => CallsAreAsSent
  BY AssembledIsSent
<1> QED BY <1>1, <1>2, <1>3, PTL DEF StreamSpec

\* The text an agent shows is what stands outside the tool-call wrappers and
\* in front of the first DSML marker of the whole answer, in order, however
\* markers and text spread over the deltas, wherever the network cuts the
\* stream and whatever attempt the deltas come with.
THEOREM StreamShowsTheVisible == StreamSpec => []ShownIsVisible
<1> DEFINE All == StreamIInv /\ Delivery /\ Assembled /\ ShownOK
<1>1. StreamInit => All
  BY StreamIInvHolds, DeliveryHolds, AssembledHolds, ShownHolds
<1>2. All /\ [StreamNext]_streamVars => All'
  BY StreamStepKeeps, DeliveryKeeps, AssembledKeeps, ShownKeeps
<1>3. All => ShownIsVisible
  BY DEF ShownOK, ShownIsVisible
<1> QED BY <1>1, <1>2, <1>3, PTL DEF StreamSpec
=============================================================================
