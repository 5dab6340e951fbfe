---------------------------- MODULE StreamClient ----------------------------
(***************************************************************************)
(* DeepSeekClient (client/deepseek.cpp): one streamed request with its     *)
(* transparent retries, the parser of server-sent events and its filters,  *)
(* the assembly of text and tool calls in Agent::makeCallbacks and in      *)
(* SubAgent::doRequest, and the blocking requests of sendMessage,          *)
(* searchWeb and fetchWeb with what they tell their caller.  The client    *)
(* runs on the agent thread; Cancel is the UI thread; the network and the  *)
(* server choose every reply, every cut and every delay.                   *)
(***************************************************************************)
EXTENDS Integers, Sequences, FiniteSets, SequencesExt

CONSTANTS Answers,      \* the event sequences a server may mean to send
          MaxRetries,   \* MAX_RETRIES, RetryConfig::maxRetries
          MaxStreams    \* bound: requests made

(***************************************************************************)
(* Status codes by class: Wait stands for 408, 429 and 5xx, Refused for    *)
(* the other 4xx.  0 is "no status line yet".                              *)
(***************************************************************************)
OK == 200
Wait == 503
Refused == 400
isRetryableHttpStatus(code) == code = Wait

(* What is asked in one piece: a summary, a search, a page. *)
Blocking == {"chat", "search", "fetch"}

EventKinds == {"text", "think", "call", "args", "finish", "done", "ping"}

ASSUME StreamAssumption ==
  /\ MaxRetries \in Nat /\ MaxStreams \in Nat
  /\ \A a \in Answers : Len(a) \in Nat /\ \A k \in 1 .. Len(a) :
       a[k].kind \in EventKinds /\ (a[k].kind = "text" => a[k].text \in Seq(STRING))

VARIABLES
  client,     \* the place of the client's thread
  streams,    \* requests made so far
  answer,     \* what the server means to send in this request
  asked,      \* the kind of the request
  cancelled,  \* DeepSeekClient::cancelFlag
  retries,    \* transparentRetries, retries
  status,     \* StreamContext::httpStatus
  sent,       \* halves of events that have arrived
  parsed,     \* events taken out of sseBuffer
  anyContent, finished, failed,   \* StreamContext; failed: curl reports an error
  inToolCall, dsml,               \* inToolCall_, dsmlDetected_
  content, calls,                 \* Agent::currentContent_, currentToolCalls_
  parts,      \* SubAgent::doRequest: parts, as far as a delta has come for them
  ended, error,                   \* onFinish, onError called
  success,    \* what streamBlocking returned
  body,       \* attempts whose bytes are in the body of a blocking request
  reply,      \* what a blocking request tells its caller
  got,        \* history: the events delivered, with their attempt
  late        \* history: attempts begun after the cancel of this request

requestVars == <<streams, answer, asked>>
attemptVars == <<status, sent, parsed, finished, failed>>
filterVars == <<inToolCall, dsml>>
callVars == <<calls, parts>>
agentVars == <<content, callVars, ended, error>>
blockVars == <<body, reply>>
streamVars == <<client, requestVars, cancelled, retries, attemptVars, anyContent,
                filterVars, agentVars, success, blockVars, got, late>>

StreamInit ==
  /\ client = "idle" /\ streams = 0 /\ answer = <<>> /\ asked = "chat"
  /\ cancelled = FALSE /\ parts = <<>> /\ reply = "none"
  /\ retries = 0 /\ status = 0 /\ sent = 0 /\ parsed = 0
  /\ anyContent = FALSE /\ finished = FALSE /\ failed = FALSE
  /\ inToolCall = FALSE /\ dsml = FALSE
  /\ content = <<>> /\ calls = <<>> /\ ended = FALSE /\ error = FALSE
  /\ success = FALSE /\ body = <<>> /\ got = <<>> /\ late = 0

----------------------------------------------------------------------------
(* The filters on text.  A text is a sequence of tokens: "open" and        *)
(* "close" stand for the markers of a tool-call wrapper, "dsml" for those  *)
(* of DSML, anything else is text.                                         *)

(* What is left of a text in front of the first DSML marker. *)
BeforeDsml(text) ==
  LET cut == SelectInSeq(text, LAMBDA t : t = "dsml")
  IN  IF cut = 0 THEN text ELSE SubSeq(text, 1, cut - 1)

filterToken(acc, t) ==
  IF acc.inside THEN [acc EXCEPT !.inside = t # "close"]
  ELSE IF t = "open" THEN [acc EXCEPT !.inside = TRUE]
  ELSE [acc EXCEPT !.out = Append(@, t)]

(* Where the first n tokens of a text leave the filter. *)
FilterRun(text, inside) ==
  LET run[n \in 0 .. Len(text)] ==
        IF n = 0 THEN [inside |-> inside, out |-> <<>>] ELSE filterToken(run[n - 1], text[n])
  IN  run

filterToolCallDelta(text, inside) == FilterRun(text, inside)[Len(text)]

AssembleLast(e) ==
  IF e.kind = "call" THEN Append(calls, [index |-> e.index, args |-> <<e.part>>])
  ELSE IF calls = <<>> THEN calls
  ELSE [calls EXCEPT ![Len(calls)].args = Append(@, e.part)]

(* A tool-call delta joins the calls assembled so far: one with a name     *)
(* replaces or adds the call of its index, one without lengthens it.       *)
Assemble(e) ==
  LET at == SelectInSeq(calls, LAMBDA c : c.index = e.index)
      new == [index |-> e.index, args |-> <<e.part>>]
  IN  IF e.kind = "call"
      THEN IF at = 0 THEN Append(calls, new) ELSE [calls EXCEPT ![at] = new]
      ELSE IF at # 0 THEN [calls EXCEPT ![at].args = Append(@, e.part)]
      ELSE IF calls = <<>> THEN calls
      ELSE [calls EXCEPT ![Len(calls)].args = Append(@, e.part)]

(* A sub-agent keeps its calls by index: every delta lengthens the part of *)
(* its index, and a part that no delta has named is no call.               *)
Gather(e) ==
  LET old == IF e.index \in DOMAIN parts THEN parts[e.index]
                                         ELSE [named |-> FALSE, args |-> <<>>]
      new == [named |-> old.named \/ e.kind = "call", args |-> Append(old.args, e.part)]
  IN  [k \in DOMAIN parts \cup {e.index} |-> IF k = e.index THEN new ELSE parts[k]]

----------------------------------------------------------------------------
(* streamBlocking *)

(* Agent::run clears what the last answer left and calls streamBlocking,   *)
(* which lowers the cancel flag.                                           *)
StreamBlocking ==
  /\ client = "idle" /\ streams < MaxStreams
  /\ streams' = streams + 1
  /\ answer' \in Answers /\ asked' = "stream"
  /\ client' = "attempt"
  /\ cancelled' = FALSE /\ inToolCall' = FALSE /\ dsml' = FALSE
  /\ retries' = 0 /\ anyContent' = FALSE
  /\ content' = <<>> /\ calls' = <<>> /\ ended' = FALSE /\ error' = FALSE
  /\ got' = <<>> /\ late' = 0 /\ parts' = <<>> /\ body' = <<>> /\ reply' = "none"
  /\ UNCHANGED <<attemptVars, success>>

RetryDelivered == retries < MaxRetries /\ ~cancelled

(* A failed attempt without content is repeated, unless it was the last    *)
(* one or a cancel has come.                                               *)
MayRetry == ~anyContent /\ retries < MaxRetries /\ ~cancelled

Retry ==
  /\ MayRetry
  /\ retries' = retries + 1
  /\ client' = "sleeping"
  /\ UNCHANGED <<ended, error, success>>

Fail ==
  /\ error' = TRUE /\ success' = FALSE /\ client' = "returned"
  /\ UNCHANGED <<ended, retries>>

(* The context of an attempt is reset, but for anyContent. *)
Open ==
  /\ client = "attempt"
  /\ client' = "waiting"
  /\ status' = 0 /\ sent' = 0 /\ parsed' = 0 /\ finished' = FALSE /\ failed' = FALSE
  /\ late' = IF cancelled THEN late + 1 ELSE late
  /\ UNCHANGED <<requestVars, cancelled, retries, anyContent, filterVars, agentVars,
                 success, blockVars, got>>

(* curl_easy_init fails: no attempt begins with content, so the branch of  *)
(* the code for that case is not taken.                                    *)
NoHandle ==
  /\ client = "attempt"
  /\ Retry \/ (~MayRetry /\ Fail)
  /\ UNCHANGED <<requestVars, cancelled, attemptVars, anyContent, filterVars, content,
                 callVars, blockVars, got, late>>

Wake ==
  /\ client = "sleeping"
  /\ client' = "attempt"
  /\ UNCHANGED <<requestVars, cancelled, retries, attemptVars, anyContent, filterVars,
                 agentVars, success, blockVars, got, late>>

StatusLine ==
  /\ client = "waiting"
  /\ status' \in {OK, Wait, Refused}
  /\ client' = "receiving"
  /\ UNCHANGED <<requestVars, cancelled, retries, sent, parsed, finished, failed,
                 anyContent, filterVars, agentVars, success, blockVars, got, late>>

(* streamWriteCallback: bytes arrive, up to the middle or the end of any   *)
(* event that has not arrived.  A callback that finds the cancel flag up   *)
(* ends the transfer.                                                      *)
Chunk ==
  /\ client = "receiving" /\ status = OK
  /\ \/ cancelled /\ client' = "performed" /\ failed' = TRUE
        /\ UNCHANGED <<sent, anyContent>>
     \/ ~cancelled /\ client' = "parsing" /\ anyContent' = TRUE
        /\ sent' \in sent + 1 .. 2 * Len(answer)
        /\ UNCHANGED failed
  /\ UNCHANGED <<requestVars, cancelled, retries, status, parsed, finished, filterVars,
                 agentVars, success, blockVars, got, late>>

(* The transfer ends: the server has closed it (early or not), or it       *)
(* breaks, idles too long, or the progress callback finds the cancel flag. *)
EndOfTransfer ==
  /\ client \in {"waiting", "receiving"}
  /\ client' = "performed"
  /\ failed' \in (IF client = "waiting" \/ cancelled THEN {TRUE} ELSE BOOLEAN)
  /\ UNCHANGED <<requestVars, cancelled, retries, status, sent, parsed, finished,
                 anyContent, filterVars, agentVars, success, blockVars, got, late>>

----------------------------------------------------------------------------
(* parseSSEChunk: one complete event of the buffer, and its callbacks *)

Complete == 2 * (parsed + 1) <= sent
Event == answer[parsed + 1]

OnTextAlone(text) ==
  LET visible == filterToolCallDelta(BeforeDsml(text), FALSE)
  IN  /\ content' = content \o visible.out
      /\ UNCHANGED <<callVars, ended, filterVars>>

OnText(text) ==
  LET cut == IF dsml THEN <<>> ELSE BeforeDsml(text)
      visible == filterToolCallDelta(cut, inToolCall)
  IN  /\ dsml' = (dsml \/ \E k \in DOMAIN text : text[k] = "dsml")
      /\ inToolCall' = visible.inside
      /\ content' = content \o visible.out
      /\ UNCHANGED <<callVars, ended>>

OnToolCall(e) ==
  /\ calls' = Assemble(e) /\ parts' = Gather(e)
  /\ UNCHANGED <<content, filterVars, ended>>

OnFinish ==
  /\ ended' = TRUE
  /\ UNCHANGED <<content, callVars, filterVars>>

(* [DONE] is left in the buffer and ends the transfer. *)
ParseDone ==
  /\ client = "parsing" /\ Complete /\ Event.kind = "done"
  /\ finished' = TRUE /\ failed' = TRUE /\ client' = "performed"
  /\ UNCHANGED <<requestVars, cancelled, retries, status, sent, parsed, anyContent,
                 filterVars, agentVars, success, blockVars, got, late>>

ParseEvent ==
  /\ client = "parsing" /\ Complete /\ Event.kind # "done"
  /\ parsed' = parsed + 1
  /\ got' = Append(got, [attempt |-> retries, event |-> parsed + 1])
  /\ CASE Event.kind = "text" -> OnText(Event.text)
       [] Event.kind \in {"call", "args"} -> OnToolCall(Event)
       [] Event.kind = "finish" -> OnFinish
       [] OTHER -> UNCHANGED <<content, callVars, filterVars, ended>>
  /\ UNCHANGED <<requestVars, client, cancelled, retries, status, sent, finished,
                 failed, anyContent, error, success, blockVars, late>>

(* The rest of the buffer waits for the next chunk. *)
ParseRest ==
  /\ client = "parsing" /\ ~Complete
  /\ client' = "receiving"
  /\ UNCHANGED <<requestVars, cancelled, retries, attemptVars, anyContent, filterVars,
                 agentVars, success, blockVars, got, late>>

----------------------------------------------------------------------------
(* Behind curl_easy_perform.  A transfer that breaks behind some content   *)
(* counts as an answer.                                                    *)

Broken == failed /\ ~finished

ReportBroken == Broken /\ anyContent /\ Fail

KeepContent ==
  /\ Broken /\ anyContent
  /\ ended' = TRUE /\ success' = TRUE /\ client' = "returned"
  /\ UNCHANGED <<error, retries>>

RetryBroken == Broken /\ Retry

RetryStatus == ~Broken /\ status # OK /\ isRetryableHttpStatus(status) /\ Retry

GiveUp ==
  /\ \/ Broken /\ ~anyContent /\ ~MayRetry
     \/ ~Broken /\ status # OK /\ ~(isRetryableHttpStatus(status) /\ MayRetry)
  /\ Fail

Succeed ==
  /\ ~Broken /\ status = OK
  /\ ended' = (ended \/ (anyContent /\ ~finished))
  /\ success' = TRUE /\ client' = "returned"
  /\ UNCHANGED <<error, retries>>

Performed ==
  /\ client = "performed"
  /\ KeepContent \/ RetryBroken \/ RetryStatus \/ GiveUp \/ Succeed
  /\ UNCHANGED <<requestVars, cancelled, attemptVars, anyContent, filterVars, content,
                 callVars, blockVars, got, late>>

Return ==
  /\ client \in {"returned", "replied"}
  /\ client' = "idle"
  /\ UNCHANGED <<requestVars, cancelled, retries, attemptVars, anyContent, filterVars,
                 agentVars, success, blockVars, got, late>>

----------------------------------------------------------------------------
(* sendMessage, and postJson for searchWeb and fetchWeb; postWithRetry.    *)
(* The body of every attempt is appended to the same string.               *)

SendBlocking(kind) ==
  /\ client = "idle" /\ streams < MaxStreams
  /\ streams' = streams + 1 /\ asked' = kind
  /\ client' = "post"
  /\ cancelled' = FALSE /\ retries' = 0 /\ body' = <<>> /\ reply' = "none" /\ late' = 0
  /\ UNCHANGED <<answer, attemptVars, anyContent, filterVars, agentVars, success, got>>

(* No handle, or arguments that web_search, fetch_url and the client do    *)
(* not accept: an error, and nothing is sent.                              *)
Decline(kind) ==
  /\ client = "idle" /\ streams < MaxStreams
  /\ streams' = streams + 1 /\ asked' = kind
  /\ client' = "replied" /\ reply' = "error" /\ body' = <<>>
  /\ UNCHANGED <<answer, cancelled, retries, attemptVars, anyContent, filterVars, agentVars,
                 success, got, late>>

SendMessage == SendBlocking("chat") \/ Decline("chat")
SearchWeb   == SendBlocking("search") \/ Decline("search")
FetchWeb    == SendBlocking("fetch") \/ Decline("fetch")

(* One curl_easy_perform: it fails or gives a status, and in either case   *)
(* may have written bytes, all of the reply or a part of it.  With the     *)
(* cancel flag up the first write ends it.                                 *)
Post ==
  /\ client = "post"
  /\ client' = "posted"
  /\ status' \in {OK, Wait, Refused}
  /\ \E bytes \in {"none", "cut", "whole"}, broken \in BOOLEAN :
       /\ bytes = "cut" => broken
       /\ failed' = (broken \/ (cancelled /\ bytes # "none"))
       /\ body' = IF bytes = "none" \/ cancelled THEN body
                  ELSE Append(body, [attempt |-> retries, bytes |-> bytes, status |-> status'])
  /\ UNCHANGED <<requestVars, cancelled, retries, sent, parsed, finished, anyContent,
                 filterVars, agentVars, success, reply, got, late>>

PostRetry ==
  /\ client = "posted" /\ retries < MaxRetries
  /\ failed \/ isRetryableHttpStatus(status)
  /\ retries' = retries + 1
  /\ client' = "post"
  /\ UNCHANGED <<requestVars, cancelled, attemptVars, anyContent, filterVars, agentVars,
                 success, blockVars, got, late>>

(* The body can be read: it is one reply, and all of it. *)
Legible == Len(body) = 1 /\ body[1].bytes = "whole"

(* A reply that cannot be read, a search without results and a page        *)
(* without content are errors; a chat reply that has no choices or cannot  *)
(* be read leaves the caller with nothing.                                 *)
Answers200 == IF Legible /\ body[1].status = OK THEN {"answer"} ELSE {}
ChatReading == Answers200 \cup {"nothing"}
SearchReading == Answers200 \cup {"error"}
PageReading == Answers200 \cup {"error"}

Reading(kind) ==
  CASE kind = "chat" -> ChatReading
    [] kind = "search" -> SearchReading
    [] OTHER -> PageReading

PostReturn ==
  /\ client = "posted"
  /\ ~((failed \/ isRetryableHttpStatus(status)) /\ retries < MaxRetries)
  /\ client' = "replied"
  /\ reply' \in IF failed \/ status # OK THEN {"error"} ELSE Reading(asked)
  /\ UNCHANGED <<requestVars, cancelled, retries, attemptVars, anyContent, filterVars,
                 agentVars, success, body, got, late>>

----------------------------------------------------------------------------
(* DeepSeekClient::cancel, on the UI thread, at any time. *)
CancelStream ==
  /\ ~cancelled
  /\ cancelled' = TRUE
  /\ UNCHANGED <<client, requestVars, retries, attemptVars, anyContent, filterVars,
                 agentVars, success, blockVars, got, late>>

(* The agent makes no further request. *)
StreamRest == client = "idle" /\ streams = MaxStreams /\ UNCHANGED streamVars

ClientThread ==
  \/ Open \/ NoHandle \/ Wake \/ StatusLine \/ Chunk \/ EndOfTransfer
  \/ ParseDone \/ ParseEvent \/ ParseRest \/ Performed \/ Return
  \/ Post \/ PostRetry \/ PostReturn

StreamNext ==
  \/ StreamBlocking
  \/ SendMessage \/ SearchWeb \/ FetchWeb
  \/ ClientThread \/ CancelStream \/ StreamRest

StreamSpec == StreamInit /\ [][StreamNext]_streamVars

----------------------------------------------------------------------------
(* Type correctness.                                                       *)
Places == {"idle", "attempt", "waiting", "receiving", "parsing", "performed", "sleeping",
           "returned", "post", "posted", "replied"}

(* The variables have their types: the numbers stay within the bounds the  *)
(* retries and the answer set.                                             *)
StreamTypeOK ==
  /\ client \in Places
  /\ streams \in 0 .. MaxStreams /\ retries \in 0 .. MaxRetries
  /\ answer \in Answers \cup {<<>>} /\ asked \in Blocking \cup {"stream"}
  /\ reply \in {"none", "answer", "error", "nothing"}
  /\ status \in {0, OK, Wait, Refused}
  /\ sent \in Nat /\ parsed \in Nat /\ late \in Nat
  /\ cancelled \in BOOLEAN /\ anyContent \in BOOLEAN /\ finished \in BOOLEAN
  /\ failed \in BOOLEAN /\ dsml \in BOOLEAN
  /\ ended \in BOOLEAN /\ error \in BOOLEAN /\ success \in BOOLEAN

(* The callbacks of a request are those of one attempt, in the order the   *)
(* server sent them, none twice and none left out: a retry never repeats   *)
(* what was delivered, and no cut between chunks loses an event            *)
(* (streamBlocking, streamWriteCallback).                                  *)
DeliveredOnce ==
  /\ \E a \in 0 .. MaxRetries : got = [k \in 1 .. Len(got) |-> [attempt |-> a, event |-> k]]
  /\ client \in {"receiving", "performed"} /\ status = OK =>
       /\ Len(got) = parsed
       /\ 2 * (parsed + 1) > sent \/ Event.kind = "done"

(* streamBlocking returns false only with an error and with nothing        *)
(* delivered, so that Agent::run may send the request again; it returns    *)
(* true without an error.                                                  *)
FailureDeliversNothing ==
  client = "returned" =>
    /\ error <=> ~success
    /\ error => got = <<>> /\ content = <<>> /\ calls = <<>> /\ ~ended

(* The deltas of the tool call with an index, among the first n events.    *)
Deltas(index, n) ==
  {k \in 1 .. n : answer[k].kind \in {"call", "args"} /\ answer[k].index = index}

(* These arguments are what the first n events bring for that call, in     *)
(* order.                                                                  *)
IsSent(args, index, n) ==
  /\ Len(args) = Cardinality(Deltas(index, n))
  /\ \A k \in Deltas(index, n) : args[Cardinality(Deltas(index, k))] = answer[k].part

(* The format of the API: the first delta of a call, and no other, has its *)
(* id and its name.                                                        *)
NamedFirst ==
  \A k \in 1 .. Len(answer) : answer[k].kind \in {"call", "args"} =>
    (answer[k].kind = "call" <=> Deltas(answer[k].index, k - 1) = {})

(* What a sub-agent gathers by index is what the server sent for it,       *)
(* however calls and chunks interleave; it takes for calls what the agent  *)
(* takes for calls, each index once; and each call the agent assembles by  *)
(* search is the one the server meant, as far as it has arrived, of a      *)
(* server that keeps the format (Agent::makeCallbacks,                     *)
(* SubAgent::doRequest).                                                   *)
CallsAreAsSent ==
  /\ \A i \in DOMAIN parts : IsSent(parts[i].args, i, Len(got))
  /\ {c.index : c \in ToSet(calls)} = {i \in DOMAIN parts : parts[i].named}
  /\ \A k \in 1 .. Len(got) : answer[k].kind = "call" =>
       \E c \in ToSet(calls) : c.index = answer[k].index
  /\ IsInjective([k \in DOMAIN calls |-> calls[k].index])
  /\ NamedFirst => \A c \in ToSet(calls) : IsSent(c.args, c.index, Len(got))

(* The tokens of text in the first n events, by event and place, and their *)
(* order.                                                                  *)
Tokens(n) ==
  UNION {{k} \X DOMAIN answer[k].text : k \in {j \in 1 .. n : answer[j].kind = "text"}}
Token(p) == answer[p[1]].text[p[2]]
Before(p, q) == p[1] < q[1] \/ (p[1] = q[1] /\ p[2] < q[2])

(* Of these tokens p stands in a wrapper: the last marker before it opens. *)
Marks(tokens, p) == {q \in tokens : Before(q, p) /\ Token(q) \in {"open", "close"}}
Wrapped(tokens, p) ==
  \E q \in Marks(tokens, p) : Token(q) = "open" /\ \A r \in Marks(tokens, p) : ~ Before(q, r)

Visible(tokens) ==
  {p \in tokens : /\ Token(p) # "open" /\ ~ Wrapped(tokens, p)
                  /\ \A q \in tokens : Token(q) = "dsml" => Before(p, q)}

(* This text is what can be seen of the tokens, in order. *)
IsShown(text, tokens) ==
  /\ Len(text) = Cardinality(Visible(tokens))
  /\ \A p \in Visible(tokens) :
       text[Cardinality({q \in Visible(tokens) : ~ Before(p, q)})] = Token(p)

(* The text delivered is what stands outside the wrappers and in front of  *)
(* the first DSML marker of the whole answer, in order, however wrappers   *)
(* and block spread over the deltas (filterToolCallDelta, dsmlDetected_).  *)
(* A marker is one token: the code does not know one that is itself cut in *)
(* two.                                                                    *)
ShownIsVisible == IsShown(content, Tokens(Len(got)))

(* Once a stream is cancelled at most one more request goes out, the one   *)
(* whose back-off was under way; it is not retried (cancelFlag in          *)
(* streamBlocking).                                                        *)
CancelEndsRetries == late <= 1

(* A blocking request that fails says so, whatever its attempts brought:   *)
(* only a chat reply with status 200 may leave its caller with neither an  *)
(* answer nor an error (sendMessage swallows what it cannot read), and an  *)
(* answer is never what an earlier attempt was refused with.               *)
FailureIsTold ==
  client = "replied" =>
    /\ reply = "nothing" => asked = "chat" /\ ~failed /\ status = OK
    /\ reply = "answer" => ~failed /\ status = OK /\ body[1].status = OK

(* The types and the facts about a request's end: what a failure has       *)
(* delivered, what a cancel still sends, what a caller is told.            *)
StreamInv == StreamTypeOK /\ FailureDeliversNothing /\ CancelEndsRetries /\ FailureIsTold

(* "DeepSeek docs: retry 408 / 429 / 5xx ... safe to retry for chat and    *)
(* for Search/Fetch alike": a blocking request that a retry has brought a  *)
(* complete reply is answered with it.                                     *)
RetriedReplyIsRead ==
  client = "replied" /\ ~failed /\ status = OK /\ body # <<>>
    /\ body[Len(body)] = [attempt |-> retries, bytes |-> "whole", status |-> OK]
  => Legible
=============================================================================
