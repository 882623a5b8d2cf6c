--------------------------------- MODULE Llm ---------------------------------
(***************************************************************************)
(* The LLM gateway: requests in the providers' formats, their streamed     *)
(* answers, and what surrounds a completion: rate limiting, retries and    *)
(* costs.  Text is a sequence of tokens; a JSON document is the record of  *)
(* the members the code reads.  The loop that strings check, completion,   *)
(* record and retry together is the agent's.                               *)
(***************************************************************************)
EXTENDS Naturals, Sequences, FiniteSets, SequencesExt, FiniteSetsExt

CONSTANTS
  LlmCallers,       \* concurrent users of one gateway
  CostCentres,      \* workspaces a cost can be attributed to
  MaxRequests, MaxTokens, LlmWindow,    \* RateLimitConfig
  MaxRetries, BaseDelay,                \* RetryConfig, exponential
  DelayCap,         \* the cap of one hour, before jitter
  PriceUnit,        \* the million tokens a price is for
  MaxLlmNow, MaxCompletions, MaxTurns   \* bounds

ASSUME LlmAssumption ==
  /\ {MaxRequests, MaxTokens, LlmWindow, MaxRetries, BaseDelay, DelayCap} \subseteq Nat
  /\ PriceUnit \in Nat \ {0}
  /\ IsFiniteSet(LlmCallers) /\ IsFiniteSet(CostCentres)

VARIABLES
  recent,    \* RateLimitState: request_log and token_log, pushed and pruned alike
  user,      \* each caller: where it stands, attempts made, when it may go on
  llmNow,    \* Instant::now()
  spent,     \* CostTracker: workspace_costs and total_micros
  exact,     \* what the completions cost before division, and how many there were
  conv,      \* the conversation: a sequence of messages
  stream     \* the streamed answer under way

llmVars == <<recent, user, llmNow, spent, exact, conv, stream>>

---------------------------------------------------------------------------
\* Errors

Transient == "Transient"
Permanent == "Permanent"

\* classify_status
Persistence(status) ==
  CASE status \in {400, 401, 403, 404} -> Permanent
    [] status \in {408, 429, 500, 502, 503} -> Transient
    [] OTHER -> "Unknown"

\* LlmError::transport, structural and compute
ErrorOf(cause) ==
  CASE cause.kind = "connection" -> Transient
    [] cause.kind \in {"tls", "structural", "context"} -> Permanent
    [] cause.kind = "http" -> Persistence(cause.status)

\* should_retry
ShouldRetryCall(persistence) == persistence = Transient

\* compute_delay: doubled, capped, then a quarter of jitter either way, and
\* at least one; the set of delays the random choice allows.
Delays(attempt) ==
  LET base == Min({BaseDelay * 2^attempt, DelayCap})
      jitter == base \div 4
  IN  {Max({base + j - jitter, 1}) : j \in 0..(2 * jitter)}

\* apply_retry_after, honoured
WithRetryAfter(delay, after) == Max({delay, after})

---------------------------------------------------------------------------
\* The rate limiter

\* The entries not strictly older than the cutoff, by position.
InWindow == {k \in DOMAIN recent : recent[k].at + LlmWindow >= llmNow}

\* What check keeps: it drops entries from the front, up to the first of them.
Pruned ==
  IF InWindow = {} THEN <<>>
  ELSE LET first == CHOOSE k \in InWindow : \A j \in InWindow : k <= j
       IN  SubSeq(recent, first, Len(recent))

RecentTokens(log) == FoldSeq(LAMBDA r, acc : acc + r.tokens, 0, log)

\* Mutant: one request too many is let through.
Mutant_LimitPlusOne(estimate) ==
  IF MaxRequests > 0 /\ Len(Pruned) > MaxRequests
  THEN [allowed |-> FALSE, wait |-> LlmWindow - (llmNow - Head(Pruned).at)]
  ELSE [allowed |-> TRUE, wait |-> 0]

\* RateLimiter::check; the wait runs from the oldest entry, or from now.
LimitVerdict(estimate) ==
  LET log == Pruned
      oldest == IF log = <<>> THEN llmNow ELSE Head(log).at
      over == \/ MaxRequests > 0 /\ Len(log) >= MaxRequests
              \/ MaxTokens > 0 /\ RecentTokens(log) + estimate > MaxTokens
  IN  IF over THEN [allowed |-> FALSE, wait |-> LlmWindow - (llmNow - oldest)]
              ELSE [allowed |-> TRUE, wait |-> 0]

---------------------------------------------------------------------------
\* Costs.  A model's name is a sequence of its dash-separated parts.

PricingTable ==
  {[prefix |-> <<"o3">>, in |-> 8, out |-> 13],
   [prefix |-> <<"o3", "mini">>, in |-> 3, out |-> 7]}

Models == {<<"o3", "mini", "2025">>, <<"o3">>, <<"llama">>}

\* lookup_pricing: empty or the one entry with the longest prefix.
LookupPricing(model) ==
  LET fits == {p \in PricingTable : IsPrefix(p.prefix, model)}
  IN  {p \in fits : \A q \in fits : Len(q.prefix) <= Len(p.prefix)}

\* What the priced models really cost.
TruePrice(model) ==
  IF model = <<"o3">> THEN [in |-> 8, out |-> 13] ELSE [in |-> 3, out |-> 7]

\* Mutant: divide before multiplying.
Mutant_DivideFirst(usage, p) ==
  (usage.in \div PriceUnit) * p.in + (usage.out \div PriceUnit) * p.out

\* calculate_cost: each part is truncated.
CalculateCost(usage, p) ==
  (usage.in * p.in) \div PriceUnit + (usage.out * p.out) \div PriceUnit

\* CostTracker::record, under a workspace or none
Charge(ws, micros) ==
  spent' = [total |-> spent.total + micros,
            by |-> IF ws = "none" THEN spent.by ELSE [spent.by EXCEPT ![ws] = @ + micros]]

---------------------------------------------------------------------------
\* Conversations and requests

Block(kind, id) == [kind |-> kind, id |-> id]

Flat(seqs) == FlattenSeq(seqs)

\* The blocks of some kinds, in their order.
OfKinds(blocks, kinds) ==
  Flat([k \in DOMAIN blocks |-> IF blocks[k].kind \in kinds THEN <<blocks[k]>> ELSE <<>>])

\* message_to_anthropic and build_request: system texts move to a field of
\* their own, a tool's message is sent as the user's, blocks one to one.
AnthropicMessage(m) ==
  [role |-> IF m.role = "assistant" THEN "assistant" ELSE "user", blocks |-> m.blocks]

AnthropicRequest(messages) ==
  [system |-> Flat([k \in DOMAIN messages |->
                      IF messages[k].role = "system" THEN <<messages[k]>> ELSE <<>>]),
   messages |-> Flat([k \in DOMAIN messages |->
                        IF messages[k].role # "system" THEN <<AnthropicMessage(messages[k])>> ELSE <<>>])]

\* Mutant: assistant messages keep their text and lose their tool calls.
Mutant_TextOnly(m) ==
  IF m.role = "tool" /\ m.blocks # <<>> /\ Head(m.blocks).kind = "result"
  THEN <<Head(m.blocks)>>
  ELSE OfKinds(m.blocks, {"text"})

\* message_to_openai: a tool's message becomes its first result; an assistant's
\* keeps text and tool calls; the others keep their text.
OpenAiBlocks(m) ==
  IF m.role = "tool" /\ m.blocks # <<>> /\ Head(m.blocks).kind = "result"
  THEN <<Head(m.blocks)>>
  ELSE IF m.role = "assistant"
  THEN OfKinds(m.blocks, {"text", "use"})
  ELSE OfKinds(m.blocks, {"text"})

OpenAiRequest(messages) ==
  [system |-> <<>>,
   messages |-> [k \in DOMAIN messages |->
                   [role |-> messages[k].role, blocks |-> OpenAiBlocks(messages[k])]]]

Request(provider, messages) ==
  IF provider = "anthropic" THEN AnthropicRequest(messages) ELSE OpenAiRequest(messages)

---------------------------------------------------------------------------
\* Answers: what a provider sends for response r, line by line, and how the
\* lines are parsed.

Responses ==
  [text : {<<>>, <<"a">>, <<"a", "b">>}, calls : {<<>>, <<"c1">>, <<"c1", "c2">>},
   usage : {[in |-> 3, out |-> 2], [in |-> 0, out |-> 0]}]

Line(pre, type, data) == [pre |-> pre, type |-> type, data |-> data]

\* The providers' wire formats (external).
AnthropicWire(r) ==
  LET item(type, data) == <<Line("event", type, "none"), Line("data", type, data), Line("blank", "", "none")>>
      first == IF r.text = <<>> THEN 0 ELSE 1
  IN  item("message_start", r.usage.in)
      \o Flat([k \in DOMAIN r.text |-> item("text_delta", r.text[k])])
      \o Flat([k \in DOMAIN r.calls |->
                 item("tool_use", <<first + k - 1, r.calls[k]>>)
                 \o item("input_json_delta", <<first + k - 1, r.calls[k]>>)])
      \o item("message_delta", r.usage.out) \o item("message_stop", "none")

OpenAiWire(r) ==
  LET item(type, data) == <<Line("data", type, data), Line("blank", "", "none")>>
  IN  Flat([k \in DOMAIN r.text |-> item("content", r.text[k])])
      \o Flat([k \in DOMAIN r.calls |-> item("tool_calls", <<k - 1, r.calls[k]>>)
                                        \o item("arguments", <<k - 1, r.calls[k]>>)])
      \o item("usage", <<r.usage.in, r.usage.out>>) \o <<Line("data", "[DONE]", "none")>>

NdjsonWire(r) ==
  Append([k \in DOMAIN r.text |-> Line("data", "response", r.text[k])],
         Line("data", "done", <<r.usage.in, r.usage.out>>))

Wire(provider, r) ==
  CASE provider = "ollama" -> NdjsonWire(r)
    [] provider = "anthropic" -> AnthropicWire(r)
    [] provider = "openai" -> OpenAiWire(r)
    [] provider = "stub" -> <<>>

Ev(kind, index, data) == [kind |-> kind, index |-> index, data |-> data]
NoEvent == Ev("none", 0, "none")

\* parse_sse_line
SseLine(l) ==
  CASE l.pre = "blank" -> "Empty"
    [] l.pre = "event" -> "Event"
    [] l.pre = "data" -> IF l.type = "[DONE]" THEN "Done" ELSE "Data"
    [] l.pre = "comment" -> "Comment"
    [] OTHER -> "Data"

\* Mutant: both usage reports count as output.
Mutant_UsageMixed(type, data) ==
  CASE type = "text_delta" -> Ev("content", 0, data)
    [] type = "input_json_delta" -> Ev("args", data[1], data[2])
    [] type = "tool_use" -> Ev("call", data[1], data[2])
    [] type \in {"message_start", "message_delta"} -> Ev("usage", 0, <<0, data>>)
    [] type = "message_stop" -> Ev("done", 0, "none")
    [] OTHER -> NoEvent

\* parse_anthropic_event, by the last event: line and the data: line
AnthropicEvent(type, data) ==
  CASE type = "text_delta" -> Ev("content", 0, data)
    [] type = "input_json_delta" -> Ev("args", data[1], data[2])
    [] type = "tool_use" -> Ev("call", data[1], data[2])
    [] type = "message_start" -> Ev("usage", 0, <<data, 0>>)
    [] type = "message_delta" -> Ev("usage", 0, <<0, data>>)
    [] type = "message_stop" -> Ev("done", 0, "none")
    [] OTHER -> NoEvent

\* parse_openai_event: a usage report of zeros is none.
OpenAiEvent(type, data) ==
  CASE type = "usage" /\ data # <<0, 0>> -> Ev("usage", 0, data)
    [] type = "content" -> Ev("content", 0, data)
    [] type = "tool_calls" -> Ev("call", data[1], data[2])
    [] type = "arguments" -> Ev("args", data[1], data[2])
    [] OTHER -> NoEvent

\* parse_ndjson_event: the final object yields its counts, and its reader ends
\* the stream.
NdjsonEvent(type, data) ==
  CASE type = "response" -> Ev("content", 0, data)
    [] type = "done" -> Ev("usage", 0, data)
    [] OTHER -> NoEvent

\* What a provider's reader makes of a line, after an event line of that type;
\* data that parses to nothing is skipped.
LineEvent(provider, type, l) ==
  IF provider = "ollama" THEN NdjsonEvent(l.type, l.data)
  ELSE CASE SseLine(l) = "Data" -> IF provider = "anthropic" THEN AnthropicEvent(type, l.data)
                                   ELSE OpenAiEvent(l.type, l.data)
         [] SseLine(l) = "Done" -> IF provider = "anthropic" THEN NoEvent ELSE Ev("done", 0, "none")
         [] OTHER -> NoEvent

\* StubAdapter::complete_stream: tokens, two deltas for each call, usage, end.
StubEvents(r) ==
  [k \in DOMAIN r.text |-> Ev("content", 0, r.text[k])]
  \o Flat([k \in DOMAIN r.calls |-> <<Ev("call", k - 1, r.calls[k]), Ev("args", k - 1, r.calls[k])>>])
  \o <<Ev("usage", 0, <<r.usage.in, r.usage.out>>), Ev("done", 0, "none")>>

\* parse_response of either provider, and StubAdapter::complete
Completed(r) == [text |-> r.text, calls |-> r.calls, args |-> r.calls, usage |-> r.usage]

\* StubFixtures::matches: the first entry that matches, or the default.
FixtureFor(entries, default, request) ==
  LET hits == {k \in DOMAIN entries : request \in entries[k].matches}
  IN  IF hits = {} THEN default ELSE entries[Min(hits)].response

NoStream == [on |-> FALSE, provider |-> "none", lines |-> <<>>, events |-> <<>>, type |-> "none",
             got |-> Completed([text |-> <<>>, calls |-> <<>>, usage |-> [in |-> 0, out |-> 0]]),
             want |-> "none", ended |-> FALSE, noise |-> 0]

\* How a reader puts events together.
Took(got, e) ==
  CASE e.kind = "content" -> [got EXCEPT !.text = Append(@, e.data)]
    [] e.kind = "call" -> [got EXCEPT !.calls = Append(@, e.data)]
    [] e.kind = "args" -> [got EXCEPT !.args = Append(@, e.data)]
    [] e.kind = "usage" -> [got EXCEPT !.usage = [in |-> @.in + e.data[1], out |-> @.out + e.data[2]]]
    [] OTHER -> got

---------------------------------------------------------------------------
Caller(pc, attempt, at) == [pc |-> pc, attempt |-> attempt, at |-> at]

LlmInit ==
  /\ recent = <<>> /\ llmNow = 0
  /\ user = [u \in LlmCallers |-> Caller("idle", 0, 0)]
  /\ spent = [total |-> 0, by |-> [w \in CostCentres |-> 0]]
  /\ exact = [cost |-> 0, count |-> 0]
  /\ conv = <<>> /\ stream = NoStream

Turn(u, pc, attempt, at) == user' = [user EXCEPT ![u] = Caller(pc, attempt, at)]

\* A caller asks the limiter, the first time or after waiting.
CheckLimit(u, estimate) ==
  /\ user[u].pc \in {"idle", "limited", "backoff"} /\ llmNow >= user[u].at
  /\ recent' = Pruned
  /\ LET v == LimitVerdict(estimate)
     IN  IF v.allowed THEN Turn(u, "sent", user[u].attempt, user[u].at)
         ELSE Turn(u, "limited", user[u].attempt, llmNow + v.wait)
  /\ UNCHANGED <<llmNow, spent, exact, conv, stream>>

\* A completion succeeds: its usage is recorded and its cost charged.
Succeed(u, model, usage, ws) ==
  /\ user[u].pc = "sent" /\ exact.count < MaxCompletions
  /\ Turn(u, "idle", 0, user[u].at)
  /\ recent' = Append(recent, [at |-> llmNow, tokens |-> usage.in + usage.out])
  /\ \/ \E p \in LookupPricing(model) :
          /\ Charge(ws, CalculateCost(usage, p))
          /\ exact' = [cost |-> exact.cost + usage.in * TruePrice(model).in
                                          + usage.out * TruePrice(model).out,
                       count |-> exact.count + 1]
     \/ LookupPricing(model) = {} /\ exact' = [exact EXCEPT !.count = @ + 1] /\ UNCHANGED spent
  /\ UNCHANGED <<llmNow, conv, stream>>

\* A completion fails: retried after a delay if the error is transient and
\* attempts are left, given up otherwise.
Fail(u, cause, after) ==
  /\ user[u].pc = "sent"
  /\ IF ShouldRetryCall(ErrorOf(cause)) /\ user[u].attempt < MaxRetries
     THEN \E d \in Delays(user[u].attempt) :
            Turn(u, "backoff", user[u].attempt + 1, llmNow + WithRetryAfter(d, after))
     ELSE Turn(u, "failed", user[u].attempt, user[u].at)
  /\ UNCHANGED <<recent, llmNow, spent, exact, conv, stream>>

LlmTick ==
  /\ llmNow < MaxLlmNow /\ llmNow' = llmNow + 1
  /\ UNCHANGED <<recent, user, spent, exact, conv, stream>>

\* One more message.  Message::tool_result holds one result.
Say(m) ==
  /\ Len(conv) < MaxTurns /\ conv' = Append(conv, m)
  /\ UNCHANGED <<recent, user, llmNow, spent, exact, stream>>

Messages ==
  {[role |-> r, blocks |-> <<Block("text", "t")>>] : r \in {"system", "user", "assistant"}}
  \cup {[role |-> "assistant", blocks |-> <<Block("text", "t"), Block("use", c)>>] : c \in {"c1", "c2"}}
  \cup {[role |-> "tool", blocks |-> <<Block("result", c)>>] : c \in {"c1", "c2"}}

\* build_adapter and a fixture, or a live provider: an answer starts.
StartStream(provider, r) ==
  /\ ~stream.on
  /\ stream' = [NoStream EXCEPT !.on = TRUE, !.provider = provider,
       !.lines = Wire(provider, r),
       !.events = IF provider = "stub"
                  THEN StubEvents(FixtureFor(<<[matches |-> {"q"}, response |-> r]>>, NoStream, "q"))
                  ELSE <<>>,
       !.want = Completed(r)]
  /\ UNCHANGED <<recent, user, llmNow, spent, exact, conv>>

\* The reader takes a line: an event line names the type of the data line
\* after it.
ReadLine ==
  /\ stream.on /\ ~stream.ended /\ stream.lines # <<>>
  /\ LET l == Head(stream.lines)
         e == LineEvent(stream.provider, stream.type, l)
     IN  stream' = [stream EXCEPT !.lines = Tail(@),
           !.type = IF SseLine(l) = "Event" THEN l.type ELSE @,
           !.got = Took(@, e), !.ended = e.kind = "done" \/ l.type = "done"]
  /\ UNCHANGED <<recent, user, llmNow, spent, exact, conv>>

\* A keep-alive comment arrives between two lines.
KeepAlive ==
  /\ stream.on /\ ~stream.ended /\ stream.lines # <<>> /\ stream.noise = 0
  /\ stream' = [stream EXCEPT !.lines = <<Line("comment", "", "none")>> \o @, !.noise = 1]
  /\ UNCHANGED <<recent, user, llmNow, spent, exact, conv>>

\* The reader takes an event of the stub's own stream.
ReadEvent ==
  /\ stream.on /\ ~stream.ended /\ stream.events # <<>>
  /\ stream' = [stream EXCEPT !.events = Tail(@), !.got = Took(@, Head(stream.events)),
                              !.ended = Head(stream.events).kind = "done"]
  /\ UNCHANGED <<recent, user, llmNow, spent, exact, conv>>

Usages == {[in |-> 3, out |-> 1], [in |-> 1, out |-> 4]}
Causes == [kind : {"http"}, status : {429, 401, 504}] \cup [kind : {"connection", "tls"}, status : {0}]

GatewayNext ==
  \/ \E u \in LlmCallers :
       \/ CheckLimit(u, 1)
       \/ \E m \in Models, g \in Usages, w \in CostCentres \cup {"none"} : Succeed(u, m, g, w)
       \/ \E c \in Causes, after \in {0, 2} : Fail(u, c, after)
  \/ LlmTick

AnswerNext ==
  \/ \E m \in Messages : Say(m)
  \/ \E p \in {"anthropic", "openai", "ollama", "stub"}, r \in Responses :
       (p = "ollama" => r.calls = <<>>) /\ StartStream(p, r)
  \/ ReadLine \/ KeepAlive \/ ReadEvent

LlmSpec == LlmInit /\ [][GatewayNext \/ AnswerNext]_llmVars

---------------------------------------------------------------------------
\* The limiter is asked before a request and told after it, so concurrent
\* callers can pass together: the overshoot is never more than the other
\* callers, requests under way included.
OvershootBounded ==
  MaxRequests > 0 =>
    Cardinality(InWindow) + Cardinality({u \in LlmCallers : user[u].pc = "sent"})
      <= MaxRequests - 1 + Cardinality(LlmCallers)

\* Costs are exact up to the truncation of two divisions for each completion,
\* at the price of the most specific entry.
CostsExact ==
  /\ spent.total * PriceUnit <= exact.cost
  /\ exact.cost <= (spent.total + 2 * exact.count) * PriceUnit

\* What the workspaces were charged is never more than the total.
ChargedWithinTotal ==
  FoldSet(LAMBDA w, acc : acc + spent.by[w], 0, CostCentres) <= spent.total

\* Every tool call and tool result of a conversation reaches the provider,
\* whichever it is, in the order it was said.
RequestsKeepTools ==
  \A p \in {"anthropic", "openai"} :
    LET toolBlocks(ms) == Flat([k \in DOMAIN ms |-> OfKinds(ms[k].blocks, {"use", "result"})])
    IN  toolBlocks(Request(p, conv).messages) = toolBlocks(conv)

\* A streamed answer, put together delta by delta, is the answer a plain
\* completion gives, usage included, and nothing follows its end.
StreamAgrees ==
  stream.ended => stream.got = stream.want /\ stream.events = <<>>

\* The gateway is faithful: limits and costs under concurrent callers, requests
\* and streamed answers in each provider's format.
GatewaySound ==
  OvershootBounded /\ CostsExact /\ ChargedWithinTotal /\ RequestsKeepTools /\ StreamAgrees
=============================================================================
