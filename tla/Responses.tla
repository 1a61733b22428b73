----------------------------- MODULE Responses -----------------------------
(***************************************************************************)
(* What a model's answer becomes: the providers                            *)
(* (intelligence/openai_provider.py, ollama.py), the parser (parser.py),   *)
(* the retry of the proof-of-concept generator (poc_generator.py) and the  *)
(* exploitability scorer (scoring/exploitability.py).                      *)
(*                                                                         *)
(* An answer is what comes back over HTTP.  Its text is known by what the  *)
(* code looks for: a sign of code, a refusing word, one of OpenAI's        *)
(* refusing phrases, and the JSON object in it, if any.                    *)
(***************************************************************************)
EXTENDS Sequences

Got(v)     == [kind |-> "got", value |-> v]
Failure(k) == [kind |-> k]        \* "connection", "response", "refusal": LLM...Error
Crash      == [kind |-> "crash"]  \* an AttributeError or TypeError, no LLM error at all

----------------------------------------------------------------------------
(* The providers *)

\* The text of the assistant's message, or why there is none.  A JSON body that is no
\* object is not expected
OllamaText(answer) ==
  CASE answer.body = "unreachable" -> Failure("connection")
    [] answer.body = "not json"    -> Failure("response")
    [] answer.body = "not object"  -> Crash
    [] answer.body = "no content"  -> Failure("response")
    [] OTHER                       -> Got(answer.text)

\* the content filter is looked at last, when there is a text
OpenaiText(answer) ==
  LET message == OllamaText(answer) IN
  IF message.kind = "got" /\ answer.body = "filtered" THEN Failure("refusal") ELSE message

MessageText(provider, answer) ==
  IF provider = "openai" THEN OpenaiText(answer) ELSE OllamaText(answer)

----------------------------------------------------------------------------
(* The parser *)

\* a refusing word without any sign of code ("{" is one)
IsRefusal(text) == text.refusing /\ ~text.code

\* "web:5000" names the service "web"; what is no port after the last colon stays
ServiceName(dns) == IF dns.port THEN dns.host ELSE dns.text

\* the JSON object between the first and the last brace, and its four fields
ParseLlmResponse(text) ==
  IF IsRefusal(text) THEN Failure("refusal")
  ELSE IF text.json # "complete" THEN Failure("response")
  ELSE Got(ServiceName(text.dns))

\* legacy: OpenAI's phrases refuse whatever else the text has
GenerateExploit(provider, answer) ==
  LET message == MessageText(provider, answer) IN
  IF message.kind # "got" THEN message
  ELSE IF provider = "openai" /\ message.value.phrase THEN Failure("refusal")
  ELSE ParseLlmResponse(message.value)

----------------------------------------------------------------------------
(* PocGenerator.generate *)

\* variant: the first refusal is final
AttemptOnce(provider, answer, n) ==
  LET message == MessageText(provider, answer) IN
  IF message.kind # "got" THEN message ELSE ParseLlmResponse(message.value)

\* variant: every refusal is followed by another attempt
AttemptAlways(provider, answer, n) ==
  LET message == MessageText(provider, answer) IN
  IF message.kind # "got" THEN message
  ELSE IF IsRefusal(message.value) THEN Failure("retry") ELSE ParseLlmResponse(message.value)

\* One attempt.  complete() is outside the try block: what the provider raises is not
\* retried, a refusal in the text of the first attempt is
Attempt(provider, answer, n) ==
  LET message == MessageText(provider, answer) IN
  IF message.kind # "got" THEN message
  ELSE LET parsed == ParseLlmResponse(message.value) IN
       IF parsed.kind = "refusal" /\ n = 1 THEN Failure("retry") ELSE parsed

----------------------------------------------------------------------------
(* ExploitabilityScorer.score *)

\* Any refusal by words is just no JSON.  "complete" here means: a score in [0, 1], a
\* known attack surface, a list of prerequisites.  A surface that cannot be hashed is
\* a TypeError
Score(provider, answer) ==
  LET message == MessageText(provider, answer) IN
  IF message.kind # "got" THEN message
  ELSE IF message.value.json = "unhashable" THEN Crash
  ELSE IF message.value.json # "complete" THEN Failure("response")
  ELSE Got("score")

=============================================================================
