---------------------------- MODULE MCChatProxy -----------------------------
(***************************************************************************)
(* A conversation with tools, and a short one beside it over the same      *)
(* proxy; and the ways the proxy is spawned.                               *)
(***************************************************************************)
EXTENDS ChatProxy

Tool(kind, name) == [kind |-> kind, name |-> name, strict |-> TRUE]
Tools == <<Tool("custom", <<"patch">>), Tool("function", <<"shell">>), Tool("function", <<"mcp", "read">>)>>

Asked(tool, signed, args) == [tool |-> tool, args |-> args, signed |-> signed]
Reply(text, calls) == [valid |-> TRUE, text |-> text, calls |-> calls]
Answer == Reply(<<"yes">>, <<>>)
OneCall == Reply(<<>>, <<Asked(1, TRUE, <<"{}">>)>>)
TwoCalls == Reply(<<"first">>, <<Asked(2, TRUE, <<"{}">>), Asked(1, FALSE, <<"{}">>)>>)
BothSigned == Reply(<<>>, <<Asked(1, TRUE, <<"{}">>), Asked(2, TRUE, <<"{}">>)>>)
NoArguments == Reply(<<>>, <<Asked(1, FALSE, <<>>)>>)
NoUsage == [OneCall EXCEPT !.valid = FALSE]

User(text) == Message("user", <<text>>)
Plain == [prompt |-> <<User(<<"audit">>)>>, tools |-> <<>>, choice |-> "auto",
          instructions |-> None, format |-> "none", maxOutput |-> None, maxTokens |-> None,
          stream |-> TRUE, provider |-> {}, replies |-> {Answer}, errands |-> {"responses"}, asks |-> 1]
Prompt ==
  <<Message("developer", <<<<"policy">>>>), [kind |-> "reasoning"], [kind |-> "text", text |-> <<"audit">>],
    Message("user", <<<<"these">>, <<"files">>>>)>>
Agent ==
  [Plain EXCEPT !.tools = Tools, !.prompt = Prompt, !.instructions = <<"be", " ", "brief">>,
                !.replies = {Answer, OneCall, TwoCalls, BothSigned}, !.asks = 3]
Side == [Plain EXCEPT !.tools = Tools, !.replies = {OneCall, BothSigned}, !.asks = 3]
Idle == [Plain EXCEPT !.asks = 0]

Gemini == [family |-> "gemini", custom |-> "missing", key |-> TRUE, disk |-> TRUE, budget |-> "none",
           bodyCap |-> 99, outputCap |-> 99, tokenCap |-> 99]
DeepSeek ==
  [Gemini EXCEPT !.family = "deepseek", !.budget = "valid", !.outputCap = 3, !.tokenCap = 36, !.bodyCap = 14]

Set(environ, main, side) == [env |-> environ, talk |-> [c \in Conv |-> IF c = "main" THEN main ELSE side]]

\* Agents whose provider fails and whose connections break.
Trouble == {"errors", "hangs up"}
Agents ==
  {Set(Gemini, Agent, Side),
   Set(DeepSeek, [Agent EXCEPT !.provider = Trouble, !.replies = {BothSigned}, !.asks = 2], Side),
   Set(DeepSeek, [Agent EXCEPT !.provider = Trouble, !.replies = {OneCall, NoUsage, TwoCalls}, !.maxTokens = <<4>>],
       Idle),
   Set(Gemini, [Agent EXCEPT !.stream = FALSE, !.maxTokens = <<4>>, !.maxOutput = <<0>>,
                             !.replies = {BothSigned, NoArguments}], Side)}

\* Answers in a format, refused transcripts, and other requests.
Others ==
  {Set(e, [Plain EXCEPT !.format = f, !.maxTokens = <<2>>, !.instructions = <<" ">>,
                        !.replies = {Answer, Reply(<<>>, <<>>)}], Idle) :
     e \in {Gemini, DeepSeek}, f \in {"text", "json_object", "json_schema"}}
  \cup
  {Set(Gemini, [Plain EXCEPT !.prompt = <<[kind |-> "input_image"]>>], Idle),
   Set(Gemini, [Agent EXCEPT !.errands = {"nothing", "malformed", "garbled", "health", "models",
                                          "stranger", "elsewhere"}, !.replies = {OneCall}], Idle)}

Environs ==
  {[Gemini EXCEPT !.family = f, !.custom = v, !.key = k] :
     f \in {"native", "unknown", "custom", "openrouter"}, v \in {"missing", "invalid", "schema"}, k \in BOOLEAN}
  \cup {[Gemini EXCEPT !.disk = FALSE], [Gemini EXCEPT !.budget = "invalid"]}

MCSettings == Agents \cup Others \cup {Set(e, Plain, Idle) : e \in Environs}
=============================================================================
