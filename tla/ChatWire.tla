------------------------------ MODULE ChatWire -------------------------------
(***************************************************************************)
(* What the chat proxy makes of a Responses request (convert.rs), of the   *)
(* tool calls' signatures (server.rs) and of the provider's reply          *)
(* (sse.rs), and what codex makes of the events.                           *)
(*                                                                         *)
(* A text is a sequence of its pieces.  A name is a sequence of the parts  *)
(* that "__jns__" separates: a function by its own name has one part, one  *)
(* in a namespace has the namespace's before it.                           *)
(***************************************************************************)
EXTENDS Naturals, Sequences, SequencesExt

None == <<>>
Blank(text) == \A i \in DOMAIN text : text[i] = " "

\* The elements of a sequence that are of a kind, in their order.
Those(seq, Of(_)) ==
  FlattenSeq([i \in DOMAIN seq |-> IF Of(seq[i]) THEN <<seq[i]>> ELSE <<>>])

-----------------------------------------------------------------------------
(* The transcript that codex sends                                         *)

\* Items have a kind; parts are the contents of a message.
Message(role, parts) == [kind |-> "message", role |-> role, parts |-> parts]
FunctionCall(id, ns, name, args) ==
  [kind |-> "function_call", id |-> id, ns |-> ns, name |-> name, args |-> args]
FunctionCallOutput(id, output) == [kind |-> "function_call_output", id |-> id, output |-> output]

Traces == {"reasoning", "reasoning_summary", "computer_call", "computer_call_output"}

\* RawResponsesInputItem: the names and arguments of a call must not be empty.
ItemParses(item) ==
  \/ item.kind \in {"text", "message"} \cup Traces
  \/ item.kind = "function_call" /\ item.id # None /\ ~Blank(item.name) /\ ~Blank(item.args)
  \/ item.kind = "function_call_output" /\ item.id # None

-----------------------------------------------------------------------------
(* The chat payload                                                        *)

Call(id, name, args, sig) == [id |-> id, name |-> name, args |-> args, sig |-> sig]
NoCall == Call(None, None, None, None)
Chat(role, text, call, answers) == [role |-> role, text |-> text, call |-> call, answers |-> answers]
Said(role, text) == Chat(role, text, NoCall, None)
Called(call) == Chat("assistant", None, call, None)
Result(id, text) == Chat("tool", text, NoCall, id)

ChatRole(role) == IF role = "developer" THEN "system" ELSE role

\* One message per call.
ChatMessages(item) ==
  CASE item.kind = "text" -> <<Said("user", item.text)>>
    [] item.kind = "message" -> <<Said(ChatRole(item.role), FlattenSeq(item.parts))>>
    [] item.kind = "function_call" -> <<Called(Call(item.id, item.ns \o item.name, item.args, None))>>
    [] item.kind = "function_call_output" -> <<Result(item.id, item.output)>>
    [] OTHER -> <<>>

\* chat_tools: the functions, by their full names; the others are left out.
IsFunction(tool) == tool.kind = "function"
ChatTools(tools, strict) ==
  LET functions == Those(tools, IsFunction)
  IN [i \in DOMAIN functions |-> [name |-> functions[i].name, strict |-> strict /\ functions[i].strict]]

\* responses_request_to_chat_payload.  The schema goes before everything, the
\* note on tools left out after; with tools there is no format.
Note(about) == Said("system", <<about>>)

ToChat(request, items, route) ==
  LET tools == ChatTools(request.tools, route.schema)
      instructions == IF Blank(request.instructions) THEN <<>> ELSE <<Said("system", request.instructions)>>
      omitted == IF Len(tools) = Len(request.tools) THEN <<>> ELSE <<Note("omitted tools")>>
      said == instructions \o FlattenSeq([i \in DOMAIN items |-> ChatMessages(items[i])]) \o omitted
      free == tools # <<>> \/ request.format \in {"none", "text"}
      downgraded == ~free /\ request.format = "json_schema" /\ ~route.schema
      cap == IF request.maxOutput # None THEN request.maxOutput ELSE request.maxTokens
  IN [messages |-> IF downgraded THEN <<Note("schema")>> \o said ELSE said,
      tools |-> tools,
      choice |-> IF tools = <<>> THEN "none" ELSE request.choice,
      format |-> IF free THEN "none" ELSE IF downgraded THEN "json_object" ELSE request.format,
      maxTokens |-> IF cap # None /\ cap[1] > 0 THEN cap ELSE None]

-----------------------------------------------------------------------------
(* Signatures: a map from call ids, as a function                          *)

Signed(calls) == {calls[i].id : i \in {j \in DOMAIN calls : calls[j].sig # None}}

Newest(calls, id) ==
  LET at == {i \in DOMAIN calls : calls[i].id = id /\ calls[i].sig # None}
  IN calls[CHOOSE i \in at : \A j \in at : j <= i].sig

\* harvest_signatures, from a reply that need not be valid otherwise.  Faulty
\* variant: the map is that of one reply.
HarvestedOnly(signatures, calls) == [id \in Signed(calls) |-> Newest(calls, id)]

Harvested(signatures, calls) ==
  [id \in DOMAIN signatures \cup Signed(calls) |->
     IF id \in Signed(calls) THEN Newest(calls, id) ELSE signatures[id]]

Reattached(messages, signatures) ==
  [i \in DOMAIN messages |->
     IF messages[i].call.id \in DOMAIN signatures
     THEN [messages[i] EXCEPT !.call.sig = signatures[messages[i].call.id]] ELSE messages[i]]

-----------------------------------------------------------------------------
(* build_events_validated                                                  *)

\* A reply has a text, which may be missing, and calls.  Ids of items are made
\* from the number of the reply.
NameOf(full) == IF Len(full) > 1 THEN [ns |-> <<full[1]>>, name |-> Tail(full)] ELSE [ns |-> None, name |-> full]

Event(type, id, body) == [type |-> type, id |-> id, body |-> body]

MessageEvents(n, text) ==
  LET id == <<n>>
  IN <<Event("output_item.added", id, None), Event("content_part.added", id, None)>>
     \o (IF text = <<>> THEN <<>> ELSE <<Event("output_text.delta", id, text)>>)
     \o <<Event("output_text.done", id, text), Event("content_part.done", id, text),
          Event("output_item.done", id, Message("assistant", <<text>>))>>

CallItem(call) ==
  LET split == NameOf(call.name) IN FunctionCall(call.id, split.ns, split.name, call.args)

CallEvents(n, i, call) ==
  LET id == <<n, i>>
  IN <<Event("output_item.added", id, None),
       Event("function_call_arguments.delta", id, call.args),
       Event("function_call_arguments.done", id, call.args),
       Event("output_item.done", id, CallItem(call))>>

\* A text next to calls is left out when it is empty.
Speaks(reply) == reply.calls = <<>> \/ reply.text # <<>>

Output(reply) ==
  (IF Speaks(reply) THEN <<Message("assistant", <<reply.text>>)>> ELSE <<>>)
  \o [i \in DOMAIN reply.calls |-> CallItem(reply.calls[i])]

Events(n, reply) ==
  <<Event("created", None, None), Event("in_progress", None, None)>>
  \o (IF Speaks(reply) THEN MessageEvents(n, reply.text) ELSE <<>>)
  \o FlattenSeq([i \in DOMAIN reply.calls |-> CallEvents(n, i, reply.calls[i])])
  \o <<Event("completed", None, Output(reply))>>

-----------------------------------------------------------------------------
(* codex                                                                   *)

\* The active item: what was not opened is dropped; done items are kept.
Reconcile(state, event) ==
  CASE event.type = "output_item.added" -> [state EXCEPT !.active = event.id]
    [] event.type = "output_item.done" ->
         IF event.id = state.active
         THEN [active |-> None, items |-> Append(state.items, event.body)] ELSE state
    [] OTHER -> state

Reconciled(events) ==
  LET after[n \in 0 .. Len(events)] ==
        IF n = 0 THEN [active |-> None, items |-> <<>>] ELSE Reconcile(after[n - 1], events[n])
  IN after[Len(events)].items
=============================================================================
