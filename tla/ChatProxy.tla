------------------------------ MODULE ChatProxy ------------------------------
(***************************************************************************)
(* The chat proxy: spawned for a model (lib.rs, route.rs), it serves every *)
(* codex child of the run (server.rs), one request per connection, each    *)
(* connection in a task of its own.  The tasks share the map of signatures *)
(* and the spending ledger, which is module ProxyBudget; here a            *)
(* reservation is one step.                                                *)
(*                                                                         *)
(* codex and the provider are external.  codex keeps a transcript, sends   *)
(* it whole with each request, and asks again when a request fails or      *)
(* takes too long, while the task of the old one goes on.                  *)
(***************************************************************************)
EXTENDS ChatWire, FiniteSets

CONSTANTS
  Conv,      \* conversations: one per codex child
  Settings,  \* the environment with the model the proxy is spawned for, and
             \* what each codex sends besides its transcript, what the provider
             \* may reply to it and, as a bound, how often it asks
  MaxAsks    \* the largest of these bounds

IsSeq(s) == s \in Seq(ToSet(s))

\* A session of codex starts with what the host and a user say; the provider calls
\* functions that it was offered.
ASSUME ChatAssumption ==
  /\ MaxAsks \in Nat /\ IsFiniteSet(Conv)
  /\ \A s \in Settings :
       /\ s.env.outputCap \in Nat /\ s.env.tokenCap \in Nat
       /\ \A c \in Conv :
            LET t == s.talk[c] IN
            /\ IsSeq(t.prompt) /\ \A i \in ToSet(t.prompt) :
                 \/ i.kind \notin {"message", "function_call", "function_call_output"}
                 \/ i.kind = "message" /\ i.role \in {"user", "developer", "system"}
            /\ IsSeq(t.tools) /\ \A tool \in ToSet(t.tools) : IsSeq(tool.name)
            /\ IsSeq(t.instructions)
            /\ t.maxOutput \in Seq(Nat) /\ t.maxTokens \in Seq(Nat)
            /\ \A r \in t.replies :
                 /\ IsSeq(r.text) /\ IsSeq(r.calls)
                 /\ \A call \in ToSet(r.calls) : call.tool \in DOMAIN Those(t.tools, IsFunction)
            /\ t.asks \in 0 .. MaxAsks

VARIABLES
  env,         \* the environment
  server,      \* "none" (not spawned), "native", "refused", "up", "dropped"
  signatures,  \* ServerState.signatures
  ledger,      \* tokens reserved
  counter,     \* ServerState.counter
  conn,        \* per request: where its task is, and what it holds
  talk,        \* per conversation: what its requests carry
  codex,       \* per conversation: where codex is
  items,       \* its transcript
  asked,       \* and how many requests it has made
  truth,       \* what was really said in it, as chat messages
  used         \* tokens the provider has charged for

shared == <<signatures, ledger, counter>>
client == <<codex, items, asked, truth>>
fixed == <<env, talk>>
vars == <<fixed, server, shared, conn, client, used>>

Requests == Conv \X (1 .. MaxAsks)

\* A task's state; it is forgotten when the connection is closed.
Closed == [at |-> "closed"]
Opened(what, transcript, told) ==
  [at |-> "read", what |-> what, items |-> transcript, truth |-> told,
   payload |-> None, reply |-> None, code |-> 0, events |-> None]

\* The messages of the users in a transcript, as they are meant.
Spoken(transcript) ==
  LET mine == Those(transcript, LAMBDA i : i.kind = "text" \/ (i.kind = "message" /\ i.role = "user"))
  IN [i \in DOMAIN mine |->
        Said("user", IF mine[i].kind = "text" THEN mine[i].text ELSE FlattenSeq(mine[i].parts))]

Init ==
  /\ \E s \in Settings : env = s.env /\ talk = s.talk
  /\ server = "none"
  /\ signatures = [id \in {} |-> None] /\ ledger = 0 /\ counter = 0
  /\ conn = [k \in Requests |-> Closed]
  /\ codex = [c \in Conv |-> [at |-> IF talk[c].asks = 0 THEN "done" ELSE "ready", waits |-> 0]]
  /\ items = [c \in Conv |-> talk[c].prompt]
  /\ asked = [c \in Conv |-> 0]
  /\ truth = [c \in Conv |-> Spoken(talk[c].prompt)]
  /\ used = 0

-----------------------------------------------------------------------------
(* ChatProxy::spawn                                                        *)

\* ModelRouteId::parse and resolve_route_checked: a model of no known family
\* is treated as a native one, and only a custom one reads the environment.
Unrouted == env.family \in {"native", "unknown"}
BadRoute == env.family = "custom" /\ env.custom \in {"missing", "invalid"}
Route == [schema |-> env.family \in {"gemini", "openrouter"} \/ (env.family = "custom" /\ env.custom = "schema")]

\* The key, the port, the home of codex and the budget, in this order.
SpawnFails == BadRoute \/ ~env.key \/ ~env.disk \/ env.budget = "invalid"

Spawn ==
  /\ server = "none"
  /\ server' = IF Unrouted THEN "native" ELSE IF SpawnFails THEN "refused" ELSE "up"
  /\ UNCHANGED <<fixed, shared, conn, client, used>>

\* Dropping it stops the accept loop; the tasks go on.
Drop ==
  /\ server = "up" /\ \A c \in Conv : codex[c].at \in {"done", "failed"}
  /\ server' = "dropped"
  /\ UNCHANGED <<fixed, shared, conn, client, used>>

-----------------------------------------------------------------------------
(* handle_connection, handle_responses                                     *)

Goes(k, from, state) == conn[k].at = from /\ conn' = [conn EXCEPT ![k] = state]

Replying(k, code) == [conn[k] EXCEPT !.at = "write", !.code = code]

\* read_request: a connection may be closed without a word, or break off.
ReadRequest(k) ==
  /\ Goes(k, "read",
       IF conn[k].what = "nothing" THEN Closed
       ELSE IF conn[k].what = "malformed" THEN Replying(k, 400)
       ELSE [conn[k] EXCEPT !.at = "dispatch"])
  /\ UNCHANGED <<fixed, server, shared, client, used>>

\* classify_endpoint; the health check needs no credential.
Dispatch(k) ==
  /\ Goes(k, "dispatch",
       CASE conn[k].what = "health" -> Replying(k, 200)
         [] conn[k].what = "stranger" -> Replying(k, 401)
         [] conn[k].what = "models" -> Replying(k, 200)
         [] conn[k].what = "elsewhere" -> Replying(k, 404)
         [] OTHER -> [conn[k] EXCEPT !.at = "translate"])
  /\ UNCHANGED <<fixed, server, shared, client, used>>

Translates(k) ==
  conn[k].what = "responses" /\ \A i \in DOMAIN conn[k].items : ItemParses(conn[k].items[i])

\* A body that does not parse, or is no Responses request.
BadRequest(k) ==
  /\ Goes(k, "translate", Replying(k, 400)) /\ ~Translates(k)
  /\ UNCHANGED <<fixed, server, shared, client, used>>

\* The signatures are read under their lock.
Translate(k) ==
  /\ conn[k].at = "translate" /\ Translates(k)
  /\ LET chat == ToChat(talk[k[1]], conn[k].items, Route)
     IN Goes(k, "translate",
          [conn[k] EXCEPT !.at = IF env.budget = "none" THEN "send" ELSE "reserve",
             !.payload = [chat EXCEPT !.messages = Reattached(@, signatures)]])
  /\ UNCHANGED <<fixed, server, shared, client, used>>

\* What is counted of a payload: its messages, tools and signatures.
Size(payload) ==
  Len(payload.messages) + Len(payload.tools)
  + Cardinality({i \in DOMAIN payload.messages : payload.messages[i].call.sig # None})

Least(a, b) == IF a < b THEN a ELSE b

\* Faulty variant: a payload keeps the cap it came with.
CapKept(payload, cap) ==
  IF payload.maxTokens = None THEN [payload EXCEPT !.maxTokens = <<cap>>] ELSE payload

WithCap(payload, cap) == [payload EXCEPT !.maxTokens = <<cap>>]

OutputCap(payload) ==
  IF payload.maxTokens = None THEN env.outputCap ELSE Least(payload.maxTokens[1], env.outputCap)
Reserved(payload) == Size(payload) + OutputCap(payload)
Admits(payload) == Size(payload) <= env.bodyCap /\ ledger + Reserved(payload) <= env.tokenCap

Reserve(k) ==
  /\ conn[k].at = "reserve" /\ Admits(conn[k].payload)
  /\ Goes(k, "reserve",
       [conn[k] EXCEPT !.at = "send", !.payload = WithCap(@, OutputCap(@))])
  /\ ledger' = ledger + Reserved(conn[k].payload)
  /\ UNCHANGED <<fixed, server, signatures, counter, client, used>>

OverBudget(k) ==
  /\ conn[k].at = "reserve" /\ ~Admits(conn[k].payload)
  /\ Goes(k, "reserve", Replying(k, 402))
  /\ UNCHANGED <<fixed, server, shared, client, used>>

\* A request that fails on the way, is refused, or is answered with no JSON.
UpstreamFails(k) ==
  /\ \E code \in {502, 429, 400} : Goes(k, "send", Replying(k, code))
  /\ "errors" \in talk[k[1]].provider
  /\ used' \in {used, used + Size(conn[k].payload)}
  /\ UNCHANGED <<fixed, server, shared, client>>

\* The provider's ids are its own, its calls those of tools it was offered.  A
\* signature is told apart by the id it was made for.
Offered(k, n) == conn[k].payload.tools[n].name
Cost(reply) == Len(reply.text) + Len(reply.calls)

\* The provider replies, within the cap it was given.
UpstreamReplies(k) ==
  /\ conn[k].at = "send"
  /\ \E r \in talk[k[1]].replies :
         LET id(i) == <<k[1], k[2], i>>
             reply == [valid |-> r.valid, text |-> r.text,
                       calls |-> [i \in DOMAIN r.calls |->
                                    Call(id(i), Offered(k, r.calls[i].tool), r.calls[i].args,
                                         IF r.calls[i].signed THEN id(i) ELSE None)]]
         IN /\ conn[k].payload.maxTokens # None => Cost(reply) <= conn[k].payload.maxTokens[1]
            /\ Goes(k, "send", [conn[k] EXCEPT !.at = "harvest", !.reply = reply])
            /\ used' = used + Size(conn[k].payload) + Cost(reply)
  /\ UNCHANGED <<fixed, server, shared, client>>

Harvest(k) ==
  /\ Goes(k, "harvest", [conn[k] EXCEPT !.at = "build"])
  /\ signatures' = Harvested(signatures, conn[k].reply.calls)
  /\ UNCHANGED <<fixed, server, ledger, counter, client, used>>

\* ChatResponse::from_value: no choices, no usage, or a call without an id.
BadReply(k) ==
  /\ conn[k].at = "build" /\ ~conn[k].reply.valid
  /\ Goes(k, "build", Replying(k, 502))
  /\ UNCHANGED <<fixed, server, shared, client, used>>

Build(k) ==
  /\ conn[k].at = "build" /\ conn[k].reply.valid
  /\ Goes(k, "build", [Replying(k, 200) EXCEPT !.events = Events(counter, conn[k].reply)])
  /\ counter' = counter + 1
  /\ UNCHANGED <<fixed, server, signatures, ledger, client, used>>

-----------------------------------------------------------------------------
(* codex                                                                   *)

Awaits(k) == codex[k[1]] = [at |-> "waiting", waits |-> k[2]]

\* What codex does after a request that brought nothing.
Again(c) == IF asked[c] < talk[c].asks THEN "ready" ELSE "failed"
Moves(c, to) == codex' = [codex EXCEPT ![c] = [at |-> to, waits |-> 0]]

Ask(c) ==
  /\ codex[c].at = "ready" /\ server = "up" /\ asked[c] < talk[c].asks
  /\ \E what \in IF asked[c] = 0 THEN talk[c].errands ELSE {"responses"} :
       conn' = [conn EXCEPT ![<<c, asked[c] + 1>>] = Opened(what, items[c], truth[c])]
  /\ codex' = [codex EXCEPT ![c] = [at |-> "waiting", waits |-> asked[c] + 1]]
  /\ asked' = [asked EXCEPT ![c] = @ + 1]
  /\ UNCHANGED <<fixed, server, shared, items, truth, used>>

\* Without a server there is nobody to ask.
Unserved(c) ==
  /\ codex[c].at = "ready" /\ server \in {"native", "refused", "dropped"}
  /\ Moves(c, "failed")
  /\ UNCHANGED <<fixed, server, shared, conn, items, asked, truth, used>>

\* With stream off, the response object alone.
Received(k) ==
  IF talk[k[1]].stream THEN Reconciled(conn[k].events) ELSE conn[k].events[Len(conn[k].events)].body

Heard(reply) ==
  (IF reply.text = <<>> THEN <<>> ELSE <<Said("assistant", reply.text)>>)
  \o [i \in DOMAIN reply.calls |-> Called(reply.calls[i])]

\* write_raw: the reply reaches codex if it still waits for it.
Write(k) ==
  /\ Goes(k, "write", Closed)
  /\ LET c == k[1]
         answered == conn[k].events # None
         new == IF answered THEN Received(k) ELSE <<>>
     IN IF ~Awaits(k) THEN UNCHANGED <<codex, items, truth>>
        ELSE IF ~answered
        THEN Moves(c, IF conn[k].code \in {200, 502, 429} THEN Again(c) ELSE "failed") /\ UNCHANGED <<items, truth>>
        ELSE /\ items' = [items EXCEPT ![c] = @ \o new]
             /\ truth' = [truth EXCEPT ![c] = @ \o Heard(conn[k].reply)]
             /\ Moves(c, IF \E i \in DOMAIN new : new[i].kind = "function_call" THEN "tools" ELSE "done")
  /\ UNCHANGED <<fixed, server, shared, asked, used>>

\* The connection breaks, or codex has waited for too long, or was killed.
Hangup(c) ==
  /\ codex[c].at = "waiting" /\ "hangs up" \in talk[c].provider
  /\ \E to \in {Again(c), "failed"} : Moves(c, to)
  /\ UNCHANGED <<fixed, server, shared, conn, items, asked, truth, used>>

\* A request that was dropped without a reply.
Dropped(c) ==
  /\ codex[c].at = "waiting" /\ conn[<<c, codex[c].waits>>] = Closed
  /\ Moves(c, Again(c))
  /\ UNCHANGED <<fixed, server, shared, conn, items, asked, truth, used>>

\* The calls that have no output yet are run, in their order.
RunTools(c) ==
  /\ codex[c].at = "tools"
  /\ LET open == Those(items[c], LAMBDA i :
                   i.kind = "function_call" /\
                   ~\E j \in DOMAIN items[c] : items[c][j].kind = "function_call_output" /\ items[c][j].id = i.id)
         output(i) == IF open[i].ns \o open[i].name \in {t.name : t \in ToSet(talk[c].tools)}
                      THEN <<"ran">> ELSE <<"no such tool">>
     IN /\ items' = [items EXCEPT ![c] = @ \o [i \in DOMAIN open |-> FunctionCallOutput(open[i].id, output(i))]]
        /\ truth' = [truth EXCEPT ![c] = @ \o [i \in DOMAIN open |-> Result(open[i].id, <<"ran">>)]]
  /\ Moves(c, Again(c))
  /\ UNCHANGED <<fixed, server, shared, conn, asked, used>>

-----------------------------------------------------------------------------
Task(k) ==
  \/ ReadRequest(k) \/ Dispatch(k) \/ BadRequest(k) \/ Translate(k) \/ Reserve(k) \/ OverBudget(k)
  \/ UpstreamFails(k) \/ UpstreamReplies(k) \/ Harvest(k) \/ BadReply(k) \/ Build(k) \/ Write(k)

Child(c) == Ask(c) \/ Unserved(c) \/ Dropped(c) \/ RunTools(c)

Over ==
  /\ server # "up" /\ \A c \in Conv : codex[c].at \in {"done", "failed"}
  /\ \A k \in Requests : conn[k] = Closed
  /\ UNCHANGED vars

Next ==
  \/ Spawn \/ Drop \/ Over
  \/ \E k \in Requests : Task(k)
  \/ \E c \in Conv : Child(c) \/ Hangup(c)

Spec == Init /\ [][Next]_vars

-----------------------------------------------------------------------------
(* Properties                                                              *)

Payloads == {k \in Requests : conn[k].at \in {"reserve", "send", "harvest", "build"}}

\* What a payload says of the conversation, without the host's own messages
\* and an assistant's empty ones.
Conversation(payload) ==
  Those(payload.messages, LAMBDA m :
    m.role # "system" /\ ~(m.role = "assistant" /\ m.text = <<>> /\ m.call = NoCall))

\* The provider is shown the conversation it has had, whole and in order: each
\* of its calls with the arguments it gave and the signature it put on it, and
\* each output with the id of its call, whichever conversations' replies came
\* in between and whichever requests were given up and repeated.
ConversationKept ==
  \A k \in Payloads : Conversation(conn[k].payload) = conn[k].truth

\* Whatever the provider replies to the requests that are on their way, all it
\* charges for was reserved before, and the cap holds, also for the requests
\* that codex has given up and repeated.
SpentWasReserved ==
  LET open == {k \in Requests : conn[k].at = "send"}
      most[S \in SUBSET open] ==
        IF S = {} THEN 0
        ELSE LET k == CHOOSE k \in S : TRUE
             IN Size(conn[k].payload) + conn[k].payload.maxTokens[1] + most[S \ {k}]
  IN env.budget = "valid" => used + most[open] <= ledger /\ ledger <= env.tokenCap
=============================================================================
