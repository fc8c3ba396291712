--------------------------- MODULE AssistantProofs ---------------------------
(***************************************************************************)
(* An action that the model proposed takes effect at most once and only as *)
(* confirmed, a conversation keeps its session, and no client loses what   *)
(* it has seen stored: for any number of clients, sessions, conversations, *)
(* requests in flight and turns, whatever is lost, fails or is given up.   *)
(***************************************************************************)
EXTENDS Assistant, TLAPS

Chat == [conv : Conversations \cup {None}, history : Seq(Message),
         phase : {"idle", "chat", "confirm", "execute", "report"},
         waits : Requests \cup {None}]
Row == [session : Sessions, messages : Seq(Message), pending : Actions \cup {None}]

Types ==
  /\ session \in [Clients -> Sessions]
  /\ chat \in [Clients -> Chat]
  /\ row \in [Conversations -> Row \cup {None}]
  /\ request \in [Requests -> ChatRequest \cup ExecuteRequest \cup {None}]
  /\ turn \in Nat /\ turn <= MaxTurns
  /\ proposed \in [Turns -> Actions \cup {None}]
  /\ confirmed \subseteq Turns
  /\ ran \in [Turns -> Nat]

\* The action the client asks about is that of the turn its history ends in.
Offered(cl) == Last(chat[cl].history).turn

\* No two requests in flight belong to one turn.
OneRequestPerTurn == \A r, q \in Busy : request[r].turn = request[q].turn => r = q

\* Requests, offers and confirmations belong to turns that have begun.
Begun ==
  /\ \A r \in Busy : request[r].turn \in 1..turn
  /\ \A cl \in Clients : chat[cl].phase = "confirm" => Offered(cl) \in 1..turn
  /\ confirmed \subseteq 1..turn

\* While its turn is answered an action is not confirmed; while it is executed
\* it is, and has taken effect only if the response is all that is left.
RequestsInOrder ==
  \A r \in Busy :
    /\ request[r].kind = "chat" => request[r].turn \notin confirmed
    /\ request[r].kind = "execute" =>
         /\ request[r].turn \in confirmed
         /\ request[r].step = "run" => ran[request[r].turn] = 0

\* An offer is open, in the hands of one client, and its turn is over.
OneOfferPerTurn ==
  \A cl \in Clients : chat[cl].phase = "confirm" =>
    /\ Offered(cl) \notin confirmed
    /\ \A r \in Busy : request[r].turn # Offered(cl)
    /\ \A other \in Clients :
         chat[other].phase = "confirm" /\ Offered(other) = Offered(cl) => other = cl

\* Nobody waits for a slot that is free or that somebody else waits for.
OneWaiter ==
  \A cl \in Clients : chat[cl].waits # None =>
    /\ chat[cl].waits \in Busy
    /\ \A other \in Clients : chat[other].waits = chat[cl].waits => other = cl

RunInv ==
  /\ OneRequestPerTurn /\ Begun /\ RequestsInOrder /\ OneOfferPerTurn /\ OneWaiter
  /\ RunsOnceAsConfirmed

LEMMA TypesInit == Init => Types
<1> SUFFICES ASSUME Init PROVE Types
  OBVIOUS
<1>1. (CHOOSE s \in Sessions : TRUE) \in Sessions
  BY AssistantAssumption
<1>2. Idle \in Chat
  BY DEF Idle, Chat
<1> QED
  BY <1>1, <1>2, AssistantAssumption DEF Init, Types, Turns

LEMMA TrimTypes ==
  ASSUME NEW messages \in Seq(Message)
  PROVE  trimAIMessages(messages) \in Seq(Message)
BY AssistantAssumption DEF trimAIMessages

\* What a history ends in.
LEMMA LastAppended ==
  ASSUME NEW h \in Seq(Message), NEW m \in Message
  PROVE  Append(h, m) \in Seq(Message) /\ Last(Append(h, m)) = m
BY DEF Last

\* The slot that Post fills was free.
LEMMA FreeSlot ==
  ASSUME Busy # Requests
  PROVE  /\ (CHOOSE slot \in Requests : slot \notin Busy) \in Requests
         /\ (CHOOSE slot \in Requests : slot \notin Busy) \notin Busy
<1>1. \E slot \in Requests : slot \notin Busy
  BY DEF Busy
<1> QED
  BY <1>1

\* A client begins to wait for a request of the right kind.
LEMMA PostTypes ==
  ASSUME Types, NEW cl \in Clients, NEW q \in ChatRequest \cup ExecuteRequest,
         NEW history \in Seq(Message), NEW phase \in {"chat", "execute"},
         Post(cl, q, history, phase)
  PROVE  chat' \in [Clients -> Chat]
         /\ request' \in [Requests -> ChatRequest \cup ExecuteRequest \cup {None}]
<1> DEFINE r == CHOOSE slot \in Requests : slot \notin Busy
<1>1. r \in Requests
  BY FreeSlot DEF Post
<1>2. [chat[cl] EXCEPT !.history = history, !.phase = phase, !.waits = r] \in Chat
  BY <1>1 DEF Types, Chat
<1> QED
  BY <1>1, <1>2 DEF Post, Types

\* The request that a turn begins with.
LEMMA ChatTurnPosts ==
  ASSUME Types, NEW cl \in Clients, ChatTurn(cl, Append(chat[cl].history, Question(turn + 1)))
  PROVE  /\ turn + 1 \in Turns
         /\ \E q \in ChatRequest, h \in Seq(Message) :
              /\ Post(cl, q, h, "chat") /\ q.turn = turn + 1 /\ q.kind = "chat" /\ q.step = "model"
              /\ q.messages = h /\ h = Append(chat[cl].history, Question(turn + 1))
              /\ chat[cl].conv \in {None, q.conv}
<1> DEFINE c == IF chat[cl].conv = None THEN CHOOSE u \in Unused : TRUE ELSE chat[cl].conv
           h == Append(chat[cl].history, Question(turn + 1))
           q == [kind |-> "chat", step |-> "model", session |-> session[cl], turn |-> turn + 1,
                 conv |-> c, messages |-> h, round |-> 0]
<1>1. c \in Conversations
  <2>1. CASE chat[cl].conv = None
    <3>1. Unused # {} /\ Unused \subseteq Conversations
      BY <2>1 DEF ChatTurn, Unused
    <3>2. (CHOOSE u \in Unused : TRUE) \in Unused
      BY <3>1
    <3> QED
      BY <2>1, <3>1, <3>2
  <2>2. CASE chat[cl].conv # None
    BY <2>2 DEF Types, Chat
  <2> QED
    BY <2>1, <2>2
<1>2. h \in Seq(Message)
  BY LastAppended DEF Types, Chat, Message, Question
<1>3. turn + 1 \in Turns
  BY AssistantAssumption DEF ChatTurn, Types, Turns
<1>4. q \in ChatRequest
  BY <1>1, <1>2, <1>3 DEF Types, ChatRequest
<1>5. Post(cl, q, h, "chat")
  BY DEF ChatTurn
<1>6. q.turn = turn + 1 /\ q.kind = "chat" /\ q.step = "model" /\ q.messages = h
      /\ chat[cl].conv \in {None, q.conv}
  OBVIOUS
<1>7. h = Append(chat[cl].history, Question(turn + 1))
  OBVIOUS
<1> HIDE DEF q, h
<1> QED
  BY <1>2, <1>3, <1>4, <1>5, <1>6, <1>7

LEMMA ChatTurnTypes ==
  ASSUME Types, NEW cl \in Clients, ChatTurn(cl, Append(chat[cl].history, Question(turn + 1)))
  PROVE  Types'
<1>1. PICK q \in ChatRequest, h \in Seq(Message) : Post(cl, q, h, "chat")
  BY ChatTurnPosts
<1>2. chat' \in [Clients -> Chat]
      /\ request' \in [Requests -> ChatRequest \cup ExecuteRequest \cup {None}]
  BY <1>1, PostTypes
<1> QED
  BY <1>2, ChatTurnPosts, AssistantAssumption DEF ChatTurn, Types, Turns

\* What a request at a step is.
LEMMA RequestAtStep ==
  ASSUME Types, NEW r \in Requests, NEW step
  PROVE  /\ AtStep(r, "chat", step) => r \in Busy /\ request[r] \in ChatRequest /\ request[r].step = step
         /\ AtStep(r, "execute", step) => r \in Busy /\ request[r] \in ExecuteRequest /\ request[r].step = step
BY DEF AtStep, Busy, Types, ChatRequest, ExecuteRequest

\* The server's steps keep the types.
LEMMA ServeTypes ==
  ASSUME Types, NEW r \in Requests, Serve(r)
  PROVE  Types'
<1>1. CASE CallTool(r)
  <2> DEFINE q == request[r]
             n == q.round + 1
  <2>1. q \in ChatRequest
    BY <1>1, RequestAtStep DEF CallTool
  <2>2. [q EXCEPT !.round = n] \in ChatRequest
    BY <2>1 DEF ChatRequest
  <2>3. [q EXCEPT !.round = 0, !.step = "save"] \in ChatRequest
    BY <2>1 DEF ChatRequest
  <2>4. \E p \in ChatRequest : request' = [request EXCEPT ![r] = p]
    <3>1. CASE n < MaxRounds
      <4>1. request' = [request EXCEPT ![r] = [q EXCEPT !.round = n]]
        BY <1>1, <3>1 DEF CallTool
      <4> QED
        BY <4>1, <2>2
    <3>2. CASE ~(n < MaxRounds)
      <4>1. request' = [request EXCEPT ![r] = [q EXCEPT !.round = 0, !.step = "save"]]
        BY <1>1, <3>2 DEF CallTool
      <4> QED
        BY <4>1, <2>3
    <3> QED
      BY <3>1, <3>2
  <2> QED
    BY <1>1, <2>4 DEF CallTool, Types
<1>2. CASE answerEntityRetrievalIntent(r)
  BY SMTT(30), <1>2, RequestAtStep DEF answerEntityRetrievalIntent, Types, ChatRequest
<1>3. CASE Complete(r)
  <2> DEFINE q == request[r]
  <2>1. q \in ChatRequest
    BY <1>3, RequestAtStep DEF Complete
  <2>2. [q EXCEPT !.step = "save", !.round = 0] \in ChatRequest
    BY <2>1 DEF ChatRequest
  <2>3. request' \in [Requests -> ChatRequest \cup ExecuteRequest \cup {None}]
    BY <1>3, <2>2 DEF Complete, Types
  <2>4. proposed' \in [Turns -> Actions \cup {None}]
    BY <1>3, <2>1 DEF Complete, PendingAction, Types
  <2> QED
    BY <1>3, <2>3, <2>4 DEF Complete, Types
<1>4. CASE SaveConversation(r)
  <2> DEFINE q == request[r]
  <2>1. q \in ChatRequest
    BY <1>4, RequestAtStep DEF SaveConversation
  <2>2. Append(q.messages, Answer(q.turn)) \in Seq(Message)
    BY <2>1, LastAppended DEF ChatRequest, Answer, Message, Turns
  <2>3. trimAIMessages(Append(q.messages, Answer(q.turn))) \in Seq(Message)
    BY <2>2, TrimTypes
  <2>4. row' \in [Conversations -> Row \cup {None}]
    BY <1>4, <2>1, <2>3 DEF SaveConversation, PendingColumn, Types, ChatRequest, Row
  <2>5. request' \in [Requests -> ChatRequest \cup ExecuteRequest \cup {None}]
    BY <1>4, <2>1 DEF SaveConversation, Types, ChatRequest
  <2> QED
    BY <1>4, <2>4, <2>5 DEF SaveConversation, Types
<1>5. CASE RespondChat(r)
  <2> DEFINE q == request[r]
  <2>1. q \in ChatRequest
    BY <1>5, RequestAtStep DEF RespondChat
  <2>2. \A cl \in Clients : Append(chat[cl].history, Answer(q.turn)) \in Seq(Message)
    BY <2>1, LastAppended DEF Types, Chat, ChatRequest, Answer, Message, Turns
  <2>3. chat' \in [Clients -> Chat]
    BY <1>5, <2>1, <2>2 DEF RespondChat, Types, Chat, ChatRequest
  <2> QED
    BY <1>5, <2>3 DEF RespondChat, Types
<1>6. CASE ExecuteAction(r)
  BY <1>6, RequestAtStep DEF ExecuteAction, Types, ExecuteRequest
<1>7. CASE RespondAction(r)
  BY ZenonT(60), <1>7 DEF RespondAction, Types, Chat
<1>8. CASE Fail(r)
  BY ZenonT(60), <1>8 DEF Fail, AfterError, Types, Chat
<1> QED
  BY <1>1, <1>2, <1>3, <1>4, <1>5, <1>6, <1>7, <1>8 DEF Serve

LEMMA ConfirmTypes ==
  ASSUME Types, Begun, NEW cl \in Clients, Confirm(cl)
  PROVE  Types'
<1> DEFINE t == Last(chat[cl].history).turn
           q == [kind |-> "execute", step |-> "run", conv |-> None, turn |-> t]
           h == chat[cl].history
<1>1. t \in Turns
  BY AssistantAssumption DEF Confirm, Begun, Offered, Types, Turns
<1>2. q \in ExecuteRequest /\ h \in Seq(Message)
  BY <1>1 DEF ExecuteRequest, Types, Chat
<1>3. Post(cl, q, h, "execute")
  BY DEF Confirm
<1> HIDE DEF q, h
<1>4. chat' \in [Clients -> Chat]
      /\ request' \in [Requests -> ChatRequest \cup ExecuteRequest \cup {None}]
  BY <1>2, <1>3, PostTypes
<1> QED
  BY <1>1, <1>4 DEF Confirm, Types

LEMMA DeclineTypes ==
  ASSUME Types, Begun, NEW cl \in Clients, Decline(cl)
  PROVE  Types'
<1> DEFINE h == chat[cl].history
           m == Question(Last(h).turn)
<1>1. h \in Seq(Message) /\ m \in Message
  BY AssistantAssumption DEF Decline, Begun, Offered, Types, Chat, Question, Message
<1>2. Append(h, m) \in Seq(Message)
  BY <1>1, LastAppended
<1>3. [chat[cl] EXCEPT !.phase = "idle", !.history = Append(h, m)] \in Chat
  BY <1>2 DEF Types, Chat
<1> QED
  BY <1>3 DEF Decline, Types

LEMMA TypesStep == Types /\ Begun /\ [Next]_vars => Types'
<1> SUFFICES ASSUME Types, Begun, [Next]_vars PROVE Types'
  OBVIOUS
<1>1. ASSUME NEW cl \in Clients, Say(cl) \/ Report(cl) PROVE Types'
  BY <1>1, ChatTurnTypes DEF Say, Report
<1>2. ASSUME NEW cl \in Clients, Confirm(cl) \/ Decline(cl) PROVE Types'
  BY <1>2, ConfirmTypes, DeclineTypes
<1>3. ASSUME NEW cl \in Clients, GiveUp(cl) \/ SignIn(cl) PROVE Types'
  <2>1. AfterError(chat[cl].phase) \in {"idle", "report"}
    BY DEF AfterError
  <2>2. [chat[cl] EXCEPT !.waits = None, !.phase = AfterError(chat[cl].phase)] \in Chat
    BY <2>1 DEF Types, Chat
  <2> QED
    BY <1>3, <2>2 DEF GiveUp, SignIn, Types
<1>4. ASSUME NEW cl \in Clients, Quit(cl) PROVE Types'
  BY <1>4 DEF Quit, Idle, Types, Chat
<1>5. ASSUME NEW cl \in Clients, Resume(cl) PROVE Types'
  BY ZenonT(60), <1>5 DEF Resume, Types, Chat, Row
<1>6. CASE CleanupAssistantConversations
  BY <1>6 DEF CleanupAssistantConversations, Types
<1>7. CASE UNCHANGED vars
  BY <1>7 DEF vars, Types
<1> QED
  BY <1>1, <1>2, <1>3, <1>4, <1>5, <1>6, <1>7, ServeTypes DEF Next

LEMMA RunInit == Init => RunInv
<1> SUFFICES ASSUME Init PROVE RunInv
  OBVIOUS
<1>1. Busy = {}
  BY DEF Init, Busy
<1>2. \A cl \in Clients : chat[cl].phase = "idle" /\ chat[cl].waits = None
  BY DEF Init, Idle
<1>3. confirmed = {} /\ \A t \in Turns : ran[t] = 0
  BY DEF Init
<1> QED
  BY <1>1, <1>2, <1>3
  DEF RunInv, OneRequestPerTurn, Begun, RequestsInOrder, OneOfferPerTurn, OneWaiter, RunsOnceAsConfirmed

\* A step that begins no request and no offer, confirms nothing and executes
\* nothing: what it may do to requests, clients and answers.
Quiet ==
  /\ turn' = turn /\ confirmed' = confirmed /\ ran' = ran
  /\ \A r \in Busy' : /\ r \in Busy
                      /\ request'[r].turn = request[r].turn /\ request'[r].kind = request[r].kind
                      /\ request'[r].step = "run" => request[r].step = "run"
  /\ \A cl \in Clients :
       /\ chat'[cl].waits # None => chat'[cl].waits = chat[cl].waits /\ chat'[cl].waits \in Busy'
       /\ chat'[cl].phase = "confirm" => chat[cl].phase = "confirm" /\ chat'[cl].history = chat[cl].history
  /\ \A t \in confirmed : proposed'[t] = proposed[t]

LEMMA QuietStep == RunInv /\ Quiet => RunInv'
<1> SUFFICES ASSUME RunInv, Quiet PROVE RunInv'
  OBVIOUS
<1> USE DEF RunInv, Quiet
<1>1. \A cl \in Clients : chat'[cl].phase = "confirm" => Offered(cl)' = Offered(cl)
  BY DEF Offered
<1>2. OneRequestPerTurn'
  BY DEF OneRequestPerTurn
<1>3. Begun'
  BY <1>1 DEF Begun
<1>4. RequestsInOrder'
  BY DEF RequestsInOrder
<1>5. OneOfferPerTurn'
  BY <1>1 DEF OneOfferPerTurn
<1>6. OneWaiter'
  BY DEF OneWaiter
<1>7. RunsOnceAsConfirmed'
  BY DEF RunsOnceAsConfirmed
<1> QED
  BY <1>2, <1>3, <1>4, <1>5, <1>6, <1>7

\* A client that begins to wait in a phase of its own leaves every other offer
\* and request as it was.
LEMMA PostFrame ==
  ASSUME Types, Begun, OneWaiter, NEW cl \in Clients, NEW q \in ChatRequest \cup ExecuteRequest,
         NEW history \in Seq(Message), NEW phase \in {"chat", "execute"},
         Post(cl, q, history, phase)
  PROVE  /\ \E r \in Requests \ Busy :
              /\ Busy' = Busy \cup {r}
              /\ request'[r] = q
              /\ \A other \in Busy : request'[other] = request[other]
              /\ chat'[cl].waits = r /\ chat'[cl].phase = phase
              /\ chat'[cl].history = history /\ chat'[cl].conv = chat[cl].conv
         /\ \A other \in Clients \ {cl} : chat'[other] = chat[other]
         /\ \A other \in Clients : chat'[other].phase = "confirm" => other # cl /\ chat'[other] = chat[other]
         /\ OneWaiter'
<1> DEFINE r == CHOOSE slot \in Requests : slot \notin Busy
<1>1. r \in Requests /\ r \notin Busy
  BY FreeSlot DEF Post
<1>2. request' = [request EXCEPT ![r] = q]
  BY DEF Post
<1>3. chat' = [chat EXCEPT ![cl] = [chat[cl] EXCEPT !.history = history, !.phase = phase, !.waits = r]]
  BY DEF Post
<1> HIDE DEF r
<1>4. q # None
  BY NoneAssumption
<1>5. Busy' = Busy \cup {r} /\ request'[r] = q /\ \A other \in Busy : request'[other] = request[other]
  BY <1>1, <1>2, <1>4 DEF Busy, Types
<1>6. chat'[cl].phase = phase /\ chat'[cl].waits = r
      /\ chat'[cl].history = history /\ chat'[cl].conv = chat[cl].conv
  BY <1>3 DEF Types, Chat
<1>7. \A other \in Clients \ {cl} : chat'[other] = chat[other]
  BY <1>3 DEF Types
<1>8. OneWaiter'
  BY <1>1, <1>5, <1>6, <1>7 DEF OneWaiter
<1> QED
  BY <1>1, <1>5, <1>6, <1>7, <1>8

\* What a client is left with after an error, after its user declined, and
\* when it resumes a conversation.
LEMMA Changed ==
  ASSUME NEW c \in Chat, NEW phase, NEW history, NEW conv
  PROVE  /\ [c EXCEPT !.waits = None, !.phase = phase].waits = None
         /\ [c EXCEPT !.waits = None, !.phase = phase].phase = phase
         /\ [c EXCEPT !.phase = phase, !.history = history].waits = c.waits
         /\ [c EXCEPT !.phase = phase, !.history = history].phase = phase
         /\ [c EXCEPT !.conv = conv, !.history = history].waits = c.waits
         /\ [c EXCEPT !.conv = conv, !.history = history].phase = c.phase
BY DEF Chat

\* The steps of the server that are quiet, and those of the client.
LEMMA ServeQuiet ==
  ASSUME Types, RunInv, NEW r \in Requests,
         \/ CallTool(r) \/ answerEntityRetrievalIntent(r) \/ Complete(r) \/ SaveConversation(r)
         \/ RespondAction(r) \/ Fail(r)
  PROVE  Quiet
<1> DEFINE Kept(x) == /\ request'[x].turn = request[x].turn /\ request'[x].kind = request[x].kind
                      /\ request'[x].step = "run" => request[x].step = "run"
<1>1. ASSUME r \in Busy, NEW q, request' = [request EXCEPT ![r] = q],
             q.turn = request[r].turn, q.kind = request[r].kind, q.step # "run", q # None
      PROVE  Busy' = Busy /\ \A x \in Busy : Kept(x)
  BY <1>1 DEF Busy, Types
<1>2. ASSUME UNCHANGED chat, Busy' = Busy
      PROVE  \A cl \in Clients :
        /\ chat'[cl].waits # None => chat'[cl].waits = chat[cl].waits /\ chat'[cl].waits \in Busy'
        /\ chat'[cl].phase = "confirm" => chat[cl].phase = "confirm" /\ chat'[cl].history = chat[cl].history
  BY <1>2 DEF RunInv, OneWaiter
<1>3. ASSUME NEW step, AtStep(r, "chat", step)
      PROVE  r \in Busy /\ request[r] \in ChatRequest /\ request[r].turn \in Turns \ confirmed
  BY <1>3, RequestAtStep DEF RunInv, RequestsInOrder, ChatRequest
<1>4. \A q \in ChatRequest : q # None
  BY NoneAssumption
<1>5. CASE CallTool(r)
  <2> DEFINE q == request[r]
             n == q.round + 1
  <2>1. r \in Busy /\ q \in ChatRequest /\ q.step = "model"
    BY <1>5, RequestAtStep DEF CallTool
  <2>2. [q EXCEPT !.round = n] \in ChatRequest /\ [q EXCEPT !.round = 0, !.step = "save"] \in ChatRequest
    <3>1. [q EXCEPT !.round = n] \in ChatRequest
      BY <2>1 DEF ChatRequest
    <3>2. [q EXCEPT !.round = 0, !.step = "save"] \in ChatRequest
      BY <2>1 DEF ChatRequest
    <3> QED
      BY <3>1, <3>2
  <2>3. CASE n < MaxRounds
    <3>1. request' = [request EXCEPT ![r] = [q EXCEPT !.round = n]]
      BY <1>5, <2>3 DEF CallTool
    <3>2. [q EXCEPT !.round = n].turn = q.turn /\ [q EXCEPT !.round = n].kind = q.kind
          /\ [q EXCEPT !.round = n].step # "run"
      BY <2>1 DEF ChatRequest
    <3>3. Busy' = Busy /\ \A x \in Busy : Kept(x)
      BY <1>1, <1>4, <2>1, <2>2, <3>1, <3>2
    <3> QED
      BY <1>2, <1>5, <3>3 DEF CallTool, Quiet
  <2>4. CASE ~(n < MaxRounds)
    <3> DEFINE p == [q EXCEPT !.round = 0, !.step = "save"]
    <3>1. request' = [request EXCEPT ![r] = p]
      BY <1>5, <2>4 DEF CallTool
    <3>2. p.turn = q.turn /\ p.kind = q.kind /\ p.step # "run"
      BY <2>1 DEF ChatRequest
    <3>3. Busy' = Busy /\ \A x \in Busy : Kept(x)
      BY <1>1, <1>4, <2>1, <2>2, <3>1, <3>2
    <3> QED
      BY <1>2, <1>5, <3>3 DEF CallTool, Quiet
  <2> QED
    BY <2>3, <2>4
<1>6. ASSUME NEW step \in {"model", "save"}, NEW to \in {"save", "respond"},
             AtStep(r, "chat", step), request' = [request EXCEPT ![r].step = to]
      PROVE  Busy' = Busy /\ \A x \in Busy : Kept(x)
  <2> DEFINE p == [request[r] EXCEPT !.step = to]
  <2>1. p \in ChatRequest /\ p.turn = request[r].turn /\ p.kind = request[r].kind /\ p.step # "run"
    BY <1>3, <1>6 DEF ChatRequest
  <2>2. request' = [request EXCEPT ![r] = p]
    BY <1>6
  <2> QED
    BY <1>1, <1>3, <1>4, <1>6, <2>1, <2>2
<1>7. CASE answerEntityRetrievalIntent(r)
  BY <1>2, <1>6, <1>7 DEF answerEntityRetrievalIntent, Quiet
<1>8. CASE SaveConversation(r)
  BY <1>2, <1>6, <1>8 DEF SaveConversation, Quiet
<1>9. CASE Complete(r)
  <2> DEFINE q == request[r]
             p == [q EXCEPT !.step = "save", !.round = 0]
  <2>1. r \in Busy /\ q \in ChatRequest /\ q.turn \in Turns \ confirmed
    BY <1>3, <1>9 DEF Complete
  <2>2. p \in ChatRequest /\ p.turn = q.turn /\ p.kind = q.kind /\ p.step # "run"
    BY <2>1 DEF ChatRequest
  <2>3. request' = [request EXCEPT ![r] = p]
    BY <1>9 DEF Complete
  <2>4. Busy' = Busy /\ \A x \in Busy : Kept(x)
    BY <1>1, <1>4, <2>1, <2>2, <2>3
  <2>5. \A t \in confirmed : proposed'[t] = proposed[t]
    BY <1>9, <2>1 DEF Complete, Types
  <2> QED
    BY <1>2, <1>9, <2>4, <2>5 DEF Complete, Quiet
<1>10. CASE RespondAction(r) \/ Fail(r)
  <2>1. request' = [request EXCEPT ![r] = None]
    BY <1>10 DEF RespondAction, Fail
  <2>2. Busy' = Busy \ {r} /\ \A x \in Busy' : Kept(x)
    BY <2>1 DEF Busy, Types
  <2>3. \A cl \in Clients :
          \/ chat[cl].waits # r /\ chat'[cl] = chat[cl]
          \/ chat'[cl].waits = None /\ chat'[cl].phase # "confirm"
    <3> SUFFICES ASSUME NEW cl \in Clients, chat[cl].waits = r
                 PROVE  chat'[cl].waits = None /\ chat'[cl].phase # "confirm"
      BY <1>10 DEF RespondAction, Fail
    <3>1. chat[cl] \in Chat
      BY DEF Types
    <3>2. CASE RespondAction(r)
      <4>1. chat'[cl] = [chat[cl] EXCEPT !.waits = None, !.phase = "report"]
        BY <3>2 DEF RespondAction
      <4> QED
        BY <3>1, <4>1, Changed
    <3>3. CASE Fail(r)
      <4>1. chat'[cl] = [chat[cl] EXCEPT !.waits = None, !.phase = AfterError(chat[cl].phase)]
        BY <3>1, <3>3 DEF Fail, Chat
      <4>2. AfterError(chat[cl].phase) # "confirm"
        BY DEF AfterError
      <4> QED
        BY <3>1, <4>1, <4>2, Changed
    <3> QED
      BY <1>10, <3>2, <3>3
  <2>4. \A cl \in Clients : chat[cl].waits # None => chat[cl].waits \in Busy
    BY DEF RunInv, OneWaiter
  <2> QED
    BY <1>10, <2>2, <2>3, <2>4 DEF RespondAction, Fail, Quiet
<1> QED
  BY <1>5, <1>7, <1>8, <1>9, <1>10

LEMMA ClientQuiet ==
  ASSUME Types, RunInv,
         \/ \E cl \in Clients : Decline(cl) \/ GiveUp(cl) \/ Quit(cl) \/ Resume(cl) \/ SignIn(cl)
         \/ CleanupAssistantConversations
         \/ UNCHANGED vars
  PROVE  Quiet
<1>1. UNCHANGED <<request, turn, proposed, confirmed, ran>>
  BY DEF Decline, GiveUp, Quit, Resume, SignIn, CleanupAssistantConversations, vars
<1>2. Busy' = Busy
  BY <1>1 DEF Busy
<1>3. \A cl \in Clients : chat[cl].waits # None => chat[cl].waits \in Busy
  BY DEF RunInv, OneWaiter
<1>4. \A cl \in Clients :
        \/ chat'[cl] = chat[cl]
        \/ chat'[cl].waits \in {None, chat[cl].waits} /\ chat'[cl].phase # "confirm"
  <2>1. CASE UNCHANGED chat
    BY <2>1
  <2>2. ASSUME NEW cl \in Clients, Decline(cl) \/ GiveUp(cl) \/ Quit(cl) \/ Resume(cl)
        PROVE  /\ \A other \in Clients \ {cl} : chat'[other] = chat[other]
               /\ chat'[cl].waits \in {None, chat[cl].waits} /\ chat'[cl].phase # "confirm"
    <3>1. chat[cl] \in Chat
      BY DEF Types
    <3>2. CASE Decline(cl)
      <4> DEFINE h == Append(chat[cl].history, Question(Last(chat[cl].history).turn))
      <4>1. chat' = [chat EXCEPT ![cl] = [chat[cl] EXCEPT !.phase = "idle", !.history = h]]
        BY <3>2 DEF Decline
      <4> HIDE DEF h
      <4> QED
        BY <3>1, <4>1, Changed DEF Types
    <3>3. CASE GiveUp(cl)
      <4>1. AfterError(chat[cl].phase) # "confirm"
        BY DEF AfterError
      <4> QED
        BY <3>1, <3>3, <4>1, Changed DEF GiveUp, Types
    <3>4. CASE Quit(cl)
      BY <3>4 DEF Quit, Idle, Types
    <3>5. CASE Resume(cl)
      <4>1. PICK c \in Conversations :
              chat' = [chat EXCEPT ![cl] = [chat[cl] EXCEPT !.conv = c, !.history = row[c].messages]]
        BY <3>5 DEF Resume
      <4>2. chat[cl].phase = "idle"
        <5>1. chat[cl] = Idle
          BY <3>5 DEF Resume
        <5>2. Idle.phase = "idle"
          BY DEF Idle
        <5> QED
          BY <5>1, <5>2
      <4> DEFINE v == [chat[cl] EXCEPT !.conv = c, !.history = row[c].messages]
      <4>3. v.waits = chat[cl].waits /\ v.phase = chat[cl].phase
        BY <3>1, Changed
      <4>4. chat' = [chat EXCEPT ![cl] = v]
        BY <4>1
      <4> HIDE DEF v
      <4> QED
        BY <4>2, <4>3, <4>4 DEF Types
    <3> QED
      BY <2>2, <3>2, <3>3, <3>4, <3>5
  <2> QED
    BY <2>1, <2>2 DEF SignIn, CleanupAssistantConversations, vars
<1> QED
  BY <1>1, <1>2, <1>3, <1>4 DEF Quiet

\* A turn that begins has no request, no offer and no confirmation yet.
LEMMA ChatTurnKeeps ==
  ASSUME Types, RunInv, NEW cl \in Clients, ChatTurn(cl, Append(chat[cl].history, Question(turn + 1)))
  PROVE  RunInv'
<1> USE DEF RunInv
<1>1. turn' = turn + 1 /\ UNCHANGED <<proposed, confirmed, ran>>
  BY DEF ChatTurn
<1>2. PICK q \in ChatRequest, h \in Seq(Message) :
        Post(cl, q, h, "chat") /\ q.turn = turn + 1 /\ q.kind = "chat"
  BY ChatTurnPosts
<1>3. PICK r \in Requests \ Busy :
        Busy' = Busy \cup {r} /\ request'[r] = q /\ \A other \in Busy : request'[other] = request[other]
  BY <1>2, PostFrame
<1>4. /\ \A other \in Clients : chat'[other].phase = "confirm" => other # cl /\ chat'[other] = chat[other]
      /\ OneWaiter'
  BY <1>2, PostFrame
<1>5. \A other \in Clients : chat'[other].phase = "confirm" =>
        chat[other].phase = "confirm" /\ Offered(other)' = Offered(other)
  BY <1>4 DEF Offered
<1>6. turn \in Nat /\ turn + 1 \notin 1..turn /\ turn + 1 \in 1..(turn + 1)
      /\ \A t \in 1..turn : t \in 1..(turn + 1)
  BY DEF Types
<1>7. OneRequestPerTurn'
  BY <1>2, <1>3, <1>6 DEF OneRequestPerTurn, Begun
<1>8. Begun'
  BY <1>1, <1>2, <1>3, <1>5, <1>6 DEF Begun
<1>9. RequestsInOrder'
  BY <1>1, <1>2, <1>3, <1>6 DEF RequestsInOrder, Begun
<1>10. OneOfferPerTurn'
  BY <1>1, <1>2, <1>3, <1>5, <1>6 DEF OneOfferPerTurn, Begun
<1>11. RunsOnceAsConfirmed'
  BY <1>1 DEF RunsOnceAsConfirmed
<1> QED
  BY <1>4, <1>7, <1>8, <1>9, <1>10, <1>11

\* A confirmation closes the offer; the only request of its turn is the one
\* that executes it, which has not taken effect.
LEMMA ConfirmKeeps ==
  ASSUME Types, RunInv, NEW cl \in Clients, Confirm(cl)
  PROVE  RunInv'
<1> USE DEF RunInv
<1> DEFINE t == Offered(cl)
           q == [kind |-> "execute", step |-> "run", conv |-> None, turn |-> t]
           h == chat[cl].history
<1>1. chat[cl].phase = "confirm" /\ confirmed' = confirmed \cup {t}
      /\ UNCHANGED <<turn, proposed, ran>>
  BY DEF Confirm, Offered
<1>2. t \in 1..turn /\ t \in Turns /\ t \notin confirmed /\ \A x \in Busy : request[x].turn # t
  BY <1>1, AssistantAssumption DEF Begun, OneOfferPerTurn, Types, Turns
<1>3. q \in ExecuteRequest /\ h \in Seq(Message)
  BY <1>2 DEF ExecuteRequest, Types, Chat
<1>4. Post(cl, q, h, "execute")
  BY DEF Confirm, Offered
<1>5. q.turn = t /\ q.kind = "execute"
  OBVIOUS
<1> HIDE DEF q, h
<1>6. PICK r \in Requests \ Busy :
        Busy' = Busy \cup {r} /\ request'[r] = q /\ \A other \in Busy : request'[other] = request[other]
  BY <1>3, <1>4, PostFrame
<1>7. /\ \A other \in Clients : chat'[other].phase = "confirm" => other # cl /\ chat'[other] = chat[other]
      /\ OneWaiter'
  BY <1>3, <1>4, PostFrame
<1>8. \A other \in Clients : chat'[other].phase = "confirm" =>
        other # cl /\ chat[other].phase = "confirm" /\ Offered(other)' = Offered(other)
  BY <1>7 DEF Offered
<1>9. \A other \in Clients : chat'[other].phase = "confirm" => Offered(other)' # t
  BY <1>1, <1>8 DEF OneOfferPerTurn
<1>10. ran[t] = 0
  BY <1>2 DEF RunsOnceAsConfirmed, Types
<1> HIDE DEF t
<1>11. OneRequestPerTurn'
  BY <1>2, <1>5, <1>6 DEF OneRequestPerTurn
<1>12. Begun'
  BY <1>1, <1>2, <1>5, <1>6, <1>8 DEF Begun
<1>13. RequestsInOrder'
  BY <1>1, <1>2, <1>5, <1>6, <1>10 DEF RequestsInOrder
<1>14. OneOfferPerTurn'
  BY <1>1, <1>5, <1>6, <1>8, <1>9 DEF OneOfferPerTurn
<1>15. RunsOnceAsConfirmed'
  BY <1>1 DEF RunsOnceAsConfirmed
<1> QED
  BY <1>7, <1>11, <1>12, <1>13, <1>14, <1>15

\* The answer reaches the one client that waits for it; the offer it may make
\* is the first for its turn.
LEMMA RespondChatKeeps ==
  ASSUME Types, RunInv, NEW r \in Requests, RespondChat(r)
  PROVE  RunInv'
<1> USE DEF RunInv
<1> DEFINE q == request[r]
<1>1. r \in Busy /\ q \in ChatRequest /\ q.turn \in Turns /\ q.turn \notin confirmed
  BY RequestAtStep DEF RespondChat, RequestsInOrder, ChatRequest
<1>2. UNCHANGED <<turn, proposed, confirmed, ran>> /\ request' = [request EXCEPT ![r] = None]
  BY DEF RespondChat
<1>3. Busy' = Busy \ {r} /\ \A x \in Busy' : request'[x] = request[x]
  BY <1>2 DEF Busy, Types
<1>4. \A cl \in Clients : chat[cl].waits # r => chat'[cl] = chat[cl]
  BY DEF RespondChat
<1>5. ASSUME NEW cl \in Clients, chat[cl].waits = r
      PROVE  chat'[cl].waits = None /\ Offered(cl)' = q.turn
  <2>1. chat[cl].history \in Seq(Message) /\ Answer(q.turn) \in Message
    BY <1>1 DEF Types, Chat, Answer, Message, Turns
  <2>2. chat'[cl].waits = None /\ chat'[cl].history = Append(chat[cl].history, Answer(q.turn))
    BY <1>5 DEF RespondChat
  <2> QED
    BY <2>1, <2>2, LastAppended DEF Offered, Answer
<1>6. \A cl \in Clients : chat'[cl].phase = "confirm" =>
        \/ chat[cl].waits = r /\ Offered(cl)' = q.turn
        \/ chat[cl].phase = "confirm" /\ Offered(cl)' = Offered(cl) /\ Offered(cl) # q.turn
  BY <1>1, <1>4, <1>5 DEF Offered, OneOfferPerTurn
<1>7. \A cl, other \in Clients : chat[cl].waits = r /\ chat[other].waits = r => cl = other
  BY <1>1, AssistantAssumption DEF OneWaiter
<1>8. \A x \in Busy' : request'[x].turn # q.turn
  BY <1>1, <1>3 DEF OneRequestPerTurn
<1> HIDE DEF q
<1>9. OneRequestPerTurn'
  BY <1>3 DEF OneRequestPerTurn
<1>10. Begun'
  BY <1>1, <1>2, <1>3, <1>6 DEF Begun, q
<1>11. RequestsInOrder'
  BY <1>2, <1>3 DEF RequestsInOrder
<1>12. OneOfferPerTurn'
  BY <1>1, <1>2, <1>3, <1>6, <1>7, <1>8 DEF OneOfferPerTurn
<1>13. OneWaiter'
  BY <1>3, <1>4, <1>5 DEF OneWaiter
<1>14. RunsOnceAsConfirmed'
  BY <1>2 DEF RunsOnceAsConfirmed
<1> QED
  BY <1>9, <1>10, <1>11, <1>12, <1>13, <1>14

\* The one request of a confirmed turn takes effect.
LEMMA ExecuteKeeps ==
  ASSUME Types, RunInv, NEW r \in Requests, ExecuteAction(r)
  PROVE  RunInv'
<1> USE DEF RunInv
<1> DEFINE q == request[r]
           p == [q EXCEPT !.step = "respond"]
<1>1. r \in Busy /\ q \in ExecuteRequest /\ q.step = "run"
  BY RequestAtStep DEF ExecuteAction
<1>2. q.turn \in Turns /\ q.turn \in confirmed /\ ran[q.turn] = 0
  BY <1>1 DEF RequestsInOrder, ExecuteRequest
<1>3. p \in ExecuteRequest /\ p.turn = q.turn /\ p.kind = q.kind /\ p.step = "respond"
  BY <1>1 DEF ExecuteRequest
<1>4. request' = [request EXCEPT ![r] = p]
  BY DEF ExecuteAction
<1>5. UNCHANGED <<chat, turn, proposed, confirmed>> /\ proposed[q.turn] \in Allowed
      /\ ran' = [ran EXCEPT ![q.turn] = ran[q.turn] + 1]
  BY DEF ExecuteAction, allowedAssistantAction
<1> HIDE DEF p
<1>6. Busy' = Busy
  BY <1>1, <1>3, <1>4, NoneAssumption DEF Busy, Types
<1>7. /\ request'[r] = p
      /\ \A x \in Busy \ {r} : request'[x] = request[x] /\ request[x].turn # q.turn
  BY <1>1, <1>4 DEF OneRequestPerTurn, Types, Busy
<1>8. ran'[q.turn] = 1 /\ \A t \in Turns \ {q.turn} : ran'[t] = ran[t]
  BY <1>2, <1>5 DEF Types
<1>9. \A x \in Busy : request'[x].turn = request[x].turn /\ request'[x].kind = request[x].kind
  BY <1>3, <1>7
<1>10. \A x \in Busy : request[x].turn \in Turns
  BY DEF Busy, Types, ChatRequest, ExecuteRequest
<1> HIDE DEF q
<1>11. OneRequestPerTurn'
  BY <1>6, <1>9 DEF OneRequestPerTurn
<1>12. Begun'
  BY <1>5, <1>6, <1>9 DEF Begun, Offered
<1>13. RequestsInOrder'
  BY <1>3, <1>5, <1>6, <1>7, <1>8, <1>9, <1>10 DEF RequestsInOrder
<1>14. OneOfferPerTurn'
  BY <1>5, <1>6, <1>9 DEF OneOfferPerTurn, Offered
<1>15. OneWaiter'
  BY <1>5, <1>6 DEF OneWaiter
<1>16. RunsOnceAsConfirmed'
  BY <1>2, <1>5, <1>8 DEF RunsOnceAsConfirmed
<1> QED
  BY <1>11, <1>12, <1>13, <1>14, <1>15, <1>16

LEMMA RunStep == Types /\ RunInv /\ [Next]_vars => RunInv'
<1> SUFFICES ASSUME Types, RunInv, [Next]_vars PROVE RunInv'
  OBVIOUS
<1>1. ASSUME NEW cl \in Clients, Say(cl) \/ Report(cl) PROVE RunInv'
  BY <1>1, ChatTurnKeeps DEF Say, Report
<1>2. ASSUME NEW cl \in Clients, Confirm(cl) PROVE RunInv'
  BY <1>2, ConfirmKeeps
<1>3. ASSUME \/ \E cl \in Clients : Decline(cl) \/ GiveUp(cl) \/ Quit(cl) \/ Resume(cl) \/ SignIn(cl)
             \/ CleanupAssistantConversations
             \/ UNCHANGED vars
      PROVE  RunInv'
  BY <1>3, ClientQuiet, QuietStep
<1>4. ASSUME NEW r \in Requests, Serve(r) PROVE RunInv'
  BY <1>4, RespondChatKeeps, ExecuteKeeps, ServeQuiet, QuietStep DEF Serve
<1> QED
  BY <1>1, <1>2, <1>3, <1>4 DEF Next

\* An action takes effect at most once for every time the model proposed it,
\* only after its user confirmed it, and only if it is on the list.
THEOREM RunsOnce == Spec => []RunsOnceAsConfirmed
<1>1. Init => Types /\ RunInv
  BY TypesInit, RunInit
<1>2. Types /\ RunInv /\ [Next]_vars => (Types /\ RunInv)'
  BY TypesStep, RunStep DEF RunInv
<1>3. Types /\ RunInv => RunsOnceAsConfirmed
  BY DEF RunInv
<1> QED
  BY <1>1, <1>2, <1>3, PTL DEF Spec

-----------------------------------------------------------------------------
(* A conversation's session.                                               *)

\* A row that stays is of the session it was of: only SaveConversation writes
\* one, and its upsert leaves a row of another session alone.
THEOREM SessionsKept == Spec => ConversationKeepsSession
<1> DEFINE A == \A c \in Conversations :
                  row[c] # None /\ row'[c] # None => row'[c].session = row[c].session
<1>1. Types /\ RunInv /\ [Next]_vars => [A]_vars
  <2> SUFFICES ASSUME Types, [Next]_vars PROVE A
    OBVIOUS
  <2>1. CASE UNCHANGED row
    BY <2>1
  <2>2. CASE CleanupAssistantConversations
    BY <2>2 DEF CleanupAssistantConversations
  <2>3. ASSUME NEW r \in Requests, SaveConversation(r) PROVE A
    <3> DEFINE q == request[r]
               new == [session |-> q.session,
                       messages |-> trimAIMessages(Append(q.messages, Answer(q.turn))),
                       pending |-> PendingColumn(q.conv, proposed[q.turn])]
    <3>1. row' = [row EXCEPT ![q.conv] = new] /\ Upsertable(q.conv, q.session)
      BY <2>3 DEF SaveConversation
    <3>2. new.session = q.session
      OBVIOUS
    <3> HIDE DEF new
    <3> QED
      BY <3>1, <3>2 DEF Upsertable, Types
  <2>4. \/ UNCHANGED row \/ CleanupAssistantConversations
        \/ \E r \in Requests : SaveConversation(r)
    BY DEF Next, vars, Serve, Say, Report, ChatTurn, Confirm, Decline, GiveUp, Quit, Resume, SignIn,
           CallTool, answerEntityRetrievalIntent, Complete, RespondChat, ExecuteAction, RespondAction, Fail
  <2> QED
    BY <2>1, <2>2, <2>3, <2>4
<1>2. Init => Types /\ RunInv
  BY TypesInit, RunInit
<1>3. Types /\ RunInv /\ [Next]_vars => (Types /\ RunInv)'
  BY TypesStep, RunStep DEF RunInv
<1> QED
  BY <1>1, <1>2, <1>3, PTL DEF Spec, ConversationKeepsSession

-----------------------------------------------------------------------------
(* What histories tell.                                                    *)

\* The turns that a history has the answers of.
Told(messages) == {m.turn : m \in Answers(messages)}

\* The answers of a history are in the order of their turns.
Ordered(messages) ==
  \A i, j \in DOMAIN messages :
    i < j /\ messages[i].role = "assistant" /\ messages[j].role = "assistant"
      => messages[i].turn < messages[j].turn

LEMMA ToldByIndex ==
  ASSUME NEW h \in Seq(Message), NEW t
  PROVE  t \in Told(h) <=> \E i \in DOMAIN h : h[i].role = "assistant" /\ h[i].turn = t
BY DEF Told, Answers, ToSet

LEMMA NothingTold == Told(<<>>) = {} /\ Ordered(<<>>)
BY DEF Told, Answers, ToSet, Ordered

LEMMA QuestionTold ==
  ASSUME NEW h \in Seq(Message), NEW t \in Nat
  PROVE  /\ Append(h, Question(t)) \in Seq(Message)
         /\ Told(Append(h, Question(t))) = Told(h)
         /\ Ordered(h) => Ordered(Append(h, Question(t)))
<1> DEFINE m == Question(t)
           g == Append(h, m)
<1>1. m \in Message /\ m.role = "user"
  BY DEF Question, Message
<1> HIDE DEF m
<1>2. g \in Seq(Message) /\ Len(g) = Len(h) + 1 /\ g[Len(h) + 1] = m /\ \A i \in 1..Len(h) : g[i] = h[i]
  BY <1>1
<1>3. DOMAIN g = 1..(Len(h) + 1) /\ DOMAIN h = 1..Len(h) /\ Len(h) \in Nat
  BY <1>2
<1> HIDE DEF g
<1>4. \A x : x \in Told(g) <=> x \in Told(h)
  BY <1>1, <1>2, <1>3, ToldByIndex
<1>5. Ordered(h) => Ordered(g)
  BY <1>1, <1>2, <1>3 DEF Ordered
<1> QED
  BY <1>2, <1>4, <1>5 DEF g, m

LEMMA AnswerTold ==
  ASSUME NEW h \in Seq(Message), NEW t \in Nat
  PROVE  /\ Append(h, Answer(t)) \in Seq(Message)
         /\ Told(Append(h, Answer(t))) = Told(h) \cup {t}
         /\ Ordered(h) /\ (\A s \in Told(h) : s < t) => Ordered(Append(h, Answer(t)))
<1> DEFINE m == Answer(t)
           g == Append(h, m)
<1>1. m \in Message /\ m.role = "assistant" /\ m.turn = t
  BY DEF Answer, Message
<1> HIDE DEF m
<1>2. g \in Seq(Message) /\ Len(g) = Len(h) + 1 /\ g[Len(h) + 1] = m /\ \A i \in 1..Len(h) : g[i] = h[i]
  BY <1>1
<1>3. DOMAIN g = 1..(Len(h) + 1) /\ DOMAIN h = 1..Len(h) /\ Len(h) \in Nat
  BY <1>2
<1> HIDE DEF g
<1>4. \A x : x \in Told(g) <=> x \in Told(h) \/ x = t
  BY <1>1, <1>2, <1>3, ToldByIndex
<1>5. ASSUME Ordered(h), \A s \in Told(h) : s < t PROVE Ordered(g)
  <2>1. \A i \in 1..Len(h) : h[i].role = "assistant" => h[i].turn < t
    BY <1>3, <1>5, ToldByIndex
  <2> QED
    BY <1>1, <1>2, <1>3, <1>5, <2>1 DEF Ordered
<1> QED
  BY <1>2, <1>4, <1>5 DEF g, m

LEMMA Suffix ==
  ASSUME NEW S, NEW g \in Seq(S), NEW k \in Nat, NEW n \in Nat, k < n, n = Len(g)
  PROVE  LET m == SubSeq(g, k + 1, n)
         IN m \in Seq(S) /\ Len(m) = n - k /\ \A i \in 1..(n - k) : m[i] = g[i + k]
<1>1. k + 1 \in 1..n /\ n \in 1..n + 1
  OBVIOUS
<1>2. \A i \in 1..(n - k) : SubSeq(g, k + 1, n)[i] = g[i + k]
  OBVIOUS
<1> QED
  BY <1>1, <1>2

\* What is kept of a history that ends in its newest answer: that answer, and
\* if an earlier one is cut off, then only for Keep newer messages.
LEMMA Trimmed ==
  ASSUME NEW h \in Seq(Message), NEW t \in Nat, Ordered(h), \A s \in Told(h) : s < t,
         NEW m, m = trimAIMessages(Append(h, Answer(t)))
  PROVE  /\ m \in Seq(Message) /\ m # <<>> /\ Last(m) = Answer(t)
         /\ Ordered(m)
         /\ t \in Told(m) /\ Told(m) \subseteq Told(h) \cup {t}
         /\ \A s \in (Told(h) \cup {t}) \ Told(m) :
              Len(m) = Keep /\ \A kept \in Told(m) : kept > s
<1> DEFINE g == Append(h, Answer(t))
<1>0. PICK n : n = Len(g)
  OBVIOUS
<1>1. g \in Seq(Message) /\ Told(g) = Told(h) \cup {t} /\ Ordered(g)
  BY AnswerTold
<1>2. n \in Nat \ {0} /\ g[n] = Answer(t) /\ DOMAIN g = 1..n
  BY <1>0
<1>3. Answer(t).role = "assistant" /\ Answer(t).turn = t
  BY DEF Answer
<1>4. Keep \in Nat \ {0}
  BY AssistantAssumption
<1>5. m = IF n <= Keep THEN g ELSE SubSeq(g, n - Keep + 1, n)
  BY <1>0 DEF trimAIMessages
<1> HIDE DEF g
<1>6. CASE n <= Keep
  <2>1. m = g
    BY <1>5, <1>6
  <2> QED
    BY <1>1, <1>2, <2>1 DEF Last
<1>7. CASE ~(n <= Keep)
  <2>0. PICK k : k = n - Keep
    OBVIOUS
  <2>1. k \in Nat \ {0} /\ k + Keep = n /\ k < n
    BY <1>2, <1>4, <1>7, <2>0
  <2>2. m = SubSeq(g, k + 1, n)
    BY <1>5, <1>7, <2>0
  <2>3. m \in Seq(Message) /\ Len(m) = Keep /\ \A i \in 1..Keep : m[i] = g[i + k]
    <3>1. n - k = Keep
      BY <1>2, <1>4, <2>1
    <3> QED
      BY <1>0, <1>1, <1>2, <2>1, <2>2, <3>1, Suffix
  <2>4. DOMAIN m = 1..Keep
    BY <2>3
  <2>5. m # <<>> /\ Last(m) = Answer(t)
    <3>1. m # <<>>
      BY <1>4, <2>4
    <3>2. m[Keep] = g[Keep + k] /\ Keep + k = n
      BY <1>2, <1>4, <2>1, <2>3
    <3> QED
      BY <1>2, <2>3, <3>1, <3>2 DEF Last
  <2>6. Ordered(m)
    <3>1. \A i, j \in 1..Keep : i < j => i + k \in 1..n /\ j + k \in 1..n /\ i + k < j + k
      BY <1>4, <2>1
    <3> QED
      BY <1>1, <1>2, <2>3, <2>4, <3>1 DEF Ordered
  <2>7. t \in Told(m)
    BY <1>2, <1>3, <1>4, <2>1, <2>3, <2>4, ToldByIndex
  <2>8. Told(m) \subseteq Told(g)
    <3> SUFFICES ASSUME NEW x \in Told(m) PROVE x \in Told(g)
      OBVIOUS
    <3>1. PICK i \in 1..Keep : m[i].role = "assistant" /\ m[i].turn = x
      BY <2>3, <2>4, ToldByIndex
    <3>2. i + k \in 1..n /\ g[i + k] = m[i]
      BY <1>2, <1>4, <2>1, <2>3
    <3> QED
      BY <1>1, <1>2, <3>1, <3>2, ToldByIndex
  <2>9. ASSUME NEW s \in Told(g), s \notin Told(m), NEW kept \in Told(m) PROVE kept > s
    <3>1. PICK i \in 1..n : g[i].role = "assistant" /\ g[i].turn = s
      BY <1>1, <1>2, <2>9, ToldByIndex
    <3>2. PICK j \in 1..Keep : m[j].role = "assistant" /\ m[j].turn = kept
      BY <2>3, <2>4, <2>9, ToldByIndex
    <3>3. ~(i > k)
      <4> SUFFICES ASSUME i > k PROVE FALSE
        OBVIOUS
      <4>1. i - k \in 1..Keep /\ m[i - k] = g[i]
        BY <1>2, <1>4, <2>1, <2>3
      <4> QED
        BY <2>3, <2>4, <2>9, <3>1, <4>1, ToldByIndex
    <3>4. i < j + k /\ j + k \in 1..n /\ g[j + k] = m[j]
      BY <1>2, <1>4, <2>1, <2>3, <3>3
    <3>5. g[i].turn < g[j + k].turn
      BY <1>1, <1>2, <3>1, <3>2, <3>4 DEF Ordered
    <3>6. \A x \in 1..n : g[x].turn \in Nat
      <4>1. \A x \in 1..n : g[x] \in Message
        BY <1>1, <1>2
      <4> QED
        BY <4>1 DEF Message
    <3> QED
      BY <3>1, <3>2, <3>4, <3>5, <3>6
  <2> QED
    BY <1>1, <2>3, <2>5, <2>6, <2>7, <2>8, <2>9
<1> QED
  BY <1>6, <1>7
-----------------------------------------------------------------------------
(* What is stored of a conversation.                                       *)

\* The answers that a turn's conversation has when the turn is over.
ToldBy(q) == Told(q.messages) \cup (IF q.step = "respond" THEN {q.turn} ELSE {})

\* Somebody has the answers S of conversation c: a client, a turn that is being
\* answered, or the row.
Story(c, S) ==
  \/ \E cl \in Clients : chat[cl].conv = c /\ Told(chat[cl].history) = S
  \/ \E r \in Busy : request[r].kind = "chat" /\ request[r].conv = c /\ ToldBy(request[r]) = S
  \/ c \in Conversations /\ row[c] # None /\ Told(row[c].messages) = S

HistoriesInOrder ==
  /\ \A cl \in Clients : Ordered(chat[cl].history)
  /\ \A r \in Busy : request[r].kind = "chat" => Ordered(request[r].messages)
  /\ \A c \in Conversations : row[c] # None => Ordered(row[c].messages)

\* The answers that somebody has are those of turns that have begun.
ToldOfTurns == \A c \in Conversations \cup {None}, S \in SUBSET Nat : Story(c, S) => S \subseteq 1..turn

\* The answer a row ends in.
Newest(c) == Last(row[c].messages).turn
RowsEndInAnswers ==
  \A c \in Conversations : row[c] # None =>
    row[c].messages # <<>> /\ Last(row[c].messages) = Answer(Newest(c))

\* A client waits for the answer to what its history ends in.
Awaited ==
  \A cl \in Clients : chat[cl].waits # None =>
    /\ chat[cl].phase \in {"chat", "execute"}
    /\ request[chat[cl].waits].kind = "chat" =>
         /\ chat[cl].history = request[chat[cl].waits].messages
         /\ chat[cl].conv \in {None, request[chat[cl].waits].conv}

\* Nobody has a turn's answer before it is saved.
Unsaid ==
  \A r \in Busy : request[r].kind = "chat" =>
    /\ \A s \in Told(request[r].messages) : s < request[r].turn
    /\ request[r].step # "respond" =>
         \A c \in Conversations \cup {None}, S \in SUBSET Nat :
           Story(c, S) => request[r].turn \notin S

\* An answer belongs to one conversation.
OneConversation ==
  /\ \A S \in SUBSET Nat : Story(None, S) => S = {}
  /\ \A c, d \in Conversations, S, R \in SUBSET Nat :
       Story(c, S) /\ Story(d, R) /\ S \cap R # {} => c = d

\* Who has the answer that a row ends in has no later one, and of the earlier
\* ones only such that the row has as well or has lost to newer messages.
Current ==
  \A c \in Conversations, S \in SUBSET Nat :
    row[c] # None /\ Story(c, S) /\ Newest(c) \in S =>
      \A s \in S :
        /\ s <= Newest(c)
        /\ \/ s \in Told(row[c].messages)
           \/ Len(row[c].messages) = Keep /\ \A kept \in Told(row[c].messages) : kept > s

StoryInv ==
  /\ HistoriesInOrder /\ ToldOfTurns /\ RowsEndInAnswers /\ Awaited
  /\ Unsaid /\ OneConversation /\ Current

LEMMA ToldTypes ==
  ASSUME NEW h \in Seq(Message)
  PROVE  Told(h) \in SUBSET Nat
<1>1. \A i \in DOMAIN h : h[i] \in Message
  OBVIOUS
<1> QED
  BY <1>1, ToldByIndex DEF Message

LEMMA StoryInit == Init => StoryInv
<1> SUFFICES ASSUME Init PROVE StoryInv
  OBVIOUS
<1>1. Busy = {} /\ \A c \in Conversations : row[c] = None
  BY DEF Init, Busy
<1>2. \A cl \in Clients : chat[cl].history = <<>> /\ chat[cl].conv = None /\ chat[cl].waits = None
  BY DEF Init, Idle
<1>3. ASSUME NEW c, NEW S, Story(c, S) PROVE S = {}
  BY <1>1, <1>2, <1>3, NothingTold DEF Story
<1>4. HistoriesInOrder
  BY <1>1, <1>2, NothingTold DEF HistoriesInOrder
<1>5. ToldOfTurns /\ OneConversation
  <2>1. \A c, d \in Conversations, S, R \in SUBSET Nat : Story(c, S) /\ Story(d, R) => S \cap R = {}
    BY <1>3
  <2>2. ToldOfTurns
    BY <1>3 DEF ToldOfTurns
  <2> QED
    BY <1>3, <2>1, <2>2 DEF OneConversation
<1>6. RowsEndInAnswers /\ Unsaid /\ Current
  BY <1>1 DEF RowsEndInAnswers, Unsaid, Current
<1>7. Awaited
  BY <1>2 DEF Awaited
<1> QED
  BY <1>4, <1>5, <1>6, <1>7 DEF StoryInv

\* A history of conversation c that somebody has, or that tells nothing.
Retold(c, S) == S = {} \/ Story(c, S)

\* A step by which nobody has other answers than somebody had: what it may do
\* to clients, requests and rows.
ClientsRetell ==
  \A cl \in Clients :
    /\ Ordered(chat'[cl].history)
    /\ Retold(chat'[cl].conv, Told(chat'[cl].history))
    /\ chat'[cl].waits # None =>
         /\ chat'[cl].phase \in {"chat", "execute"}
         /\ request'[chat'[cl].waits].kind = "chat" =>
              /\ chat'[cl].history = request'[chat'[cl].waits].messages
              /\ chat'[cl].conv \in {None, request'[chat'[cl].waits].conv}

\* A turn goes on, or begins.
GoesOn(r) ==
  /\ r \in Busy
  /\ request'[r].kind = request[r].kind /\ request'[r].turn = request[r].turn
  /\ request'[r].kind = "chat" =>
       /\ request'[r].conv = request[r].conv /\ request'[r].messages = request[r].messages
       /\ request'[r].step = "respond" <=> request[r].step = "respond"

Begins(r) ==
  /\ turn' = turn + 1 /\ request'[r].turn = turn + 1 /\ request'[r].step = "model"
  /\ request'[r].conv \in Conversations /\ request'[r].messages \in Seq(Message)
  /\ Ordered(request'[r].messages)
  /\ Retold(request'[r].conv, Told(request'[r].messages))

NothingNew ==
  /\ turn' \in {turn, turn + 1}
  /\ ClientsRetell
  /\ \A r \in Busy' : request'[r].kind = "chat" => GoesOn(r) \/ Begins(r)
  /\ \A c \in Conversations : row'[c] \in {None, row[c]}

LEMMA NothingNewStories ==
  ASSUME NothingNew, NEW c, NEW S, Story(c, S)'
  PROVE  Retold(c, S)
<1>1. CASE \E cl \in Clients : chat'[cl].conv = c /\ Told(chat'[cl].history) = S
  BY <1>1 DEF NothingNew, ClientsRetell
<1>2. ASSUME NEW r \in Busy', request'[r].kind = "chat", request'[r].conv = c, ToldBy(request'[r]) = S
      PROVE  Retold(c, S)
  <2>1. CASE GoesOn(r)
    BY <1>2, <2>1 DEF GoesOn, ToldBy, Retold, Story
  <2>2. CASE Begins(r)
    BY <1>2, <2>2 DEF Begins, ToldBy
  <2> QED
    BY <1>2, <2>1, <2>2 DEF NothingNew
<1>3. CASE c \in Conversations /\ row'[c] # None /\ Told(row'[c].messages) = S
  BY <1>3 DEF NothingNew, Retold, Story
<1> QED
  BY <1>1, <1>2, <1>3 DEF Story

LEMMA NothingNewStep ==
  ASSUME Types, StoryInv, NothingNew
  PROVE  StoryInv'
<1> USE DEF StoryInv
<1>1. \A c, S : Story(c, S)' => S = {} \/ Story(c, S)
  BY NothingNewStories DEF Retold
<1>2. turn \in Nat /\ turn' \in {turn, turn + 1} /\ \A S \in SUBSET (1..turn) : S \subseteq 1..turn'
  BY DEF Types, NothingNew
<1>3. HistoriesInOrder'
  <2>1. \A r \in Busy' : request'[r].kind = "chat" => Ordered(request'[r].messages)
    BY DEF HistoriesInOrder, NothingNew, GoesOn, Begins
  <2> QED
    BY <2>1 DEF HistoriesInOrder, NothingNew, ClientsRetell
<1>4. ToldOfTurns'
  BY <1>1, <1>2 DEF ToldOfTurns
<1>5. RowsEndInAnswers'
  BY DEF RowsEndInAnswers, NothingNew, Newest
<1>6. Awaited'
  BY DEF Awaited, NothingNew, ClientsRetell
<1>7. Unsaid'
  <2> SUFFICES ASSUME NEW r \in Busy', request'[r].kind = "chat"
               PROVE  /\ \A s \in Told(request'[r].messages) : s < request'[r].turn
                      /\ request'[r].step # "respond" =>
                           \A c \in Conversations \cup {None}, S \in SUBSET Nat :
                             Story(c, S)' => request'[r].turn \notin S
    BY DEF Unsaid
  <2>1. CASE GoesOn(r)
    BY <1>1, <2>1 DEF Unsaid, GoesOn
  <2>2. CASE Begins(r)
    <3>1. \A S \in SUBSET (1..turn) : (\A s \in S : s < turn + 1) /\ turn + 1 \notin S
      BY <1>2
    <3>2. \A c \in Conversations \cup {None}, S \in SUBSET Nat : Retold(c, S) => S \subseteq 1..turn
      BY DEF ToldOfTurns, Retold
    <3>3. Told(request'[r].messages) \in SUBSET Nat
      BY <2>2, ToldTypes DEF Begins
    <3>4. Told(request'[r].messages) \subseteq 1..turn
      BY <2>2, <3>2, <3>3 DEF Begins
    <3>5. \A c \in Conversations \cup {None}, S \in SUBSET Nat : Story(c, S)' => S \subseteq 1..turn
      BY <1>1, <3>2 DEF Retold
    <3>6. request'[r].turn = turn + 1
      BY <2>2 DEF Begins
    <3> QED
      BY <3>1, <3>4, <3>5, <3>6
  <2> QED
    BY <2>1, <2>2 DEF NothingNew
<1>8. OneConversation'
  BY <1>1 DEF OneConversation
<1>9. Current'
  BY <1>1 DEF Current, Newest, NothingNew
<1> QED
  BY <1>3, <1>4, <1>5, <1>6, <1>7, <1>8, <1>9

\* A client that is left alone, with the request it waits for, and one that
\* does not wait.
LEMMA LeftAlone ==
  ASSUME Types, RunInv, StoryInv, NEW cl \in Clients, chat'[cl] = chat[cl],
         chat[cl].waits # None =>
           /\ request'[chat[cl].waits].kind = request[chat[cl].waits].kind
           /\ request[chat[cl].waits].kind = "chat" =>
                /\ request'[chat[cl].waits].messages = request[chat[cl].waits].messages
                /\ request'[chat[cl].waits].conv = request[chat[cl].waits].conv
  PROVE  /\ Ordered(chat'[cl].history)
         /\ Retold(chat'[cl].conv, Told(chat'[cl].history))
         /\ chat'[cl].waits # None =>
              /\ chat'[cl].phase \in {"chat", "execute"}
              /\ request'[chat'[cl].waits].kind = "chat" =>
                   /\ chat'[cl].history = request'[chat'[cl].waits].messages
                   /\ chat'[cl].conv \in {None, request'[chat'[cl].waits].conv}
<1>1. Ordered(chat[cl].history)
  BY DEF StoryInv, HistoriesInOrder
<1>2. Retold(chat[cl].conv, Told(chat[cl].history))
  BY DEF Retold, Story
<1>3. chat[cl].waits # None =>
        /\ chat[cl].phase \in {"chat", "execute"}
        /\ request[chat[cl].waits].kind = "chat" =>
             /\ chat[cl].history = request[chat[cl].waits].messages
             /\ chat[cl].conv \in {None, request[chat[cl].waits].conv}
  BY DEF StoryInv, Awaited
<1> QED
  BY <1>1, <1>2, <1>3

\* A step of a request that is not over: what it knows of its turn stays.
LEMMA RequestMoves ==
  ASSUME Types, RunInv, StoryInv, NEW r \in Busy, NEW p, p # None,
         request' = [request EXCEPT ![r] = p], UNCHANGED <<chat, row, turn>>,
         p.kind = request[r].kind, p.turn = request[r].turn,
         p.kind = "chat" =>
           /\ p.conv = request[r].conv /\ p.messages = request[r].messages
           /\ p.step = "respond" <=> request[r].step = "respond"
  PROVE  NothingNew
<1>1. Busy' = Busy /\ request'[r] = p /\ \A x \in Busy \ {r} : request'[x] = request[x]
  BY DEF Busy, Types
<1>2. \A x \in Busy' : GoesOn(x)
  BY <1>1 DEF GoesOn
<1>3. \A cl \in Clients : chat[cl].waits # None => chat[cl].waits \in Busy
  BY DEF RunInv, OneWaiter
<1>4. ClientsRetell
  <2> SUFFICES ASSUME NEW cl \in Clients
      PROVE  /\ Ordered(chat'[cl].history)
             /\ Retold(chat'[cl].conv, Told(chat'[cl].history))
             /\ chat'[cl].waits # None =>
                  /\ chat'[cl].phase \in {"chat", "execute"}
                  /\ request'[chat'[cl].waits].kind = "chat" =>
                       /\ chat'[cl].history = request'[chat'[cl].waits].messages
                       /\ chat'[cl].conv \in {None, request'[chat'[cl].waits].conv}
    BY DEF ClientsRetell
  <2>1. chat[cl].waits # None =>
           /\ request'[chat[cl].waits].kind = request[chat[cl].waits].kind
           /\ request[chat[cl].waits].kind = "chat" =>
                /\ request'[chat[cl].waits].messages = request[chat[cl].waits].messages
                /\ request'[chat[cl].waits].conv = request[chat[cl].waits].conv
    BY <1>1, <1>3
  <2> QED
    BY <2>1, LeftAlone
<1> QED
  BY <1>2, <1>4 DEF NothingNew

\* A request that is over, or none that changes: a client is left alone, or
\* waits for nothing and has a history that somebody had.
LEMMA RequestEnds ==
  ASSUME Types, RunInv, StoryInv, UNCHANGED turn,
         \A x \in Busy' : x \in Busy /\ request'[x] = request[x],
         \A c \in Conversations : row'[c] \in {None, row[c]},
         \A cl \in Clients :
           \/ chat'[cl] = chat[cl] /\ (chat[cl].waits # None => chat[cl].waits \in Busy')
           \/ /\ chat'[cl].waits = None
              /\ Ordered(chat'[cl].history)
              /\ Retold(chat'[cl].conv, Told(chat'[cl].history))
  PROVE  NothingNew
<1>1. \A x \in Busy' : GoesOn(x)
  BY DEF GoesOn
<1>2. ClientsRetell
  <2> SUFFICES ASSUME NEW cl \in Clients
      PROVE  /\ Ordered(chat'[cl].history)
             /\ Retold(chat'[cl].conv, Told(chat'[cl].history))
             /\ chat'[cl].waits # None =>
                  /\ chat'[cl].phase \in {"chat", "execute"}
                  /\ request'[chat'[cl].waits].kind = "chat" =>
                       /\ chat'[cl].history = request'[chat'[cl].waits].messages
                       /\ chat'[cl].conv \in {None, request'[chat'[cl].waits].conv}
    BY DEF ClientsRetell
  <2>1. CASE chat'[cl] = chat[cl] /\ (chat[cl].waits # None => chat[cl].waits \in Busy')
    <3>1. chat[cl].waits # None => request'[chat[cl].waits] = request[chat[cl].waits]
      BY <2>1
    <3> QED
      BY <2>1, <3>1, LeftAlone
  <2> QED
    BY <2>1
<1> QED
  BY <1>1, <1>2 DEF NothingNew

\* A client's history is one of its conversation, and stays in order.
LEMMA OwnHistory ==
  ASSUME Types, StoryInv, NEW cl \in Clients
  PROVE  /\ chat[cl].history \in Seq(Message)
         /\ Ordered(chat[cl].history)
         /\ Retold(chat[cl].conv, Told(chat[cl].history))
<1>1. Ordered(chat[cl].history)
  BY DEF StoryInv, HistoriesInOrder
<1>2. Retold(chat[cl].conv, Told(chat[cl].history))
  BY DEF Retold, Story
<1> QED
  BY <1>1, <1>2 DEF Types, Chat

\* A new turn's request is for the client's conversation, or for a new one, of
\* which nobody has anything; then the client has no answer either.
LEMMA ChatTurnRetells ==
  ASSUME Types, RunInv, StoryInv, NEW cl \in Clients,
         ChatTurn(cl, Append(chat[cl].history, Question(turn + 1)))
  PROVE  NothingNew
<1>1. PICK q \in ChatRequest, h \in Seq(Message) :
        /\ Post(cl, q, h, "chat") /\ q.turn = turn + 1 /\ q.kind = "chat" /\ q.step = "model"
        /\ q.messages = h /\ h = Append(chat[cl].history, Question(turn + 1))
        /\ chat[cl].conv \in {None, q.conv}
  BY ChatTurnPosts
<1>2. Begun /\ OneWaiter
  BY DEF RunInv
<1>3. PICK r \in Requests \ Busy :
        /\ Busy' = Busy \cup {r} /\ request'[r] = q
        /\ \A other \in Busy : request'[other] = request[other]
        /\ chat'[cl].waits = r /\ chat'[cl].phase = "chat"
        /\ chat'[cl].history = h /\ chat'[cl].conv = chat[cl].conv
  <2>1. q \in ChatRequest \cup ExecuteRequest /\ "chat" \in {"chat", "execute"} /\ Post(cl, q, h, "chat")
    BY <1>1
  <2> QED
    BY <1>2, <2>1, PostFrame
<1>4. \A other \in Clients \ {cl} : chat'[other] = chat[other]
  BY <1>1, <1>2, PostFrame
<1>5. turn \in Nat /\ turn + 1 \in Nat /\ turn' = turn + 1 /\ UNCHANGED row
  BY DEF Types, ChatTurn
<1>6. Told(h) = Told(chat[cl].history) /\ Ordered(h)
  BY <1>1, <1>5, OwnHistory, QuestionTold
<1>7. Told(chat[cl].history) \in SUBSET Nat
  BY OwnHistory, ToldTypes
<1>8. Retold(chat[cl].conv, Told(h)) /\ Retold(q.conv, Told(h))
  <2>1. Retold(chat[cl].conv, Told(h))
    BY <1>6, OwnHistory
  <2>2. CASE chat[cl].conv = None
    <3>1. Told(h) = {}
      BY <1>6, <1>7, <2>1, <2>2 DEF Retold, StoryInv, OneConversation
    <3> QED
      BY <2>1, <3>1 DEF Retold
  <2> QED
    BY <1>1, <2>1, <2>2
<1>9. Begins(r)
  BY <1>1, <1>3, <1>5, <1>6, <1>8 DEF Begins, ChatRequest
<1>10. \A x \in Busy : GoesOn(x)
  BY <1>3 DEF GoesOn
<1>11. \A other \in Clients : chat[other].waits # None => chat[other].waits \in Busy
  BY <1>2 DEF OneWaiter
<1>12. ClientsRetell
  <2> SUFFICES ASSUME NEW other \in Clients
      PROVE  /\ Ordered(chat'[other].history)
             /\ Retold(chat'[other].conv, Told(chat'[other].history))
             /\ chat'[other].waits # None =>
                  /\ chat'[other].phase \in {"chat", "execute"}
                  /\ request'[chat'[other].waits].kind = "chat" =>
                       /\ chat'[other].history = request'[chat'[other].waits].messages
                       /\ chat'[other].conv \in {None, request'[chat'[other].waits].conv}
    BY DEF ClientsRetell
  <2>1. CASE other = cl
    BY <1>1, <1>3, <1>6, <1>8, <2>1
  <2>2. CASE other # cl
    <3>1. chat'[other] = chat[other]
      BY <1>4, <2>2
    <3>2. chat[other].waits # None => request'[chat[other].waits] = request[chat[other].waits]
      BY <1>3, <1>11
    <3> QED
      BY <3>1, <3>2, LeftAlone
  <2> QED
    BY <2>1, <2>2
<1> QED
  BY <1>3, <1>5, <1>9, <1>10, <1>12 DEF NothingNew

LEMMA ConfirmRetells ==
  ASSUME Types, RunInv, StoryInv, NEW cl \in Clients, Confirm(cl)
  PROVE  NothingNew
<1> DEFINE t == Last(chat[cl].history).turn
           q == [kind |-> "execute", step |-> "run", conv |-> None, turn |-> t]
           h == chat[cl].history
<1>1. Begun /\ OneWaiter
  BY DEF RunInv
<1>2. t \in Turns
  BY <1>1, AssistantAssumption DEF Confirm, Begun, Offered, Types, Turns
<1>3. q \in ExecuteRequest /\ q.kind = "execute"
  BY <1>2 DEF ExecuteRequest
<1>4. h \in Seq(Message) /\ Ordered(h) /\ Retold(chat[cl].conv, Told(h))
  BY OwnHistory
<1>5. Post(cl, q, h, "execute") /\ UNCHANGED <<turn, row>>
  BY DEF Confirm
<1> HIDE DEF q, h
<1>6. PICK r \in Requests \ Busy :
        /\ Busy' = Busy \cup {r} /\ request'[r] = q
        /\ \A other \in Busy : request'[other] = request[other]
        /\ chat'[cl].waits = r /\ chat'[cl].phase = "execute"
        /\ chat'[cl].history = h /\ chat'[cl].conv = chat[cl].conv
  BY <1>1, <1>3, <1>4, <1>5, PostFrame
<1>7. \A other \in Clients \ {cl} : chat'[other] = chat[other]
  BY <1>1, <1>3, <1>4, <1>5, PostFrame
<1>8. \A x \in Busy : GoesOn(x)
  BY <1>6 DEF GoesOn
<1>9. \A other \in Clients : chat[other].waits # None => chat[other].waits \in Busy
  BY <1>1 DEF OneWaiter
<1>10. ClientsRetell
  <2> SUFFICES ASSUME NEW other \in Clients
      PROVE  /\ Ordered(chat'[other].history)
             /\ Retold(chat'[other].conv, Told(chat'[other].history))
             /\ chat'[other].waits # None =>
                  /\ chat'[other].phase \in {"chat", "execute"}
                  /\ request'[chat'[other].waits].kind = "chat" =>
                       /\ chat'[other].history = request'[chat'[other].waits].messages
                       /\ chat'[other].conv \in {None, request'[chat'[other].waits].conv}
    BY DEF ClientsRetell
  <2>1. CASE other = cl
    BY <1>3, <1>4, <1>6, <2>1
  <2>2. CASE other # cl
    <3>1. chat'[other] = chat[other]
      BY <1>7, <2>2
    <3>2. chat[other].waits # None => request'[chat[other].waits] = request[chat[other].waits]
      BY <1>6, <1>9
    <3> QED
      BY <3>1, <3>2, LeftAlone
  <2> QED
    BY <2>1, <2>2
<1> QED
  BY <1>3, <1>5, <1>6, <1>8, <1>10 DEF NothingNew

\* The steps of a client that post nothing.
LEMMA ClientRetells ==
  ASSUME Types, RunInv, StoryInv,
         \/ \E cl \in Clients : Decline(cl) \/ GiveUp(cl) \/ Quit(cl) \/ Resume(cl) \/ SignIn(cl)
         \/ CleanupAssistantConversations
         \/ UNCHANGED vars
  PROVE  NothingNew
<1>1. UNCHANGED <<request, turn>> /\ Busy' = Busy
  BY DEF Decline, GiveUp, Quit, Resume, SignIn, CleanupAssistantConversations, vars, Busy
<1>2. \A c \in Conversations : row'[c] \in {None, row[c]}
  BY DEF Decline, GiveUp, Quit, Resume, SignIn, CleanupAssistantConversations, vars
<1>3. \A cl \in Clients : chat[cl].waits # None => chat[cl].waits \in Busy
  BY DEF RunInv, OneWaiter
<1> DEFINE Alone(cl) == chat'[cl] = chat[cl]
           Anew(cl) == /\ chat'[cl].waits = None
                       /\ Ordered(chat'[cl].history)
                       /\ Retold(chat'[cl].conv, Told(chat'[cl].history))
<1>4. \A cl \in Clients : Alone(cl) \/ Anew(cl)
  <2>1. CASE UNCHANGED chat
    BY <2>1
  <2>2. ASSUME NEW cl \in Clients, Decline(cl) \/ GiveUp(cl) \/ Quit(cl) \/ Resume(cl)
        PROVE  (\A other \in Clients \ {cl} : Alone(other)) /\ Anew(cl)
    <3>1. /\ chat[cl] \in Chat /\ chat[cl].history \in Seq(Message) /\ Ordered(chat[cl].history)
          /\ Retold(chat[cl].conv, Told(chat[cl].history))
      BY OwnHistory DEF Types
    <3>2. CASE Decline(cl)
      <4>1. PICK t : t = Last(chat[cl].history).turn
        OBVIOUS
      <4>2. t \in Nat
        <5>1. chat[cl].phase = "confirm"
          BY <3>2 DEF Decline
        <5>2. Offered(cl) \in 1..turn /\ turn \in Nat
          BY <5>1 DEF RunInv, Begun, Types
        <5> QED
          BY <4>1, <5>2 DEF Offered
      <4>3. PICK h : h = Append(chat[cl].history, Question(t))
        OBVIOUS
      <4>4. Ordered(h) /\ Told(h) = Told(chat[cl].history)
        BY <3>1, <4>2, <4>3, QuestionTold
      <4>5. chat' = [chat EXCEPT ![cl] = [chat[cl] EXCEPT !.phase = "idle", !.history = h]]
        BY <3>2, <4>1, <4>3 DEF Decline
      <4>6. /\ chat'[cl].waits = chat[cl].waits /\ chat'[cl].history = h /\ chat'[cl].conv = chat[cl].conv
            /\ \A other \in Clients \ {cl} : Alone(other)
        BY <3>1, <4>5 DEF Types, Chat
      <4>7. chat[cl].waits = None
        <5>1. chat[cl].phase = "confirm"
          BY <3>2 DEF Decline
        <5> QED
          BY <5>1, "confirm" \notin {"chat", "execute"} DEF StoryInv, Awaited
      <4> QED
        BY <3>1, <4>4, <4>6, <4>7
    <3>3. CASE GiveUp(cl)
      <4>1. /\ chat'[cl].waits = None /\ chat'[cl].history = chat[cl].history
            /\ chat'[cl].conv = chat[cl].conv
            /\ \A other \in Clients \ {cl} : Alone(other)
        BY <3>1, <3>3 DEF GiveUp, Types, Chat
      <4> QED
        BY <3>1, <4>1
    <3>4. CASE Quit(cl)
      <4>1. chat'[cl].waits = None /\ chat'[cl].history = <<>> /\ \A other \in Clients \ {cl} : Alone(other)
        BY <3>4 DEF Quit, Idle, Types
      <4> QED
        BY <4>1, NothingTold DEF Retold
    <3>5. CASE Resume(cl)
      <4>1. PICK c \in Conversations :
              /\ row[c] # None
              /\ chat' = [chat EXCEPT ![cl] = [chat[cl] EXCEPT !.conv = c, !.history = row[c].messages]]
        BY <3>5 DEF Resume
      <4>2. chat[cl].waits = None
        <5>1. chat[cl] = Idle
          BY <3>5 DEF Resume
        <5>2. Idle.waits = None
          BY DEF Idle
        <5> QED
          BY <5>1, <5>2
      <4>3. PICK h : h = row[c].messages
        OBVIOUS
      <4>4. /\ chat'[cl].waits = chat[cl].waits /\ chat'[cl].history = h /\ chat'[cl].conv = c
            /\ \A other \in Clients \ {cl} : Alone(other)
        BY <3>1, <4>1, <4>3 DEF Types, Chat
      <4>5. Ordered(h) /\ Retold(c, Told(h))
        BY <4>1, <4>3 DEF StoryInv, HistoriesInOrder, Retold, Story
      <4> QED
        BY <4>2, <4>4, <4>5
    <3> QED
      BY <2>2, <3>2, <3>3, <3>4, <3>5
  <2> QED
    BY <2>1, <2>2 DEF SignIn, CleanupAssistantConversations, vars
<1> QED
  BY <1>1, <1>2, <1>3, <1>4, RequestEnds

\* The server's steps but the one that saves: a request moves on, or is over,
\* and its client takes the answer to what it has waited with.
LEMMA ServeRetells ==
  ASSUME Types, RunInv, StoryInv, NEW r \in Requests,
         CallTool(r) \/ answerEntityRetrievalIntent(r) \/ Complete(r) \/ ExecuteAction(r)
  PROVE  NothingNew
<1>1. UNCHANGED <<chat, row, turn>>
  BY DEF CallTool, answerEntityRetrievalIntent, Complete, ExecuteAction
<1>2. PICK q : q = request[r]
  OBVIOUS
<1>3. \A p \in ChatRequest \cup ExecuteRequest : p # None
  BY NoneAssumption
<1>4. CASE CallTool(r) \/ answerEntityRetrievalIntent(r) \/ Complete(r)
  <2>1. r \in Busy /\ q \in ChatRequest /\ q.step = "model"
    BY <1>2, <1>4, RequestAtStep DEF CallTool, answerEntityRetrievalIntent, Complete
  <2>2. PICK p \in ChatRequest :
          /\ request' = [request EXCEPT ![r] = p]
          /\ p.kind = q.kind /\ p.turn = q.turn /\ p.conv = q.conv /\ p.messages = q.messages
          /\ p.step # "respond"
    <3>1. CASE CallTool(r)
      <4> DEFINE n == q.round + 1
                 p == IF n < MaxRounds THEN [q EXCEPT !.round = n] ELSE [q EXCEPT !.round = 0, !.step = "save"]
      <4>1. request' = [request EXCEPT ![r] = p]
        BY <1>2, <3>1 DEF CallTool
      <4>2. p \in ChatRequest /\ p.kind = q.kind /\ p.turn = q.turn /\ p.conv = q.conv
            /\ p.messages = q.messages /\ p.step # "respond"
        <5>1. CASE n < MaxRounds
          BY <2>1, <5>1 DEF ChatRequest
        <5>2. CASE ~(n < MaxRounds)
          BY <2>1, <5>2 DEF ChatRequest
        <5> QED
          BY <5>1, <5>2
      <4> HIDE DEF p
      <4> QED
        BY <4>1, <4>2
    <3>2. CASE answerEntityRetrievalIntent(r)
      <4> DEFINE p == [q EXCEPT !.step = "save"]
      <4>1. request' = [request EXCEPT ![r] = p]
        BY <1>2, <3>2 DEF answerEntityRetrievalIntent
      <4>2. p \in ChatRequest /\ p.kind = q.kind /\ p.turn = q.turn /\ p.conv = q.conv
            /\ p.messages = q.messages /\ p.step # "respond"
        BY <2>1 DEF ChatRequest
      <4> HIDE DEF p
      <4> QED
        BY <4>1, <4>2
    <3>3. CASE Complete(r)
      <4> DEFINE p == [q EXCEPT !.step = "save", !.round = 0]
      <4>1. request' = [request EXCEPT ![r] = p]
        BY <1>2, <3>3 DEF Complete
      <4>2. p \in ChatRequest /\ p.kind = q.kind /\ p.turn = q.turn /\ p.conv = q.conv
            /\ p.messages = q.messages /\ p.step # "respond"
        BY <2>1 DEF ChatRequest
      <4> HIDE DEF p
      <4> QED
        BY <4>1, <4>2
    <3> QED
      BY <1>4, <3>1, <3>2, <3>3
  <2>3. p # None
    BY <1>3
  <2> QED
    BY <1>1, <1>2, <2>1, <2>2, <2>3, RequestMoves
<1>5. CASE ExecuteAction(r)
  <2>1. r \in Busy /\ q \in ExecuteRequest
    BY <1>2, <1>5, RequestAtStep DEF ExecuteAction
  <2> DEFINE p == [q EXCEPT !.step = "respond"]
  <2>2. request' = [request EXCEPT ![r] = p]
    BY <1>2, <1>5 DEF ExecuteAction
  <2>3. p \in ExecuteRequest /\ p.kind = q.kind /\ p.turn = q.turn /\ p.kind # "chat"
    BY <2>1 DEF ExecuteRequest
  <2> HIDE DEF p
  <2>4. p # None
    BY <1>3, <2>3
  <2> QED
    BY <1>1, <1>2, <2>1, <2>2, <2>3, <2>4, RequestMoves
<1> QED
  BY <1>4, <1>5

LEMMA EndRetells ==
  ASSUME Types, RunInv, StoryInv, NEW r \in Requests,
         RespondChat(r) \/ RespondAction(r) \/ Fail(r)
  PROVE  NothingNew
<1>1. UNCHANGED <<row, turn>> /\ request' = [request EXCEPT ![r] = None]
  BY DEF RespondChat, RespondAction, Fail
<1>2. Busy' = Busy \ {r} /\ \A x \in Busy' : x \in Busy /\ request'[x] = request[x]
  BY <1>1 DEF Busy, Types
<1>3. \A cl \in Clients : chat[cl].waits # None => chat[cl].waits \in Busy
  BY DEF RunInv, OneWaiter
<1>4. \A cl \in Clients : chat[cl].waits # r => chat'[cl] = chat[cl]
  BY DEF RespondChat, RespondAction, Fail
<1>5. ASSUME NEW cl \in Clients, chat[cl].waits = r
      PROVE  /\ chat'[cl].waits = None
             /\ Ordered(chat'[cl].history)
             /\ Retold(chat'[cl].conv, Told(chat'[cl].history))
  <2>1. /\ chat[cl] \in Chat /\ chat[cl].history \in Seq(Message) /\ Ordered(chat[cl].history)
        /\ Retold(chat[cl].conv, Told(chat[cl].history))
    BY OwnHistory DEF Types
  <2>2. CASE RespondAction(r)
    <3>1. /\ chat'[cl].waits = None /\ chat'[cl].history = chat[cl].history
          /\ chat'[cl].conv = chat[cl].conv
      BY <1>5, <2>1, <2>2 DEF RespondAction, Chat
    <3> QED
      BY <2>1, <3>1
  <2>3. CASE Fail(r)
    <3>1. /\ chat'[cl].waits = None /\ chat'[cl].history = chat[cl].history
          /\ chat'[cl].conv = chat[cl].conv
      BY <1>5, <2>1, <2>3 DEF Fail, Chat
    <3> QED
      BY <2>1, <3>1
  <2>4. CASE RespondChat(r)
    <3>1. PICK q : q = request[r]
      OBVIOUS
    <3>2. r \in Busy /\ q \in ChatRequest /\ q.kind = "chat" /\ q.step = "respond" /\ q.turn \in Nat
      BY <2>4, <3>1, RequestAtStep DEF RespondChat, ChatRequest, Turns
    <3>3. r # None
      BY AssistantAssumption
    <3>4. chat[cl].history = q.messages
      BY <1>5, <3>1, <3>2, <3>3 DEF StoryInv, Awaited
    <3>5. PICK h : h = Append(chat[cl].history, Answer(q.turn))
      OBVIOUS
    <3>6. chat'[cl].waits = None /\ chat'[cl].history = h /\ chat'[cl].conv = q.conv
      BY <1>5, <2>4, <3>1, <3>5 DEF RespondChat
    <3>7. \A s \in Told(q.messages) : s < q.turn
      BY <3>1, <3>2 DEF StoryInv, Unsaid
    <3>8. Told(h) = Told(q.messages) \cup {q.turn} /\ Ordered(h)
      BY <2>1, <3>2, <3>4, <3>5, <3>7, AnswerTold
    <3>9. Told(h) = ToldBy(q)
      BY <3>2, <3>8 DEF ToldBy
    <3>10. Story(q.conv, ToldBy(q))
      BY <3>1, <3>2 DEF Story
    <3> QED
      BY <3>6, <3>8, <3>9, <3>10 DEF Retold
  <2> QED
    BY <2>2, <2>3, <2>4
<1>6. \A cl \in Clients : chat[cl].waits # r /\ chat[cl].waits # None => chat[cl].waits \in Busy'
  BY <1>2, <1>3
<1> QED
  BY <1>1, <1>2, <1>4, <1>5, <1>6, RequestEnds

\* Saving: the turn's answer, which nobody had, is now at the end of the row
\* and with the turn, of whose conversation the row has what Keep allows.
LEMMA SaveStory ==
  ASSUME Types, RunInv, StoryInv, NEW r \in Requests, SaveConversation(r)
  PROVE  StoryInv'
<1> USE DEF StoryInv
<1>1. PICK q : q = request[r]
  OBVIOUS
<1>2. /\ r \in Busy /\ q \in ChatRequest /\ q.kind = "chat" /\ q.step = "save"
      /\ q.turn \in Nat /\ q.messages \in Seq(Message) /\ q.conv \in Conversations
  BY <1>1, RequestAtStep DEF SaveConversation, ChatRequest, Turns
<1>3. PICK t : t = q.turn
  OBVIOUS
<1>4. PICK k : k = q.conv
  OBVIOUS
<1>5. PICK A : A = Told(q.messages)
  OBVIOUS
<1>6. PICK m : m = trimAIMessages(Append(q.messages, Answer(t)))
  OBVIOUS
<1>7. PICK p : p = [q EXCEPT !.step = "respond"]
  OBVIOUS
<1>8. /\ p \in ChatRequest /\ p.kind = "chat" /\ p.turn = t /\ p.conv = k
      /\ p.messages = q.messages /\ p.step = "respond"
  BY <1>2, <1>3, <1>4, <1>7 DEF ChatRequest
<1>9. UNCHANGED <<chat, turn>> /\ request' = [request EXCEPT ![r] = p]
  BY <1>1, <1>7 DEF SaveConversation
<1>10. row'[k].messages = m /\ \A c \in Conversations \ {k} : row'[c] = row[c]
  <2> DEFINE new == [session |-> q.session, messages |-> m, pending |-> PendingColumn(k, proposed[t])]
  <2>1. row' = [row EXCEPT ![k] = new]
    BY <1>1, <1>3, <1>4, <1>6 DEF SaveConversation
  <2>2. new.messages = m
    OBVIOUS
  <2> HIDE DEF new
  <2> QED
    BY <1>2, <1>4, <2>1, <2>2 DEF Types
<1>11. Busy' = Busy /\ request'[r] = p /\ \A x \in Busy \ {r} : request'[x] = request[x]
  BY <1>2, <1>8, <1>9, NoneAssumption DEF Busy, Types
<1>12. A \in SUBSET Nat /\ Ordered(q.messages) /\ \A s \in A : s < t
  <2>1. A \in SUBSET Nat
    BY <1>2, <1>5, ToldTypes
  <2>2. Ordered(q.messages)
    BY <1>1, <1>2 DEF HistoriesInOrder
  <2>3. \A s \in A : s < t
    BY <1>1, <1>2, <1>3, <1>5 DEF Unsaid
  <2> QED
    BY <2>1, <2>2, <2>3
<1>13. /\ m \in Seq(Message) /\ m # <<>> /\ Last(m) = Answer(t) /\ Ordered(m)
       /\ t \in Told(m) /\ Told(m) \subseteq A \cup {t}
       /\ \A s \in (A \cup {t}) \ Told(m) : Len(m) = Keep /\ \A kept \in Told(m) : kept > s
  BY <1>2, <1>3, <1>5, <1>6, <1>12, Trimmed
<1>14. Last(m).turn = t
  BY <1>13 DEF Answer
<1>15. Story(k, A)
  BY <1>1, <1>2, <1>4, <1>5 DEF Story, ToldBy
<1>16. t \in 1..turn
  BY <1>1, <1>2, <1>3 DEF RunInv, Begun
\* New is what begins with this step.
<1> DEFINE New(c, S) == c = k /\ t \in S /\ S \subseteq A \cup {t} /\ (S = A \cup {t} \/ S = Told(m))
<1>17. ASSUME NEW c, NEW S, Story(c, S)' PROVE Story(c, S) \/ New(c, S)
  <2>1. CASE \E cl \in Clients : chat'[cl].conv = c /\ Told(chat'[cl].history) = S
    BY <1>9, <2>1 DEF Story
  <2>2. ASSUME NEW x \in Busy', request'[x].kind = "chat", request'[x].conv = c, ToldBy(request'[x]) = S
        PROVE  Story(c, S) \/ New(c, S)
    <3>1. CASE x = r
      BY <1>5, <1>8, <1>11, <2>2, <3>1 DEF ToldBy
    <3>2. CASE x # r
      BY <1>11, <2>2, <3>2 DEF Story
    <3> QED
      BY <3>1, <3>2
  <2>3. CASE c \in Conversations /\ row'[c] # None /\ Told(row'[c].messages) = S
    <3>1. CASE c = k
      BY <1>10, <1>13, <2>3, <3>1
    <3>2. CASE c # k
      BY <1>10, <2>3, <3>2 DEF Story
    <3> QED
      BY <3>1, <3>2
  <2> QED
    BY <1>17, <2>1, <2>2, <2>3 DEF Story
<1>18. \A c \in Conversations \cup {None}, S \in SUBSET Nat : Story(c, S) => t \notin S
  BY <1>1, <1>2, <1>3 DEF Unsaid
<1>19. A \subseteq 1..turn
  BY <1>2, <1>4, <1>12, <1>15 DEF ToldOfTurns
<1>20. k \in Conversations /\ k # None
  BY <1>2, <1>4, AssistantAssumption
<1> HIDE DEF New
<1>21. HistoriesInOrder'
  <2>1. \A x \in Busy' : request'[x].kind = "chat" => Ordered(request'[x].messages)
    BY <1>8, <1>11, <1>12 DEF HistoriesInOrder
  <2>2. \A c \in Conversations : row'[c] # None => Ordered(row'[c].messages)
    BY <1>10, <1>13 DEF HistoriesInOrder
  <2> QED
    BY <1>9, <2>1, <2>2 DEF HistoriesInOrder
<1>22. ToldOfTurns'
  BY <1>9, <1>16, <1>17, <1>19 DEF ToldOfTurns, New
<1>23. RowsEndInAnswers'
  BY <1>10, <1>13, <1>14 DEF RowsEndInAnswers, Newest
<1>24. Awaited'
  <2>1. \A cl \in Clients : chat[cl].waits # None => chat[cl].waits \in Busy
    BY DEF RunInv, OneWaiter
  <2> QED
    BY <1>1, <1>2, <1>4, <1>8, <1>9, <1>11, <2>1 DEF Awaited
<1>25. Unsaid'
  <2> SUFFICES ASSUME NEW x \in Busy', request'[x].kind = "chat"
               PROVE  /\ \A s \in Told(request'[x].messages) : s < request'[x].turn
                      /\ request'[x].step # "respond" =>
                           \A c \in Conversations \cup {None}, S \in SUBSET Nat :
                             Story(c, S)' => request'[x].turn \notin S
    BY DEF Unsaid
  <2>1. CASE x = r
    BY <1>5, <1>8, <1>11, <1>12, <2>1
  <2>2. CASE x # r
    <3>1. x \in Busy /\ request'[x] = request[x] /\ request[x].turn # t
      BY <1>1, <1>2, <1>3, <1>11, <2>2 DEF RunInv, OneRequestPerTurn
    <3>2. ASSUME request[x].step # "respond", NEW c \in Conversations \cup {None}, NEW S \in SUBSET Nat,
                 Story(c, S)'
          PROVE  request[x].turn \notin S
      <4>1. \A d \in Conversations \cup {None}, R \in SUBSET Nat : Story(d, R) => request[x].turn \notin R
        BY <2>2, <3>1, <3>2 DEF Unsaid
      <4>2. request[x].turn \notin A
        BY <1>12, <1>15, <1>20, <4>1
      <4> QED
        BY <1>17, <3>1, <3>2, <4>1, <4>2 DEF New
    <3> QED
      BY <2>2, <3>1, <3>2 DEF Unsaid
  <2> QED
    BY <2>1, <2>2
<1>26. OneConversation'
  <2>1. ASSUME NEW S \in SUBSET Nat, Story(None, S)' PROVE S = {}
    BY <1>17, <1>20, <2>1 DEF OneConversation, New
  <2>2. ASSUME NEW c \in Conversations, NEW R \in SUBSET Nat, NEW S \in SUBSET Nat,
               Story(c, R), New(k, S), S \cap R # {}
        PROVE  c = k
    <3>1. t \notin R
      BY <1>18, <2>2
    <3>2. A \cap R # {}
      BY <2>2, <3>1 DEF New
    <3> QED
      BY <1>12, <1>15, <1>20, <2>2, <3>2 DEF OneConversation
  <2>3. ASSUME NEW c \in Conversations, NEW d \in Conversations, NEW S \in SUBSET Nat, NEW R \in SUBSET Nat,
               Story(c, S)', Story(d, R)', S \cap R # {}
        PROVE  c = d
    <3>1. (Story(c, S) \/ New(c, S)) /\ (Story(d, R) \/ New(d, R)) /\ R \cap S # {}
      BY <1>17, <2>3
    <3>2. \A e, X : New(e, X) => e = k /\ New(k, X)
      BY DEF New
    <3> QED
      BY <2>2, <2>3, <3>1, <3>2 DEF OneConversation
  <2> QED
    BY <2>1, <2>3 DEF OneConversation
<1>27. Current'
  <2> SUFFICES ASSUME NEW c \in Conversations, NEW S \in SUBSET Nat,
                      row'[c] # None, Story(c, S)', Newest(c)' \in S, NEW s \in S
               PROVE  /\ s <= Newest(c)'
                      /\ \/ s \in Told(row'[c].messages)
                         \/ /\ Len(row'[c].messages) = Keep
                            /\ \A kept \in Told(row'[c].messages) : kept > s
    BY DEF Current
  <2>1. CASE c # k
    <3>1. row'[c] = row[c] /\ Newest(c)' = Newest(c) /\ Story(c, S)
      BY <1>10, <1>17, <2>1 DEF Newest, New
    <3> QED
      BY <3>1 DEF Current
  <2>2. CASE c = k
    <3>1. Newest(c)' = t /\ row'[c].messages = m
      BY <1>10, <1>14, <2>2 DEF Newest
    <3>2. New(c, S)
      BY <1>17, <1>18, <3>1
    <3>3. s <= t
      <4>1. s \in A \/ s = t
        BY <3>2 DEF New
      <4>2. s \in Nat /\ t \in Nat /\ (s \in A => s < t)
        BY <1>2, <1>3, <1>12
      <4> QED
        BY <4>1, <4>2
    <3> QED
      BY <1>13, <3>1, <3>2, <3>3 DEF New
  <2> QED
    BY <2>1, <2>2
<1> QED
  BY <1>21, <1>22, <1>23, <1>24, <1>25, <1>26, <1>27

LEMMA StoryStep == Types /\ RunInv /\ StoryInv /\ [Next]_vars => StoryInv'
<1> SUFFICES ASSUME Types, RunInv, StoryInv, [Next]_vars PROVE StoryInv'
  OBVIOUS
<1>1. ASSUME NEW cl \in Clients, Say(cl) \/ Report(cl) PROVE NothingNew
  BY <1>1, ChatTurnRetells DEF Say, Report
<1>2. ASSUME NEW cl \in Clients, Confirm(cl) PROVE NothingNew
  BY <1>2, ConfirmRetells
<1>3. ASSUME \/ \E cl \in Clients : Decline(cl) \/ GiveUp(cl) \/ Quit(cl) \/ Resume(cl) \/ SignIn(cl)
             \/ CleanupAssistantConversations
             \/ UNCHANGED vars
      PROVE  NothingNew
  BY <1>3, ClientRetells
<1>4. ASSUME NEW r \in Requests, Serve(r) PROVE NothingNew \/ StoryInv'
  BY <1>4, ServeRetells, EndRetells, SaveStory DEF Serve
<1>5. NothingNew \/ StoryInv'
  BY <1>1, <1>2, <1>3, <1>4 DEF Next
<1> QED
  BY <1>5, NothingNewStep

\* A row that ends in an answer that a client has seen has all the answers that
\* the client has seen, but for those that Keep newer messages have pushed out.
THEOREM SeenAnswersStay == Spec => []NoSeenAnswerIsLost
<1>1. Init => Types /\ RunInv /\ StoryInv
  BY TypesInit, RunInit, StoryInit
<1>2. Types /\ RunInv /\ StoryInv /\ [Next]_vars => (Types /\ RunInv /\ StoryInv)'
  BY TypesStep, RunStep, StoryStep DEF RunInv
<1>3. Types /\ StoryInv => NoSeenAnswerIsLost
  <2> SUFFICES ASSUME Types, StoryInv, NEW cl \in Clients, NEW c \in Conversations,
                      chat[cl].conv = c, row[c] # None, Last(row[c].messages) \in ToSet(chat[cl].history),
                      NEW a \in Answers(chat[cl].history) \ ToSet(row[c].messages)
               PROVE  /\ Len(row[c].messages) = Keep
                      /\ \A kept \in Answers(row[c].messages) : kept.turn > a.turn
    BY DEF NoSeenAnswerIsLost
  <2> DEFINE S == Told(chat[cl].history)
  <2>1. chat[cl].history \in Seq(Message) /\ row[c].messages \in Seq(Message)
    BY DEF Types, Chat, Row
  <2>2. Story(c, S) /\ S \in SUBSET Nat
    BY <2>1, ToldTypes DEF Story
  <2>3. Last(row[c].messages) = Answer(Newest(c))
    BY DEF StoryInv, RowsEndInAnswers
  <2>4. Newest(c) \in S
    BY <2>3 DEF Told, Answers, Answer
  <2>5. a.turn \in S
    BY DEF Told, Answers
  <2>6. a.turn \notin Told(row[c].messages)
    <3> SUFFICES ASSUME NEW b \in Answers(row[c].messages), b.turn = a.turn PROVE FALSE
      BY DEF Told
    <3>1. \A h \in Seq(Message) : \A x \in Answers(h) : x \in Message /\ x.role = "assistant" /\ x \in ToSet(h)
      BY DEF Answers, ToSet
    <3>2. a \in Message /\ b \in Message /\ a.role = b.role /\ b \in ToSet(row[c].messages)
      BY <2>1, <3>1
    <3>3. a = b
      BY <3>2 DEF Message
    <3> QED
      BY <3>2, <3>3
  <2>7. Len(row[c].messages) = Keep /\ \A kept \in Told(row[c].messages) : kept > a.turn
    BY <2>2, <2>4, <2>5, <2>6 DEF StoryInv, Current
  <2> QED
    BY <2>7 DEF Told
<1> QED
  BY <1>1, <1>2, <1>3, PTL DEF Spec
=============================================================================
