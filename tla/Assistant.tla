------------------------------- MODULE Assistant -------------------------------
(***************************************************************************)
(* The assistant: AIService (internal/usecase/ai.go), the handlers chatAI  *)
(* and executeAssistantAction (internal/adapters/httpapi/api.go), the      *)
(* conversations that postgres/assistant.go keeps, and the loop of         *)
(* crmctl's runChat (cmd/crmctl/main.go), which keeps the history itself,  *)
(* sends all of it on every turn, and asks its user before it has an       *)
(* action that the model proposed executed.                                *)
(*                                                                         *)
(* A turn is a number: its question, its answer and the action that the    *)
(* answer proposes all carry it.  A client that stops waiting leaves its   *)
(* request running.  All clients belong to one organization.               *)
(***************************************************************************)
EXTENDS Naturals, Sequences, SequencesExt

CONSTANTS
  Clients, Sessions, Conversations,
  Requests,       \* slots for the requests the server works on
  Actions,        \* what the model may write as an action
  Allowed,        \* those on allowedAssistantAction's list
  Keep,           \* messages kept of a conversation (40)
  MaxRounds,      \* completions asked for in one turn (6)
  MaxTurns,       \* bound on the turns of all clients together
  RLSEnforced,    \* the server's database role is subject to row level security
  None

ASSUME AssistantAssumption ==
  /\ Allowed \subseteq Actions /\ Sessions # {}
  /\ Keep \in Nat \ {0} /\ MaxRounds \in Nat \ {0} /\ MaxTurns \in Nat
  /\ RLSEnforced \in BOOLEAN
  /\ None \notin Actions \cup Conversations \cup Requests

VARIABLES
  session,    \* what each client signs its requests with; tokens share the empty session
  chat,       \* each client's loop
  row,        \* the table assistant_conversations
  request,    \* what each request slot is doing
  turn,       \* turns begun so far
  proposed,   \* the action each turn's answer proposes
  confirmed,  \* the turns whose action a user has confirmed
  ran         \* how often each turn's action has been committed

vars == <<session, chat, row, request, turn, proposed, confirmed, ran>>

Turns == 1..MaxTurns
Answer(t) == [role |-> "assistant", turn |-> t]
\* What the user typed, or what the client reports of an action as the user.
Question(t) == [role |-> "user", turn |-> t]

Idle == [conv |-> None, history |-> <<>>, phase |-> "idle", waits |-> None]
Busy == {r \in Requests : request[r] # None}

Init ==
  /\ session = [cl \in Clients |-> CHOOSE s \in Sessions : TRUE]
  /\ chat = [cl \in Clients |-> Idle]
  /\ row = [c \in Conversations |-> None]
  /\ request = [r \in Requests |-> None]
  /\ turn = 0
  /\ proposed = [t \in Turns |-> None]
  /\ confirmed = {}
  /\ ran = [t \in Turns |-> 0]

-----------------------------------------------------------------------------
(* The client.                                                             *)

\* Identifiers that nothing refers to.
Unused ==
  {c \in Conversations : /\ row[c] = None
                         /\ \A cl \in Clients : chat[cl].conv # c
                         /\ \A r \in Busy : request[r].conv # c}

\* The new request of a client; which of the free slots it gets is of no account.
Post(cl, q, history, phase) ==
  /\ Busy # Requests
  /\ LET r == CHOOSE slot \in Requests : slot \notin Busy
     IN /\ request' = [request EXCEPT ![r] = q]
        /\ chat' = [chat EXCEPT ![cl] =
             [@ EXCEPT !.history = history, !.phase = phase, !.waits = r]]

\* chatTurn: a new turn, on the client's whole history.  The handler gives a
\* conversation that has none its newUUID.
ChatTurn(cl, history) ==
  /\ turn < MaxTurns
  /\ turn' = turn + 1
  /\ chat[cl].conv # None \/ Unused # {}
  /\ Post(cl, [kind |-> "chat", step |-> "model", session |-> session[cl], turn |-> turn + 1,
               conv |-> IF chat[cl].conv = None THEN CHOOSE c \in Unused : TRUE ELSE chat[cl].conv,
               messages |-> history, round |-> 0], history, "chat")
  /\ UNCHANGED <<session, row, proposed, confirmed, ran>>

\* The user types a question.
Say(cl) ==
  /\ chat[cl].phase = "idle"
  /\ ChatTurn(cl, Append(chat[cl].history, Question(turn + 1)))

\* The outcome of an action opens the next turn, whether it is an error or not.
Report(cl) ==
  /\ chat[cl].phase = "report"
  /\ ChatTurn(cl, Append(chat[cl].history, Question(turn + 1)))

\* confirmCommand: yes.  The request carries what the last answer proposed.
Confirm(cl) ==
  /\ chat[cl].phase = "confirm"
  /\ LET t == Last(chat[cl].history).turn
     IN /\ confirmed' = confirmed \cup {t}
        /\ Post(cl, [kind |-> "execute", step |-> "run", conv |-> None, turn |-> t],
                chat[cl].history, "execute")
  /\ UNCHANGED <<session, row, turn, proposed, ran>>

\* confirmCommand: no.
Decline(cl) ==
  /\ chat[cl].phase = "confirm"
  /\ LET h == chat[cl].history
     IN chat' = [chat EXCEPT ![cl] =
          [@ EXCEPT !.phase = "idle", !.history = Append(h, Question(Last(h).turn))]]
  /\ UNCHANGED <<session, row, request, turn, proposed, confirmed, ran>>

\* Mutated form: an action whose outcome is not known is offered again.
MAfterError(phase) == IF phase = "chat" THEN "idle" ELSE "confirm"

\* Where the loop goes on after an error: it drops a turn and reports an action.
AfterError(phase) == IF phase = "chat" THEN "idle" ELSE "report"

\* The 30 seconds of the client's http.Client are over, or the connection breaks.
GiveUp(cl) ==
  /\ chat[cl].waits # None
  /\ chat' = [chat EXCEPT ![cl] = [@ EXCEPT !.waits = None, !.phase = AfterError(chat[cl].phase)]]
  /\ UNCHANGED <<session, row, request, turn, proposed, confirmed, ran>>

\* The user leaves and starts the program again.
Quit(cl) ==
  /\ chat[cl].phase = "idle" /\ chat[cl] # Idle
  /\ chat' = [chat EXCEPT ![cl] = Idle]
  /\ UNCHANGED <<session, row, request, turn, proposed, confirmed, ran>>

\* A client continues a conversation from the list of its session.
Resume(cl) ==
  /\ chat[cl] = Idle
  /\ \E c \in Conversations :
       /\ row[c] # None /\ row[c].session = session[cl]
       /\ chat' = [chat EXCEPT ![cl] = [@ EXCEPT !.conv = c, !.history = row[c].messages]]
  /\ UNCHANGED <<session, row, request, turn, proposed, confirmed, ran>>

\* While the program runs its user saves or clears a token, which crmctl looks
\* up for every request and which takes the place of the session, or signs in
\* anew.  It tells only when the next request is signed.
SignIn(cl) ==
  /\ chat[cl].phase \in {"idle", "report"}
  /\ \E s \in Sessions \ {session[cl]} : session' = [session EXCEPT ![cl] = s]
  /\ UNCHANGED <<chat, row, request, turn, proposed, confirmed, ran>>

-----------------------------------------------------------------------------
(* The server: a turn.                                                     *)

AtStep(r, kind, step) == r \in Busy /\ request[r].kind = kind /\ request[r].step = step

\* Mutated form: the model may look around for as long as it likes.
MCallTool(r) ==
  /\ AtStep(r, "chat", "model")
  /\ request' = [request EXCEPT ![r].round = (@ + 1) % MaxRounds]
  /\ UNCHANGED <<session, chat, row, turn, proposed, confirmed, ran>>

\* The model calls a read-only tool, whose result or error it is told; after
\* MaxRounds of them the user is asked to be more specific (round is back at 0).
CallTool(r) ==
  /\ AtStep(r, "chat", "model")
  /\ LET n == request[r].round + 1
     IN request' = [request EXCEPT ![r] =
          IF n < MaxRounds THEN [@ EXCEPT !.round = n] ELSE [@ EXCEPT !.round = 0, !.step = "save"]]
  /\ UNCHANGED <<session, chat, row, turn, proposed, confirmed, ran>>

allowedAssistantAction(a) == a \in Allowed

\* What a reply of the model proposes.  The answer to "final" is checked; a
\* reply that is no such object is searched for an action, which is not.
PendingAction(form, action) ==
  IF form = "final" /\ ~allowedAssistantAction(action) THEN None ELSE action

\* A last message with a word like "show" or "open" is answered by a search,
\* without the model, if that finds anything.  The outcome of an action may
\* have such a word as well as a question.
answerEntityRetrievalIntent(r) ==
  /\ AtStep(r, "chat", "model")
  /\ request[r].round = 0
  /\ Last(request[r].messages).role = "user"
  /\ request' = [request EXCEPT ![r].step = "save"]
  /\ UNCHANGED <<session, chat, row, turn, proposed, confirmed, ran>>

\* The model answers.
Complete(r) ==
  /\ AtStep(r, "chat", "model")
  /\ request' = [request EXCEPT ![r] = [@ EXCEPT !.step = "save", !.round = 0]]
  /\ \E form \in {"final", "garbled"}, action \in Actions \cup {None} :
       proposed' = [proposed EXCEPT ![request[r].turn] = PendingAction(form, action)]
  /\ UNCHANGED <<session, chat, row, turn, confirmed, ran>>

\* Mutated form: the first messages are kept.
MtrimAIMessages(messages) == IF Len(messages) <= Keep THEN messages ELSE SubSeq(messages, 1, Keep)

trimAIMessages(messages) ==
  IF Len(messages) <= Keep THEN messages ELSE SubSeq(messages, Len(messages) - Keep + 1, Len(messages))

\* Mutated form: the conflict is resolved whoever the row belongs to.
MUpsertable(c, s) == TRUE

\* on conflict (id) do update ... where the session is the row's.
Upsertable(c, s) == row[c] # None => row[c].session = s

\* The row's new pending_action.
PendingColumn(c, action) == action

\* SaveConversation and UpsertAssistantConversation.
SaveConversation(r) ==
  /\ AtStep(r, "chat", "save")
  /\ LET q == request[r]
     IN /\ Upsertable(q.conv, q.session)
        /\ row' = [row EXCEPT ![q.conv] =
             [session |-> q.session,
              messages |-> trimAIMessages(Append(q.messages, Answer(q.turn))),
              pending |-> PendingColumn(q.conv, proposed[q.turn])]]
  /\ request' = [request EXCEPT ![r].step = "respond"]
  /\ UNCHANGED <<session, chat, turn, proposed, confirmed, ran>>

\* The client shows the answer, and asks for a confirmation if there is an action.
RespondChat(r) ==
  /\ AtStep(r, "chat", "respond")
  /\ LET q == request[r]
     IN chat' = [cl \in Clients |->
          IF chat[cl].waits # r THEN chat[cl]
          ELSE [conv |-> q.conv, history |-> Append(chat[cl].history, Answer(q.turn)), waits |-> None,
                phase |-> IF proposed[q.turn] = None THEN "idle" ELSE "confirm"]]
  /\ request' = [request EXCEPT ![r] = None]
  /\ UNCHANGED <<session, row, turn, proposed, confirmed, ran>>

-----------------------------------------------------------------------------
(* The server: an action.                                                  *)

\* ExecuteAction, whose unit of work commits.
ExecuteAction(r) ==
  /\ AtStep(r, "execute", "run")
  /\ allowedAssistantAction(proposed[request[r].turn])
  /\ ran' = [ran EXCEPT ![request[r].turn] = @ + 1]
  /\ request' = [request EXCEPT ![r].step = "respond"]
  /\ UNCHANGED <<session, chat, row, turn, proposed, confirmed>>

RespondAction(r) ==
  /\ AtStep(r, "execute", "respond")
  /\ chat' = [cl \in Clients |-> IF chat[cl].waits = r
                THEN [chat[cl] EXCEPT !.waits = None, !.phase = "report"] ELSE chat[cl]]
  /\ request' = [request EXCEPT ![r] = None]
  /\ UNCHANGED <<session, row, turn, proposed, confirmed, ran>>

-----------------------------------------------------------------------------
(* Failures and housekeeping.                                              *)

\* Anything before the response fails: the model, a statement, a check, the
\* commit, the server itself, or the context of a request nobody waits for.
\* What the unit of work wrote is rolled back.
Fail(r) ==
  /\ r \in Busy
  /\ request' = [request EXCEPT ![r] = None]
  /\ chat' = [cl \in Clients |-> IF chat[cl].waits = r
                THEN [chat[cl] EXCEPT !.waits = None, !.phase = AfterError(@)] ELSE chat[cl]]
  /\ UNCHANGED <<session, row, turn, proposed, confirmed, ran>>

\* The housekeeper deletes the conversations without an answer in the last
\* fourteen days; time is not modelled, so they may be any.  Its context has no
\* organization: where policies are in force it is shown no conversation.
CleanupAssistantConversations ==
  /\ ~RLSEnforced
  /\ \E stale \in (SUBSET {c \in Conversations : row[c] # None}) \ {{}} :
       row' = [c \in Conversations |-> IF c \in stale THEN None ELSE row[c]]
  /\ UNCHANGED <<session, chat, request, turn, proposed, confirmed, ran>>

Serve(r) ==
  \/ CallTool(r) \/ answerEntityRetrievalIntent(r) \/ Complete(r) \/ SaveConversation(r) \/ RespondChat(r)
  \/ ExecuteAction(r) \/ RespondAction(r) \/ Fail(r)

Next ==
  \/ \E cl \in Clients : Say(cl) \/ Report(cl) \/ Confirm(cl) \/ Decline(cl) \/ GiveUp(cl)
                         \/ Quit(cl) \/ Resume(cl) \/ SignIn(cl)
  \/ \E r \in Requests : Serve(r)
  \/ CleanupAssistantConversations

\* A request is worked on until it is answered or has failed.
Spec == Init /\ [][Next]_vars /\ \A r \in Requests : WF_vars(Serve(r))

-----------------------------------------------------------------------------
(* Properties.                                                             *)

Message == [role : {"user", "assistant"}, turn : Nat]
Answers(messages) == {m \in ToSet(messages) : m.role = "assistant"}

ChatRequest ==
  [kind : {"chat"}, step : {"model", "save", "respond"}, session : Sessions, turn : Turns,
   conv : Conversations, messages : Seq(Message), round : Nat]
ExecuteRequest ==
  [kind : {"execute"}, step : {"run", "respond"}, conv : {None}, turn : Turns]

ASSUME NoneAssumption == None \notin ChatRequest \cup ExecuteRequest

\* An action takes effect at most once for every time the model proposed it,
\* only after a user has confirmed it, and only if it is on the list: though
\* responses are lost, clients give up and errors send them round the loop
\* again, and though an action dug out of a garbled reply was never checked.
RunsOnceAsConfirmed ==
  \A t \in Turns : ran[t] > 0 =>
    /\ ran[t] = 1
    /\ t \in confirmed
    /\ proposed[t] \in Allowed

\* A conversation belongs to the session it began in until it is deleted,
\* though a client still holds its identifier after it has signed in anew.
ConversationKeepsSession ==
  [][\A c \in Conversations :
       row[c] # None /\ row'[c] # None => row'[c].session = row[c].session]_vars

\* A stored conversation may end in an answer that a client has not seen: the
\* response was lost, or another client or a late request wrote it.  If the
\* client has seen its end, the row has every answer the client has seen,
\* but for those that Keep newer messages have pushed out.
NoSeenAnswerIsLost ==
  \A cl \in Clients, c \in Conversations :
    (chat[cl].conv = c /\ row[c] # None /\ Last(row[c].messages) \in ToSet(chat[cl].history)) =>
      \A m \in Answers(chat[cl].history) \ ToSet(row[c].messages) :
        /\ Len(row[c].messages) = Keep
        /\ \A kept \in Answers(row[c].messages) : kept.turn > m.turn

\* A turn ends, with an answer or an error: the model cannot go on calling
\* tools for ever, even for a client that is ready to wait.
TurnEnds == \A cl \in Clients : chat[cl].phase = "chat" ~> chat[cl].phase # "chat"
=============================================================================
