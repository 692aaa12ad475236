----------------------------- MODULE Conversation -----------------------------
(***************************************************************************)
(* A question to the AI from the pool task to the stored reply:            *)
(* HandleAIMessage, the orchestrator's GenerateReply, the session manager  *)
(* on Redis, AIService.Chat and the semantic cache.                        *)
(*                                                                         *)
(* Every question runs on a goroutine of its own; the state they share is  *)
(* the history of a (user, session) and the window of a session in Redis - *)
(* each changed by a Get and a later Set - the context AIService keeps per *)
(* user under a lock, and the cache.  ResetSession, InvalidateByQuestion   *)
(* and the streamed variant have no caller and are left out, RAG and roles *)
(* only change the wording of a prompt.                                    *)
(***************************************************************************)
EXTENDS SemanticCache, SequencesExt

CONSTANTS
  Users, Sessions,
  Scripts,        \* bounds: a script lists the questions that come in, and says how many
                  \* troubles there are (calls to Redis that fail, keys that run out of time,
                  \* cleared contexts) and how many cache entries get past their TTL
  Tools,          \* questions detectToolCall finds a tool for
  contextLimit,   \* turns kept of a history
  contextWindowSize,
  ContextLimit,   \* pairs kept in a context
  MaxActive       \* bound: questions in work at a time

\* group: the question goes to a group; mention: "@ai" is still in the text.
Asks == [user : Users, session : Sessions, text : Questions, group : BOOLEAN, mention : BOOLEAN]

\* born: the cache entry a reply was taken from, 0 for one worked out for the question.
Reply == [answer : Answers, born : Nat]

ASSUME ConversationAssumption ==
  /\ Callers = 1..Cardinality(Callers)
  /\ \A s \in Scripts : /\ s.asks \in Seq(Asks) /\ DOMAIN s.asks \subseteq Callers
                         /\ {s.troubles, s.ages} \subseteq Nat
  /\ Answers = {"llm", "tool", "apology"} \X Callers
  /\ Tools \subseteq Questions
  /\ {contextLimit, contextWindowSize, ContextLimit} \subseteq Nat \ {0}
  /\ MaxActive \in Nat
  /\ None \notin Reply

VARIABLES
  script,
  state,         \* Redis, per user and session
  history,       \* Redis, per user and session: turns <<role, caller>>
  window,        \* Redis, per session: turns of the users
  contextCache,  \* AIService: turns, per user
  handler,       \* where each question is: pc, the list in hand, the reply
  troubles,
  turns,         \* history: what was said in a session since its key was lost
  mixed,         \* history: sessions whose questions overlapped or met an error
  since          \* history: `dead` when the question arrived

redis   == <<state, history, window>>
ghosts  == <<turns, mixed, since>>
vars == <<cacheVars, script, redis, contextCache, handler, troubles, ghosts>>

asked == script.asks
Keys == Users \X Sessions
Key(h) == <<asked[h].user, asked[h].session>>
Roles == {"user", "assistant"}
Turn  == Roles \X Callers

\* The two places of AppendHistory, for either role.
Reading(role) == IF role = "user" THEN "getUser" ELSE "getAssistant"
Writing(role) == IF role = "user" THEN "saveUser" ELSE "saveAssistant"
HandlerPc == {"new", "getUser", "saveUser", "lookup", "count", "tool", "getWindow", "saveWindow",
              "ask", "set", "getAssistant", "saveAssistant", "store", "done"}
Working(k) == {h \in DOMAIN asked : Key(h) = k /\ handler[h].pc \notin {"new", "done"}}

Init ==
  /\ CacheInit
  /\ script \in Scripts
  /\ state = [k \in Keys |-> "idle"]
  /\ history = [k \in Keys |-> <<>>]
  /\ window = [s \in Sessions |-> <<>>]
  /\ contextCache = [u \in Users |-> <<>>]
  /\ handler = [h \in Callers |-> [pc |-> "new", held |-> <<>>, reply |-> None]]
  /\ troubles = 0
  /\ turns = [k \in Keys |-> <<>>]
  /\ mixed = {}
  /\ since = [h \in Callers |-> 0]

At(h, pc)    == handler[h].pc = pc
Goto(h, pc)  == handler' = [handler EXCEPT ![h].pc = pc]
Latest(s, n) == SubSeq(s, IF Len(s) > n THEN Len(s) - n + 1 ELSE 1, Len(s))

Trouble == troubles < script.troubles /\ troubles' = troubles + 1

\* A call to Redis returns an error, which the handler does not look at.
Fault(h) ==
  /\ Trouble
  /\ mixed' = mixed \cup {Key(h)}
-----------------------------------------------------------------------------
(* redis_session_manager.go *)

\* The handler begins.
TransitionToConversation(h) ==
  /\ At(h, "new")
  /\ \A g \in Callers : g < h => ~At(g, "new")
  /\ Cardinality({g \in Callers : handler[g].pc \notin {"new", "done"}}) < MaxActive
  /\ Goto(h, "getUser")
  /\ \/ state' = [state EXCEPT ![Key(h)] = "in_conversation"] /\ UNCHANGED troubles
     \/ Trouble /\ UNCHANGED state
  /\ turns' = [turns EXCEPT ![Key(h)] = Append(@, <<"user", h>>)]
  /\ mixed' = IF Working(Key(h)) = {} THEN mixed ELSE mixed \cup {Key(h)}
  /\ since' = [since EXCEPT ![h] = dead]
  /\ UNCHANGED <<cacheVars, script, history, window, contextCache>>

\* AppendHistory: GetHistory takes an error for an empty history ...
GetHistory(h, role) ==
  /\ At(h, Reading(role))
  /\ \/ /\ handler' = [handler EXCEPT ![h].pc = Writing(role), ![h].held = history[Key(h)]]
        /\ UNCHANGED <<troubles, mixed>>
     \/ /\ handler' = [handler EXCEPT ![h].pc = Writing(role), ![h].held = <<>>]
        /\ Fault(h)
  /\ UNCHANGED <<cacheVars, script, redis, contextCache, turns, since>>

\* Mutant: the oldest turns are kept.
SaveHistoryKeepsHead(h, role) ==
  /\ At(h, Writing(role))
  /\ \/ /\ LET all == Append(handler[h].held, <<role, h>>)
           IN  history' = [history EXCEPT ![Key(h)] = SubSeq(all, 1, IF Len(all) > contextLimit
                                                                     THEN contextLimit ELSE Len(all))]
        /\ UNCHANGED <<troubles, mixed>>
     \/ Fault(h) /\ UNCHANGED history
  /\ handler' = [handler EXCEPT ![h].pc = IF role = "user" THEN "lookup" ELSE "store", ![h].held = <<>>]
  /\ UNCHANGED <<cacheVars, script, state, window, contextCache, turns, since>>

\* Mutant: the key names the session only.
SaveHistoryPerSession(h, role) ==
  /\ At(h, Writing(role))
  /\ \/ /\ history' = [k \in Keys |-> IF k[2] = Key(h)[2]
                                        THEN Latest(Append(handler[h].held, <<role, h>>), contextLimit)
                                        ELSE history[k]]
        /\ UNCHANGED <<troubles, mixed>>
     \/ Fault(h) /\ UNCHANGED history
  /\ handler' = [handler EXCEPT ![h].pc = IF role = "user" THEN "lookup" ELSE "store", ![h].held = <<>>]
  /\ UNCHANGED <<cacheVars, script, state, window, contextCache, turns, since>>

\* ... and saveHistory writes the list back, cut to the last contextLimit turns.
SaveHistory(h, role) ==
  /\ At(h, Writing(role))
  /\ \/ /\ history' = [history EXCEPT ![Key(h)] =
                         Latest(Append(handler[h].held, <<role, h>>), contextLimit)]
        /\ UNCHANGED <<troubles, mixed>>
     \/ Fault(h) /\ UNCHANGED history
  /\ handler' = [handler EXCEPT ![h].pc = IF role = "user" THEN "lookup" ELSE "store", ![h].held = <<>>]
  /\ UNCHANGED <<cacheVars, script, state, window, contextCache, turns, since>>

\* PushGroupContext: GetGroupContext, then the window is written back.
GetGroupContext(h) ==
  /\ At(h, "getWindow")
  /\ \/ /\ handler' = [handler EXCEPT ![h].pc = "saveWindow", ![h].held = window[asked[h].session]]
        /\ UNCHANGED troubles
     \/ /\ handler' = [handler EXCEPT ![h].pc = "saveWindow", ![h].held = <<>>]
        /\ Trouble
  /\ UNCHANGED <<cacheVars, script, redis, contextCache, ghosts>>

\* Mutant: the window is not cut.
PushGroupContextUncut(h) ==
  /\ At(h, "saveWindow")
  /\ window' = [window EXCEPT ![asked[h].session] = Append(handler[h].held, <<"user", h>>)]
  /\ handler' = [handler EXCEPT ![h].pc = "ask", ![h].held = <<>>]
  /\ UNCHANGED <<cacheVars, script, state, history, contextCache, troubles, ghosts>>

PushGroupContext(h) ==
  /\ At(h, "saveWindow")
  /\ \/ /\ window' = [window EXCEPT ![asked[h].session] =
                        Latest(Append(handler[h].held, <<"user", h>>), contextWindowSize)]
        /\ UNCHANGED troubles
     \/ Trouble /\ UNCHANGED window
  /\ handler' = [handler EXCEPT ![h].pc = "ask", ![h].held = <<>>]
  /\ UNCHANGED <<cacheVars, script, state, history, contextCache, ghosts>>
-----------------------------------------------------------------------------
(* agent_orchestrator.go *)

Lookup(h) ==
  /\ At(h, "lookup")
  /\ Scan(h, asked[h].text)
  /\ Goto(h, "count")
  /\ UNCHANGED <<script, redis, contextCache, troubles, ghosts>>

\* Without a tool: a message to a group goes into the window, then the model is asked.
Infer(h) == IF asked[h].group /\ ~asked[h].mention THEN "getWindow" ELSE "ask"

\* A hit is returned as it is; the history gets no answer.
LookedUp(h) ==
  /\ At(h, "count")
  /\ \/ /\ CountHit(h)
        /\ handler' = [handler EXCEPT ![h].pc = "store", ![h].reply =
                         [answer |-> found[h].entry.answer, born |-> found[h].entry.born]]
     \/ /\ CountMiss(h)
        /\ Goto(h, IF asked[h].text \in Tools THEN "tool" ELSE Infer(h))
  /\ UNCHANGED <<script, redis, contextCache, troubles, ghosts>>

Own(h, from) == [answer |-> <<from, h>>, born |-> 0]

\* A tool that fails leaves the question to the model.
Dispatch(h) ==
  /\ At(h, "tool")
  /\ \/ handler' = [handler EXCEPT ![h].pc = "set", ![h].reply = Own(h, "tool")]
     \/ Goto(h, Infer(h))
  /\ UNCHANGED <<cacheVars, script, redis, contextCache, troubles, ghosts>>

\* Whatever the reply is, an apology too.
Remember(h) ==
  /\ At(h, "set")
  /\ Set(asked[h].text, handler[h].reply.answer)
  /\ Goto(h, "getAssistant")
  /\ UNCHANGED <<script, redis, contextCache, troubles, ghosts>>
-----------------------------------------------------------------------------
(* ai_service.go *)

\* Mutant: the limit is taken for a number of messages, one more than a pair.
UpdateContextByMessages(u, h) ==
  contextCache' = [contextCache EXCEPT ![u] =
                     Latest(@ \o <<<<"user", h>>, <<"assistant", h>>>>, 2 * ContextLimit + 1)]

\* updateContext, under the lock.
UpdateContext(u, h) ==
  contextCache' = [contextCache EXCEPT ![u] =
                     Latest(@ \o <<<<"user", h>>, <<"assistant", h>>>>, 2 * ContextLimit)]

\* Chat: the call to the model succeeds, or fails and the user gets an apology.
Chat(h) ==
  /\ At(h, "ask")
  /\ \/ /\ UpdateContext(asked[h].user, h)
        /\ handler' = [handler EXCEPT ![h].pc = "set", ![h].reply = Own(h, "llm")]
     \/ /\ handler' = [handler EXCEPT ![h].pc = "set", ![h].reply = Own(h, "apology")]
        /\ UNCHANGED contextCache
  /\ UNCHANGED <<cacheVars, script, redis, troubles, ghosts>>

\* The request to /ai/clearContext.
ClearContext(u) ==
  /\ Trouble
  /\ contextCache' = [contextCache EXCEPT ![u] = <<>>]
  /\ UNCHANGED <<cacheVars, script, redis, handler, ghosts>>
-----------------------------------------------------------------------------
(* message_handler.go *)

\* The rest of HandleAIMessage: the row of the reply is inserted, or that fails
\* and nothing is sent (Think of ChatServer).  What was said is remembered here.
Store(h) ==
  /\ At(h, "store")
  /\ Goto(h, "done")
  /\ turns' = IF handler[h].reply.born # 0 THEN turns
              ELSE [turns EXCEPT ![Key(h)] = Append(@, <<"assistant", h>>)]
  /\ UNCHANGED <<cacheVars, script, redis, contextCache, troubles, mixed, since>>
-----------------------------------------------------------------------------
\* A key in Redis runs out of time.
Expire ==
  /\ Trouble
  /\ \/ \E k \in Keys : /\ history[k] # <<>>
                        /\ history' = [history EXCEPT ![k] = <<>>]
                        /\ turns' = [turns EXCEPT ![k] = <<>>]
                        /\ mixed' = IF Working(k) = {} THEN mixed ELSE mixed \cup {k}
                        /\ UNCHANGED <<state, window>>
     \/ \E k \in Keys : /\ state[k] # "idle"
                        /\ state' = [state EXCEPT ![k] = "idle"]
                        /\ UNCHANGED <<history, window, turns, mixed>>
     \/ \E s \in Sessions : /\ window[s] # <<>>
                            /\ window' = [window EXCEPT ![s] = <<>>]
                            /\ UNCHANGED <<state, history, turns, mixed>>
  /\ UNCHANGED <<cacheVars, script, contextCache, handler, since>>

Forget ==
  /\ dead < script.ages
  /\ Age
  /\ UNCHANGED <<script, redis, contextCache, handler, troubles, ghosts>>

Step(h) ==
  \/ TransitionToConversation(h)
  \/ \E role \in Roles : GetHistory(h, role) \/ SaveHistory(h, role)
  \/ Lookup(h) \/ LookedUp(h) \/ Dispatch(h) \/ GetGroupContext(h) \/ PushGroupContext(h)
  \/ Chat(h) \/ Remember(h) \/ Store(h)

Next ==
  \/ \E h \in DOMAIN asked : Step(h)
  \/ \E u \in Users : ClearContext(u)
  \/ Expire \/ Forget

Spec == Init /\ [][Next]_vars
-----------------------------------------------------------------------------
TypeOK ==
  /\ CacheTypeOK
  /\ script \in Scripts
  /\ state \in [Keys -> {"idle", "in_conversation"}]
  /\ history \in [Keys -> Seq(Turn)]
  /\ window \in [Sessions -> Seq(Turn)]
  /\ \A s \in Sessions : Len(window[s]) <= contextWindowSize
  /\ contextCache \in [Users -> Seq(Turn)]
  /\ handler \in [Callers -> [pc : HandlerPc, held : Seq(Turn), reply : Reply \cup {None}]]
  /\ troubles \in Nat
  /\ turns \in [Keys -> Seq(Turn)]
  /\ mixed \subseteq Keys
  /\ since \in [Callers -> 0..dead]

\* However the questions of a session overlap and whatever Redis loses, its
\* history holds turns of this user and session only, each once, an answer never
\* before its question, and no more than contextLimit of them: overlapping
\* AppendHistory calls lose turns, they do not mix or repeat them.
HistorySound ==
  \A k \in Keys :
    /\ Len(history[k]) <= contextLimit
    /\ \A i \in DOMAIN history[k] : Key(history[k][i][2]) = k
    /\ \A i, j \in DOMAIN history[k] :
         i < j => /\ history[k][i] # history[k][j]
                  /\ history[k][i][2] = history[k][j][2] => history[k][i][1] = "user"

\* A session whose questions came one after the other has the last contextLimit
\* turns in its history: every question, and every answer that was worked out.
HistoryKeepsTail ==
  \A k \in Keys \ mixed : Working(k) = {} => history[k] = Latest(turns[k], contextLimit)

\* The context the model is given consists of whole pairs, a question of this user
\* and the answer to it, each once and at most ContextLimit of them - with
\* questions of the user in flight and the context cleared at any time.
ContextPairs ==
  \A u \in Users :
    LET c == contextCache[u]
    IN  /\ Len(c) <= 2 * ContextLimit /\ Len(c) % 2 = 0
        /\ \A i \in DOMAIN c :
             /\ asked[c[i][2]].user = u
             /\ i % 2 = 1 => c[i][1] = "user" /\ c[i + 1] = <<"assistant", c[i][2]>>
        /\ \A i, j \in DOMAIN c : i # j => c[i] # c[j]

\* A reply from the cache was worked out for a similar question, by a question
\* that is no later one's echo, and was within its TTL when the question came in;
\* any other reply was worked out for this very question.
ReplyFits ==
  \A h \in Callers :
    LET r == handler[h].reply
        g == r.answer[2]
    IN  r # None =>
          IF r.born = 0 THEN g = h
          ELSE /\ g # h /\ Sim[<<asked[h].text, asked[g].text>>] >= threshold
               /\ r.born > since[h]

\* CacheEntry (semantic_cache.go:56): the answer is one the model gave - or a tool.
CachedAnswersGenerated == \A e \in entries : e.answer[1] # "apology"
=============================================================================
