# Verification of the chat server

TLA+ models of kama_chat_server (Go), with TLC configurations that check them on small instances and
TLAPS proofs for every size. The modules follow the source under `src/`; `PROJECT.json` maps each
definition to its lines.

## The system

A browser holds one websocket per login. The process has these parts (paths under
`src/internal/service` unless said otherwise):

| part | state | operations | talks to |
|---|---|---|---|
| chat server, channel mode (`chat/server.go`, `chat/client.go`) | `Clients` map, one mutex, channels Transmit/Login/Logout; per connection SendTo, SendBack | Start (one select loop), Read and Write per connection, NewClientInit, ClientLogout | MySQL rows, Redis lists, sequencer, AI handler through the pool |
| chat server, Kafka mode (`chat/kafka_server.go`, `kafka/`) | the same map and mutex; unbuffered Login/Logout; at the broker the log of the topic and the committed offset | Start with a loop for logins and a goroutine that reads the topic; Read publishes | Kafka, MySQL |
| goroutine pool (`pool/`) | closed flag, task channel, Once, WaitGroup, four counters | Submit, SubmitWithContext, workers, Shutdown, ShutdownWithTimeout | used by Start for AI work |
| session sequencer (`sequence/`) | map of counters, each with its last access | Next, gcLoop | Start, AI handler |
| AI handler and orchestrator (`ai/message_handler.go`, `agent_orchestrator.go`, `function_calling.go`) | none | HandleAIMessage, GenerateReply | conversation state, cache, RAG, gRPC or HTTP model |
| AI conversation state (`ai/redis_session_manager.go`, `ai_service.go`, `eino_chain.go`; sidecar `src/ai-service`) | Redis, per user and session: mode, last 20 turns; Redis, per session: last 10 texts; memory, per user: the context given to the model | transition, append history, push to window, chat, clear context | Redis, the model |
| semantic cache, RAG (`ai/semantic_cache.go`, `rag_service.go`) | bounded index of questions; documents, chunks, vectors | get, set, evict; add, delete, search, fuse | Redis, embedding service |
| groups, contacts, sessions (`gorm/`) | rows group_info, user_contact, contact_apply, session; Redis copies of lists | create, enter, leave, remove, dismiss; apply, pass, refuse, black; open, delete | MySQL, Redis |
| users (`gorm/user_info_service.go`) | rows user_info | register, login, update, able, disable, delete, set admin | MySQL; the rows of contacts, applications and sessions |
| SMS codes (`sms/`) | codes in Redis with a lifetime | send, verify | Redis, the SMS provider |
| message history (`gorm/message_service.go`) | Redis copies of message lists | list by user, by group | MySQL, Redis |
| controllers, start-up, models, front end | - | routing and encoding | everything above |

What is hard here: the hub's one mutex is held across channel sends; readers look at the length of a
channel and send later; connections are closed by an HTTP handler while two goroutines use them; the
pool is closed while others submit; counters are deleted while callers hold them; rows and their
Redis copies are read, changed and written back without transactions. `PROJECT.json` lists each of
these under "hazards", with its line and the properties that watch it.

What makes each part correct:

* pool - an accepted task runs exactly once, Shutdown drains, counters add up, every Shutdown
  returns;
* hub - no frame is lost or doubled between socket and dispatch, a message due to an online user
  reaches its socket in server order, the mutex is always given back, a row says Sent only if it
  was;
* hub, Kafka mode - what one connection sends arrives once and in order, a crash loses the record in
  hand at most, once an offset is committed, the mutex is given back, and nothing but three known
  situations stops the hub;
* sequencer - the numbers of a session are distinct and increase;
* conversation - histories, windows and contexts keep their bound and their order, a reply belongs
  to the question it is given to, the cache hands out what was worked out for a similar question;
* groups and contacts - member list, count and contact rows agree; caches do not outlive a change;
* users - one account per telephone, a deleted account leaves no rows behind, a disabled user is not
  called.

## Modules

| module | models |
|---|---|
| `GoroutinePool` | the pool, one atomic or channel operation per step |
| `TaskLifecycle` | what any task pool promises (abstract) |
| `GoroutinePoolProofs` | theorems about `GoroutinePool` |
| `SessionSequencer` | `Next` with its two locked sections, and gcLoop |
| `SessionSequencerProofs` | theorems about `SessionSequencer` |
| `ChatServer` | Start, Read, Write, NewClientInit, ClientLogout, AI closures |
| `KafkaServer` | the hub in Kafka mode, with the broker, a crash and a restart |
| `ChatServerProofs`, `KafkaServerProofs` | theorems about the two |
| `Queues`, `QueueLemmas` | what the two hubs say about queues, and facts about it |
| `ServiceCalls` | the calls to MySQL and Redis a handler is made of, and the tables they are about |
| `Accounts` | the handlers of user_info_service; extends `ServiceCalls` |
| `Membership` | groups, contacts, applications, sessions and what every call does to tables and lists; extends `Accounts` |
| `MembershipProofs` | theorems about accounts and counts, and what every call does to handlers and tables |
| `MembershipRowProofs` | theorems about the rows and lists of contacts, applications, sessions and groups; extends `MembershipProofs` |
| `SemanticCache` | Get in its two critical sections, Set with evict, the passing of time |
| `Conversation` | a question to the AI from the pool task to the stored reply; extends `SemanticCache` |
| `ConversationProofs` | theorems about the two |
| `MC*` | instances for TLC |

**GoroutinePool.** A call of Submit or SubmitWithContext shares its name with its task. `call[t]` is
the place of the call in the function: the flag is loaded (`LoadClosed`), the counter bumped
(`CountSubmitted`), then the select takes a branch (`Enqueue`, `QueueFull`, `CtxDone`) or panics on
a closed channel (`SendPanics`); a refusal moves the rejected counter (`CountRejected`). A worker
goes through `Receive`, `BeginProcessing`, `SafeRun` (return or recovered panic), `EndProcessing`,
`CountCompleted`, and leaves by `ExitLoop` when the channel is closed and empty. A Shutdown call
goes through the Once (`EnterOnce`/`SkipOnce`), `MarkClosed`, `CloseQueue`, `WaitWorkers`;
`TimedReturn` is the select of ShutdownWithTimeout, whose timer may fire at any time. A handoff to a
waiting worker is an `Enqueue` followed by a `Receive`: the capacity is at least one.

**ChatServer.** `Clients`, `mutex`, `Transmit`, `Login`, `Logout` are the fields of Server;
`SendTo`, `SendBack` those of Client; `reader[c]`, `writer[c]`, `logout[l]`, `start`, `tasks` are
the program counters of the goroutines. `Acquire` gives the free mutex to any goroutine that waits
for it; the step that ends a critical section gives it back. A send to a full channel is not
enabled, so a goroutine that holds the mutex there goes on holding it. A panic outside the pool sets
`down`, and nothing moves afterwards. Histories (`frames`, `refused`, `dispatched`, `due`,
`written`) record what happened for the properties and guard nothing but the bound `Kinds` on what a
connection sends. The payload of a message is its kind, its connection and its number; text and file
messages share their code path.

**KafkaServer.** `topic`, `position`, `asked` and `committed` are the broker's side: the log of each
partition, the next offset to fetch, the offset ReadMessage asked to commit and the one that has
been committed (`Commit` is a tick of CommitInterval). `consumer` is the goroutine that reads the
topic, `start` the login loop, `reader[c]` NewClientInit followed by Read. Login has no buffer, so
`SendClientToLogin` needs a loop in its select and hands over in one step; the requester holds the
mutex while it waits, and the loop locks it again to put the connection into the map (`AddClient`).
`Publish` asks for no acknowledgement: the record is in the log or lost. `Push` panics when the
sender to echo to is not in the map: the deferred recover ends the goroutine with the mutex locked
(`dead`). `ReadError` handles an empty record, which stores a row and panics too. `Crash` empties
everything but the log, the committed offset and the rows; browsers return on connections that were
not used before. A restart without a committed offset starts at the end of the log (`skipped`). The
Logout branch of the loop is left out: ClientLogout looks the user up in the map of the other mode
and sends nothing to it.

**SessionSequencer.** Counters live on a `heap`, so a caller keeps its counter after gcLoop has
deleted it from the map. Time is counted in hours, gcLoop sweeps whenever something is old enough.

**Accounts, Membership.** Every handler of the four services is a definition that lists its calls to
MySQL and Redis in order (`LeaveGroup(u, g) == << FirstGroup(..), SaveGroup(..), Hide(..), ... >>`);
an action per kind of call says what it does. `run[s]` is a handler: its request, how far it is, and
its Go variables - the rows it holds (`held`), the group row it read (`group`), the list it is about
to store (`ids`). Tables are sequences of rows in order of id, with `live` for an empty deleted_at;
an account has at most one row, so `users` is a function. GORM is modelled as it is used: First
takes the oldest live row, Save writes back every column as read, so it can bring a deleted row
back. `StrikeOut` is the loop of RemoveGroupMembers that cuts the slice it ranges over. Handlers of
accounts find user rows, change and save each (`ForEachUser`), and go through the sessions, contacts
and applications on either side of which the user stands. `Scripts` bound which requests arrive; any
two of them may overlap, and a user without an account may still be asked about and still send
requests (`ghosts`): nothing checks that a token's owner exists.

**SemanticCache.** `entries` are the pointers of the slice, named by the Set that made them
(`born`); the slice's order only decides how an unstable sort breaks ties, so they form a set and
`Evicted` offers every outcome the sort allows. `Scan` is the part of Get under the read lock;
`found[c]` is the entry in hand until `CountHit` or `CountMiss`, the part under the write lock. The
cosine of two embeddings is the constant `Sim`: the embedding the orchestrator installs never fails.
Time is the number of the last entry past its TTL (`dead`).

**Conversation.** `handler[h]` is a question in the hands of a goroutine:
`TransitionToConversation`, then AppendHistory as `GetHistory` and `SaveHistory` (Redis is read and
written back, nothing locks in between; an error of the Get reads as an empty list), the cache
(`Lookup`, `LookedUp`), a tool (`Dispatch`), the group window (`GetGroupContext`,
`PushGroupContext`), the model (`Chat`, with `UpdateContext` under the lock of AIService),
`Remember` (the cache's Set), AppendHistory again, `Store`. A cache hit goes straight to `Store`.
Redis may fail at any call and lose any key (`Fault`, `Expire`), a user may clear his context
(`ClearContext`), entries of the cache grow old (`Forget`). `script` says which questions come in;
they begin in that order and overlap up to `MaxActive`.

## Runs

| run | instance | shows |
|---|---|---|
| `pool` | 2 workers, queue of 1, 2 calls (1 with a context), 2 Shutdown callers (1 timed); 14 432 states | types, exactly-once placement, drained on return, counters balance; refinement of `TaskLifecycle` with fairness; every Shutdown returns |
| `pool_submit_race` | same kind | a Submit that raced Shutdown panics, against its comment |
| `chat_core` | 2 users, channels of 1 slot, pool of 1 place, alice asks the AI or writes to the group, then asks the AI; bob calls; 1 logout, 1 peer that may vanish; 1 084 692 states (a message to a user has the pushes of a group of two in the other order; `chat_echo` and `chat_order` send those) | the six properties below |
| `chat_echo` | alice writes to bob three times, no failure | the sender's entry may be missing when Start echoes |
| `chat_full` | the same, no logout | a reader keeps the mutex in front of a full Transmit |
| `chat_order` | 3 frames of one connection | a parked frame is overtaken |
| `chat_ai_block` | AI questions, vanished peer | an AI task keeps the mutex Start waits for |
| `kafka` | 2 users, one with 2 connections; 2 partitions, SendBack of 1 slot, 2 frames, 1 crash, 1 read error, 1 peer that may vanish; 178 460 states | order and single delivery, what a crash loses, who holds the mutex, what may stop the hub |
| `sequencer` | 3 callers, 2 sessions (one under two names), 4 calls, 2 hours | types; dense numbers while the counter lives |
| `membership` | 4 users, 2 of them newcomers with one telephone, 1 group, 2 handlers at a time, 10 scripts of 4 or 5 requests, 1 error of MySQL or Redis; 270 758 states | the properties of accounts and of `Membership` below |
| `conversation` | 4 scripts of 3 or 4 questions by 2 users in 2 sessions, 2 at a time; cache of 2 entries, history of 2 turns, window of 1, context of 1 pair; each script with 1 trouble, or none and 2 entries that grow old; 825 409 states | the properties of `Conversation` and `SemanticCache` below |
| `conversation_apology` | the same | an apology for a failed call stays in the cache as an answer |

Properties of `chat_core`: `NoLockLeak` (the mutex belongs to a goroutine inside its critical
section, one recovered pool panic excepted), `FrameInOnePlace` (a frame is in exactly one place
between socket and dispatch), `OutgoingInServerOrder` (a connection gets its messages in dispatch
order, once), `DueMessageArrives` (nothing due to a user in the map is dropped), `SentMeansWritten`.

Properties of `kafka`: `MutexHeld` (the mutex belongs to a request on its way to the login loop, to
the consumer while it pushes, or for good to the consumer that panicked at an echo whose sender is
not in the map), `DeliveredInSendOrder` (from socket to socket: through topic, consumer, pushes and
writer, across a restart and the second delivery after it), `OneLostPerCrash` (the offset is
committed before the record is handled; besides the record in hand, a crash loses what a restart
without a committed offset skips, and nothing else), `DueMessageArrives` (nothing due to a user in
the map is dropped while his connection can be written to), `HubKeepsRunning` (liveness: a login
gets into the map and every record is fetched, but for `Stuck`). `Stuck` names the three situations
in which the code does stop: a second login took the mutex while the login loop is about to lock it;
the consumer pushes, mutex in hand, to a full SendBack nobody drains; the consumer panicked with the
mutex locked.

Properties of `membership`. Handlers have no transactions, so when two requests about the same thing
overlap, or one fails half-way, tables do drift apart; `disturbed` remembers what that happened to.
For everything else, however many unrelated requests overlap: `JoinedIsListed` (who has a group
among his contacts is on its member list), `FriendshipMutual` (the rows of two friends mirror each
other), `OneRow` (one session, one application), `DismissedLeavesNothing`, `MyGroupsFresh` (an
owner's cached list is the table's, unless requests about one of his groups overlapped: a handler
that had a group in hand when it was dismissed writes it back, and nobody deletes the list once
more), `BlackStaysBlack` (an action property). `CountMatchesList` needs no such condition: list and
count are written back from one reading, so what is lost is lost in both. The accounts, under the
same condition: `OneAccountPerTelephone` (the index is not unique, the look-up before the insert is
all there is), `DeletedLeavesNothing` (no session, contact or application of an account that is
gone; for the last two, unless its owner's browser went on sending requests), `DisabledIsNotCalled`
(nobody has a session open with a disabled user, though the status is saved before the sessions are
hidden), `AccountStays` (an action property: only AbleUsers enables a disabled account and only
Register makes a deleted one live, though every handler writes back the whole row it read).

Properties of `conversation`: `HistorySound` (a history holds turns of its session, each once, an
answer after its question: overlapping AppendHistory calls lose turns, they do not mix or repeat
them), `HistoryKeepsTail` (without overlap or error it is the last turns, exactly), `ContextPairs`
(the context for the model is whole pairs), `ReplyFits` (a reply was worked out for this question,
or for a similar one by somebody else and was still within its TTL when this one came in),
`CacheBounded`, `StatsAddUp` (hits and misses add up to lookups, and the entries still there have
counted no hit that Stats has not, whatever is evicted between the two sections of a Get),
`EvictsColdest` (an action property).

The runs that end in a violation each check one sentence of a comment, README or design document
against the code; the findings quote it.

Bounds. A channel of one slot makes full, empty and "filled since I looked" happen with two
messages; CHANNEL_SIZE = 100 changes no branch. One pool place makes the fallback goroutine run with
two AI questions. Three frames of one connection are the fewest that can be overtaken. Two Shutdown
callers reach both outcomes of the Once; two submitters with a queue of one reach a full queue, a
context that ends while it waits, and a close between the flag and the send. Three callers of Next
let a creation race meet a caller that is past its lookup. In Kafka mode a second connection of the
same user makes logins meet and replaces an entry of the map; two frames, one to a friend and one to
the group, fill a SendBack of one slot; one crash with a commit that may be early, late or missing
gives loss, redelivery and a skipped log; a second partition shows that the one key keeps to one of
them. Two handlers at a time reach every overlap of two requests; the scripts lead through create,
enter or apply, answer, leave, remove, dismiss and re-enter, and through befriend, blacklist,
cancel, delete and befriend again, and through registering twice with one telephone, deleting and
registering again, disabling and enabling while somebody calls. Two questions at a time reach every
overlap of two AppendHistory calls; a history of two turns and a context of one pair are cut by the
second question; a cache of two entries evicts at the third. `Kinds` and `Talk` say how many frames
a connection sends and of which kinds; `MaxCalls`, `MaxHours`, `MaxCrashes`, `MaxReadErrors` and
`MaxFaults` bound counters. Each is a guard of one action.

Fairness. `FairSpec` of the pool: a goroutine that can move is scheduled (workers, Submit calls that
have begun, Shutdown calls that have begun, the timer), and tasks end - a task that never returns
keeps any pool from draining. Nobody is obliged to call Submit or Shutdown, and a context need not
end. `FairSpec` of Kafka mode: the login loop, the consumer, a connection that logs in, publishes or
finds its socket broken, and a Write goroutine run when they can; the Go scheduler and a broker that
is up justify it. The consumer meets nobody at the mutex but logins, of which there are finitely
many, so weak fairness is enough. Browsers need not write, the broker need not commit in time,
errors and crashes need not happen. The other specifications state safety only.

The server may stop in the model as in the code (a panic, or everybody waiting for the mutex), and a
run may use up its frames, calls or questions: CHECK_DEADLOCK is off for the hub in both modes, the
sequencer, the services and the conversation, whose requests are bounded. The pool must not stop:
its runs check deadlock, with `Quiescent` for the state in which all is done.

## Proofs

`GoroutinePoolProofs`, from `PoolAssumption` (the sizes are integers, context and timed calls are
among the calls, `NoTask` is no task):

* `PoolTypes` - TypeOK is inductive.
* `PoolInvariant` - TaskPlacement alone is inductive only together with what a worker's phase says
  about its hand (`HandsInv`). DrainedOnReturn needs more: a worker leaves only a closed and empty
  channel (`ExitInv`), a closed channel never grows again (`ClosedForGood`), one call at a time is
  inside the Once and it is done only when all workers have left (`OnceInv`). `PoolInv` is the
  conjunction. The three steps that move a task (`EnqueueMoves`, `ReceiveMoves`, `SafeRunMoves`) and
  the fact that no other step does (`OthersMoveNothing`) carry the placement.
* `TasksPlaced`, `ShutdownDrains` - the invariants the run `pool` checks, for every pool.
* `CountersBalance` - every counter is balanced by the goroutines that have moved it and not moved
  it back. A step moves one goroutine, so the number of goroutines in a given phase changes by at
  most one (`AmongMoves`, `AmongShifts`), and the counters move with it (`BumpCounts`,
  `BalanceStep`).
* `PoolImplementsLifecycle` - every step is a step of `TaskLifecycle` or a stutter, by the same
  moves.

`SessionSequencerProofs`, from `SequencerAssumption`: `SequencerTypes`, and `SequenceIsDense` by an
invariant that says a counter which was not deleted is the one in the map (`OneLiveCounter`), map
and callers point at counters of their session (`Ownership`), and the live counter has counted what
was issued (`Ledger`).

The cache half of `ConversationProofs`, from `CacheAssumption`: `CacheTypes`, `CacheStaysBounded`,
`EvictionIsCold` and `StatsStayTrue`. The bound needs finiteness of `entries` and that the next
`born` is new (`CacheInv`); counting a hit (`Bumped`) neither adds entries nor merges two.
StatsAddUp counts the hits of the entries one by one (`CountedHits`) instead of adding numbers up: a
hit on one entry is one pair more, because no two entries have the same `born` (`HitCountsOnce`),
and an eviction only takes pairs away.

`ConversationProofs`, from `ConversationAssumption` and `CacheAssumption`, for any number of
questions in work:

* `ConversationTypes` - needs that a question about to be remembered has a reply in hand (`InHand`).
* `ConversationImplementsCache` - every step is a step of `CacheSpec` or leaves the cache alone, so
  the theorems about the cache hold in every conversation.
* `RepliesFit` - the invariant `ReplyInv` follows an answer from the question that worked it out
  into an entry, from there into the hand of a Get (`GoodFind`) and into a reply; what a Get holds
  was alive when its question came in, however old it is by now.
* `HistoryStaysSound` - HistorySound is not inductive: a list read before another question's write
  is written back later. `HistInv` says the list in hand is sound as well, with the writer's own
  turn not in it.
* `HistoryIsTheTail` - while a session has one question in work, the list that AppendHistory has
  read is the list in Redis (`Keeps`, `Alone`), and both are the tail of the turns (`TailInv`, which
  TLC checked first); appending a turn and cutting the head keeps a tail a tail (`LatestAppend`). A
  question of another session writes to other keys.
* `ContextIsPairs` - `PairInv` adds that every pair belongs to a question that has its reply, so
  that appending a pair repeats none (`PairAppend`); cutting an even list at an even length keeps
  the pairs (`PairTail`).

`ChatServerProofs`, from `ChatAssumption`, for any number of users, connections, logouts, pool
places and frames:

* `ChatTypes` - `TypeInv`: TypeOK with what a goroutine has in hand where its next step uses it
  (`HandInv`) and what a queue may hold (`QueueInv`).
* `NobodyLeavesLocked` - `Held` names, for each goroutine that may have the mutex, the place in its
  code where it then is, and the steps that leave such a place give the mutex back (`MutexInv`). The
  exception is the task whose panic the pool recovered (`Dead`): it needs the connection to be one
  of the asker's, hence `MapInv` (the map leads to connections of the user).
* `NoFrameLostOrDoubled` - `PlaceInv` counts where a frame is. A frame of a connection has a number
  that no other frame of it has, so a step that moves a frame takes one off one count and adds one
  to another, and changes nothing for the rest.
* `DueMessagesArrive` - `DueInv`, from `MapInv`: only Start changes the map, and not while it
  pushes, so the connection it found at the lock is the one it pushes to (`Ahead`); SendBack, the
  hand of Write and the socket lose nothing from there (`Arrives`).
* `SentRowsWereWritten` - `AddressInv` follows a message from its dispatch: whatever is on its way
  to a connection was dispatched and is for that connection's user.
* `DeliveredInServerOrder` - also from `DistinctMembers`. The code does not see to it: whoever
  enters a group twice is twice on its list and gets each message twice. `FlowInv` says what a
  connection has got was dispatched, once, and comes before what Start has in hand; `OrderInv` that
  it is sorted.

`MembershipProofs` and `MembershipRowProofs`, for any number of users, groups, handlers and errors.
`MembershipAssumption` says that every group has an owner among the users and that the users who
exist at the start have different telephones; `ScriptAssumption` that the requests are well formed
(`WellFormed`: users where the route takes a user, groups where it takes a group, a group dismissed
by its owner, as the front end offers it) and that a group is created once, its uuid being fresh.

* `CountFollowsTheList` - the lists of calls stay unopened, so it holds for every handler that is
  made of these calls. `CountInv` says that the row in the table and the row each handler carries
  are `Counted` (the count is the length of the list), but for groups someone left who was not on
  the list exactly once; SaveGroupRow then writes a counted row over a counted row, however old it
  is. That leaving takes one name off the list (`RemoveFirstLen`) needs a least index, which the
  library's theorem on well-founded relations gives (`LeastExists`).
* `MembershipTypes` - here and below the lists are opened: every call of every handler `Fits` its
  request, and a lemma for each operation says which call is at which place. A handler that goes
  through several ids concatenates one block of calls for each; all blocks are of one length, so a
  call is found by block and offset. `Typed` adds to TypeOK that nobody is past his last call and
  what he has in hand where the next call uses it.

The others hold for what is not `disturbed`, and go one way. `Apart`: two handlers at work share no
topic but disturbed ones. So, seen from a topic, a step is of a handler that begins (`Begins`), of
the only handler at work on it (`Works`), or of somebody else, who leaves its rows alone
(`Elsewhere`). An invariant per topic says what the tables hold, or which calls the one handler
still has before him that will make it so, and what he has in hand:

* `TelephoneHasOneAccount` and `AccountsStay` - `TelephoneOK`: from the look-up to the insert nobody
  has the telephone, and the user rows in hand are those of the table as far as they are written
  back.
* `BlackStays`, `OneRowEach` - `ApplyOK`, `SessionOK`: what has not been found is not there when it
  is inserted, and the row in hand is still the row of the table, the only live one of its pair,
  when it is saved.
* `DisabledNotCalled` - `EndsOK`: a barred user has no session, or the handler at work has all of
  them in hand or will look for them next; who is about to insert one has asked for both accounts.
* `DeletedLeaveNothing`, `DismissedLeaveNothing` - `TiesOK` and `GroundOK`: the same for the
  contacts and applications of an account or a group, from where its row is deleted until the last
  row found for it is hidden; who is about to put a row in has found that its ends exist. For
  groups, `BirthsOK`: before its creation nobody has seen the group.
* `JoinedAreListed` - `RosterOK`: a name goes on the list before the contact is inserted and comes
  off it before the contact is hidden, so in between the handler's place excuses the difference;
  what he will write back is the list in the table, or, while RemoveGroupMembers strikes names off
  its copy, what lacks only those whose contacts it is about to hide.
* `MyGroupsStayFresh` - `ListOK`: the list in Redis is the table's, or a handler at work will delete
  its key, and what LoadMyGroup is about to store is the table's. Nobody else makes a group appear
  or vanish: a row that is written back was read from a live one, which for RemoveGroupMembers is
  `HeldOK`.

`KafkaServerProofs`, from `KafkaAssumption`, for any number of users, connections, partitions,
crashes and errors:

* `KafkaTypes` - TypeOK is inductive with what a goroutine holds where its next step uses it
  (`HandInv`: the consumer has a record and somebody to push it to, a Write goroutine has a
  message).
* `WhoHoldsTheMutex` - `MutexInv` adds the converse: who is inside a critical section holds the
  mutex.
* `DueMessagesArrive` - while the consumer pushes, the map does not change, so the connection found
  at the lock is the one pushed to (`DueInv`, from `MutexInv` and `MapInv`: the map leads to
  connections of the user).
* `CrashesLoseOneEach` - `LossInv` says `Lost` is finite and has, without the record in hand, no
  more elements than there were crashes; a crash that drops the record in hand pays for it.
* `OrderIsKept` - also from `DistinctTargets` (nobody writes to himself, nobody is twice on a member
  list: the code sees to neither, and who is named twice gets a message twice). There is one key,
  hence one partition, and a connection's records increase in it (`SentInv`); what the consumer
  holds is the record before its offset, for distinct targets (`HandedInv`); before its login a
  connection has got nothing (`EarlyInv`); all that a connection of this life has got comes from
  before the record at hand (`FlowInv`), so a record that is delivered again after a restart meets
  new connections only; hence what is on its way to a socket is sorted (`OrderInv`).

Only model-checked: HubKeepsRunning, ShutdownReturns and the liveness half of `LifecycleSpec`
(liveness under fairness is beyond the prover), and FriendshipMutual. Between the two writes of a
handler the rows of two friends disagree, and it takes one relation for each of the four handlers to
say how.

## Not modelled, and the plan

Left out of the modelled parts: the Redis message lists written after a push, Server.Close (only at
process exit), interleaved writes inside one websocket frame, normalizePath on malformed paths, the
formatting of trace ids, Stats of the pool (four loads, not a snapshot), names and pictures of
groups, handlers that only read (Login and SmsLogin among them), the Logout branch of Kafka mode and
the Close functions, the streamed variant, ProcessFunctionCall, ResetSession and
InvalidateByQuestion (no caller), the wording of prompts (RAG, roles), the copy of the cache in
Redis (written, never read), `EinoChain`.

Seen while modelling and not made a run: the TTL of the session mode is not refreshed while a
session is in conversation; only messages that reach the AI without "@ai" enter the group window;
the context of AIService is kept per user, not per session; the prompt never reads the history in
Redis; the answer of a tool (the current time, say) stays in the cache for its TTL.

Two components have no state to model. SMS codes: SendCode stores a code under `sms_code:`, SmsLogin
looks for it under `auth_code_`, and VerifyCode has no caller. Message history: GetMessageList and
GetGroupMessageList look for a list in Redis that no code stores (the calls are commented out), so
they read the table.

Next, in this order:

1. `RankFusion` - chunking and reciprocal rank fusion of the RAG service as operators against
   reference definitions; then the sidecar's and EinoChain's histories beside `Conversation`.
2. Composition of hub and pool: `tasks` of `ChatServer` as the abstract pool `TaskLifecycle`.
3. Proofs: FriendshipMutual.

Components that stay out: controllers and start-up (routing and binding), models and configuration
(data), the browser program, generated protobuf code, embeddings (floating point).
