------------------------------- MODULE Tweeter -------------------------------
(***************************************************************************)
(* The Tweeter protocol of ReactorServer on the reactor: users log in and   *)
(* out, follow and unfollow each other and tweet; a tweet goes to the        *)
(* connection of each follower, or to its unread messages.  The threads of   *)
(* the pool share the users and topics without locks: a step has at most one  *)
(* access to what other tasks write, a get from a map whose keys are never     *)
(* removed aside; what the user's own task alone writes joins such a step.    *)
(* Two accesses are one step in SendUnread (poll, addOutData: tasks of others *)
(* only append to either).  Each user has one client, which may send anything *)
(* before it connects, a wrong password when it is registered, and an id that *)
(* it uses for another topic, but follows none under two ids; statistics are   *)
(* left out.  An exception ends the task; what it had not read stays in the    *)
(* tokenizer.                                                                *)
(***************************************************************************)
EXTENDS Reactor, FiniteSets

CONSTANT Scenarios  \* what the clients do: the frames each sends, whose connection may break

Commands == {"connect", "disconnect", "subscribe", "unsubscribe", "send"}

ASSUME ScenariosAssumption ==
  /\ None \notin Users
  /\ \A c \in Scenarios :
       /\ c.breaks \subseteq Users
       /\ c.script \in [Users -> Seq([cmd : Commands, to : Users \cup Seq(Users)])]
       /\ \A u \in Users : \A i \in 1..Len(c.script[u]) :
            c.script[u][i].to \in IF c.script[u][i].cmd = "send" THEN Seq(Users) ELSE Users

VARIABLES
  scenario,                   \* the one of this run
  users, isLoggedIn, handler, \* _db; of a User: _isLoggedIn, _connectionHanlder is not null
  unread,                     \* its _myMessages
  topics,                     \* _topics of TopicsDatabase
  entries,                    \* the topics in the _myEntries of a User
  followers, modCount,        \* the Vector of users of a Topic, its modification count
  local,                      \* the variables of the task a thread runs
  passed,                     \* <<tweet, user>>: the iteration ended undisturbed
  failed                      \* the tasks that an exception has ended

queues == <<channelVars, executor>>
output == <<out, interest>>
session == <<users, isLoggedIn, handler>>
relation == <<topics, entries, followers, modCount>>
vars == <<scenario, queues, output, poolVars, session, unread, relation, local, passed, failed>>

(* The frame; the topics a tweet still goes to; the iterator over the        *)
(* followers; who followed when it began; the follower it is at.             *)
Fresh == [frame |-> 0, todo |-> <<>>, cursor |-> 1, expected |-> 0, due |-> {}, to |-> None]

Init ==
  /\ scenario \in Scenarios /\ ReactorInit([u \in Users |-> Len(scenario.script[u])])
  /\ users = {} /\ topics = {}
  /\ isLoggedIn = [u \in Users |-> FALSE] /\ handler = [u \in Users |-> FALSE]
  /\ entries = [u \in Users |-> {}] /\ unread = [u \in Users |-> <<>>]
  /\ followers = [u \in Users |-> <<>>] /\ modCount = [u \in Users |-> 0]
  /\ local = [t \in Threads |-> Fresh]
  /\ passed = {} /\ failed = {}

-----------------------------------------------------------------------------
At(t, p) == pc[t] = p
Topic(t) == scenario.script[task[t]][local[t].frame].to

Continue(t, p, l) ==
  /\ pc' = [pc EXCEPT ![t] = p]
  /\ local' = [local EXCEPT ![t] = l]
  /\ UNCHANGED <<task, failed>>
GoTo(t, p) == Continue(t, p, IF p = "run" THEN Fresh ELSE local[t])

(* An exception leaves run(); the pool replaces the thread. *)
Throws(t) ==
  /\ pc' = [pc EXCEPT ![t] = "idle"]
  /\ local' = [local EXCEPT ![t] = Fresh]
  /\ task' = [task EXCEPT ![t] = None]
  /\ failed' = failed \cup {task[t]}

(* addOutData of connection c, on the way to p; the key may be cancelled. *)
AddOutData(t, c, m, p) ==
  /\ out' = [out EXCEPT ![c] = Append(@, m)]
  /\ interest' = [interest EXCEPT ![c] = open[c]]
  /\ IF open[c] THEN GoTo(t, p) ELSE Throws(t)

Reply(t, p) == AddOutData(t, task[t], <<"reply", local[t].frame>>, p)

(* processMessage of the next message. *)
NextMessage(t) ==
  LET u == task[t]  n == Head(buffers[u]) IN
  /\ At(t, "run") /\ buffers[u] # <<>>
  /\ buffers' = [buffers EXCEPT ![u] = Tail(@)]
  /\ Continue(t, scenario.script[u][n].cmd, [Fresh EXCEPT !.frame = n])
  /\ UNCHANGED <<input, open, received, executor, output, session, unread, relation, passed>>

(* connect: a new user is registered, logged in but without a handler yet; ... *)
Register(t) ==
  LET u == task[t] IN
  /\ At(t, "connect") /\ u \notin users /\ GoTo(t, "newTopic")
  /\ users' = users \cup {u}
  /\ isLoggedIn' = [isLoggedIn EXCEPT ![u] = TRUE]
  /\ UNCHANGED <<queues, output, handler, unread, relation, passed>>

(* ... a known one must not be logged in, ... *)
LogInAgain(t) ==
  LET u == task[t] IN
  /\ At(t, "connect") /\ u \in users /\ ~isLoggedIn[u] /\ GoTo(t, "login")
  /\ UNCHANGED <<queues, output, session, unread, relation, passed>>

(* ... and not mistake its password. *)
ConnectError(t) ==
  /\ At(t, "connect") /\ task[t] \in users /\ Reply(t, "run")
  /\ UNCHANGED <<queues, session, unread, relation, passed>>

(* A new user has a topic, with itself as the first follower. *)
NewTopic(t) ==
  /\ At(t, "newTopic") /\ GoTo(t, "addSelf")
  /\ topics' = topics \cup {task[t]}
  /\ UNCHANGED <<queues, output, session, unread, entries, followers, modCount, passed>>

AddSelf(t) ==
  LET u == task[t] IN
  /\ At(t, "addSelf") /\ GoTo(t, "followSelf")
  /\ followers' = [followers EXCEPT ![u] = Append(@, u)]
  /\ modCount' = [modCount EXCEPT ![u] = @ + 1]
  /\ UNCHANGED <<queues, output, session, unread, topics, entries, passed>>

FollowSelf(t) ==
  /\ At(t, "followSelf") /\ GoTo(t, "login")
  /\ entries' = [entries EXCEPT ![task[t]] = @ \cup {task[t]}]
  /\ UNCHANGED <<queues, output, session, unread, topics, followers, modCount, passed>>

(* User.login: the flag, then the handler. *)
Login(t) ==
  /\ At(t, "login") /\ GoTo(t, "setHandler")
  /\ isLoggedIn' = [isLoggedIn EXCEPT ![task[t]] = TRUE]
  /\ UNCHANGED <<queues, output, users, handler, unread, relation, passed>>

SetHandler(t) ==
  /\ At(t, "setHandler") /\ GoTo(t, "connected")
  /\ handler' = [handler EXCEPT ![task[t]] = TRUE]
  /\ UNCHANGED <<queues, output, users, isLoggedIn, unread, relation, passed>>

Connected(t) ==
  /\ At(t, "connected") /\ Reply(t, "unread")
  /\ UNCHANGED <<queues, session, unread, relation, passed>>

(* sendUnreadMessages. *)
SendUnread(t) ==
  LET u == task[t] IN
  /\ At(t, "unread")
  /\ IF unread[u] = <<>> THEN GoTo(t, "run") /\ UNCHANGED <<unread, output>>
     ELSE /\ unread' = [unread EXCEPT ![u] = Tail(@)]
          /\ AddOutData(t, u, Head(unread[u]), "unread")
  /\ UNCHANGED <<queues, session, relation, passed>>

(* disconnect: an error for a stranger, ... *)
DisconnectError(t) ==
  /\ At(t, "disconnect") /\ task[t] \notin users /\ Reply(t, "run")
  /\ UNCHANGED <<queues, session, unread, relation, passed>>

(* ... else the flag and the handler of one that is logged in, and a receipt. *)
Disconnect(t) ==
  LET u == task[t] IN
  /\ At(t, "disconnect") /\ u \in users /\ GoTo(t, IF isLoggedIn[u] THEN "clearHandler" ELSE "receipt")
  /\ isLoggedIn' = [isLoggedIn EXCEPT ![u] = FALSE]
  /\ UNCHANGED <<queues, output, users, handler, unread, relation, passed>>

ClearHandler(t) ==
  /\ At(t, "clearHandler") /\ GoTo(t, "receipt")
  /\ handler' = [handler EXCEPT ![task[t]] = FALSE]
  /\ UNCHANGED <<queues, output, users, isLoggedIn, unread, relation, passed>>

Receipt(t) ==
  /\ At(t, "receipt") /\ Reply(t, "run")
  /\ UNCHANGED <<queues, session, unread, relation, passed>>

-----------------------------------------------------------------------------
(* To follow or unfollow one must have connected: there is no user null. *)
Stranger(t) ==
  /\ At(t, "unsubscribe") \/ (At(t, "subscribe") /\ Topic(t) \in topics)
  /\ task[t] \notin users /\ Throws(t)
  /\ UNCHANGED <<queues, output, session, unread, relation, passed>>

(* subscribe: an unknown topic gets an error, and then the null topic is     *)
(* entered all the same: ...                                                 *)
SubscribeUnknown(t) ==
  /\ At(t, "subscribe") /\ Topic(t) \notin topics /\ Reply(t, "nullTopic")
  /\ UNCHANGED <<queues, session, unread, relation, passed>>

(* ... the put throws, ... *)
NullTopic(t) ==
  /\ At(t, "nullTopic") /\ Throws(t)
  /\ UNCHANGED <<queues, output, session, unread, relation, passed>>

(* ... unless the id is in use: then there is a second error. *)
SubscribeTwice(t) ==
  /\ At(t, "nullTopic") /\ task[t] \in users /\ Reply(t, "run")
  /\ UNCHANGED <<queues, session, unread, relation, passed>>

(* A user is added to the followers of a known topic, following already or    *)
(* not, ...                                                                  *)
Subscribe(t) ==
  LET k == Topic(t) IN
  /\ At(t, "subscribe") /\ k \in topics /\ task[t] \in users /\ GoTo(t, "addTopic")
  /\ followers' = [followers EXCEPT ![k] = Append(@, task[t])]
  /\ modCount' = [modCount EXCEPT ![k] = @ + 1]
  /\ UNCHANGED <<queues, output, session, unread, entries, topics, passed>>

(* ... and the topic to the user's entries, unless the id is there, ... *)
AddTopic(t) ==
  /\ At(t, "addTopic") /\ GoTo(t, "followed")
  /\ \E k \in entries[task[t]] \cup {Topic(t)} : entries' = [entries EXCEPT ![task[t]] = @ \cup {k}]
  /\ UNCHANGED <<queues, output, session, unread, topics, followers, modCount, passed>>

(* ... which gets an error. *)
Followed(t) ==
  /\ At(t, "followed") /\ Reply(t, "run")
  /\ UNCHANGED <<queues, session, unread, relation, passed>>

(* unsubscribe: an error for one's own topic or one not followed, ... *)
UnsubscribeError(t) ==
  LET u == task[t] IN
  /\ At(t, "unsubscribe") /\ u \in users /\ Topic(t) \notin entries[u] \ {u} /\ Reply(t, "run")
  /\ UNCHANGED <<queues, session, unread, relation, passed>>

(* ... else the entry is removed; ... *)
Unsubscribe(t) ==
  LET u == task[t] IN
  /\ At(t, "unsubscribe") /\ u \in users /\ Topic(t) \in entries[u] \ {u} /\ GoTo(t, "removeUser")
  /\ entries' = [entries EXCEPT ![u] = @ \ {Topic(t)}]
  /\ UNCHANGED <<queues, output, session, unread, topics, followers, modCount, passed>>

(* ... then removeUser goes through the followers by index: the size ... *)
RemoveScan(t) ==
  /\ At(t, "removeUser")
  /\ GoTo(t, IF local[t].cursor > Len(followers[Topic(t)]) THEN "unfollowed" ELSE "compare")
  /\ UNCHANGED <<queues, output, session, unread, relation, passed>>

(* ... and then the element, which may be gone, ... *)
RemoveCompare(t) ==
  LET list == followers[Topic(t)]  i == local[t].cursor IN
  /\ At(t, "compare")
  /\ IF i > Len(list) THEN Throws(t)
     ELSE IF list[i] = task[t] THEN GoTo(t, "removeAt")
     ELSE Continue(t, "removeUser", [local[t] EXCEPT !.cursor = i + 1])
  /\ UNCHANGED <<queues, output, session, unread, relation, passed>>

(* ... and removes whoever is at the index it stopped at. *)
RemoveUser(t) ==
  LET k == Topic(t)  i == local[t].cursor IN
  /\ At(t, "removeAt")
  /\ IF i <= Len(followers[k])
     THEN /\ followers' = [followers EXCEPT ![k] = RemoveAt(@, i)]
          /\ modCount' = [modCount EXCEPT ![k] = @ + 1]
          /\ GoTo(t, "unfollowed")
     ELSE Throws(t) /\ UNCHANGED <<followers, modCount>>
  /\ UNCHANGED <<queues, output, session, unread, entries, topics, passed>>

Unfollowed(t) ==
  /\ At(t, "unfollowed") /\ Reply(t, "run")
  /\ UNCHANGED <<queues, session, unread, relation, passed>>

-----------------------------------------------------------------------------
(* SEND: to the topic of the destination, then to those of mentioned users. *)
Send(t) ==
  /\ At(t, "send") /\ Continue(t, "topic", [local[t] EXCEPT !.todo = Topic(t)])
  /\ UNCHANGED <<queues, output, session, unread, relation, passed>>

(* The topic the tweet goes to next, the tweet, and its iterator. *)
Current(t) == Head(local[t].todo)
Tweet(t) == <<"tweet", task[t], local[t].frame, Current(t)>>
AtEnd(t) == local[t].cursor = Len(followers[Current(t)]) + 1
Undisturbed(t) == modCount[Current(t)] = local[t].expected

(* addMessageToTopic: nothing for an unknown topic, else an iterator. *)
NextTopic(t) ==
  LET l == local[t] IN
  /\ At(t, "topic")
  /\ IF l.todo = <<>> THEN GoTo(t, "run")
     ELSE IF Current(t) \notin topics
     THEN Continue(t, "topic", [l EXCEPT !.todo = Tail(@)])
     ELSE Continue(t, "iterate",
            [l EXCEPT !.expected = modCount[Current(t)],
                      !.due = {r \in ToSet(followers[Current(t)]) : Current(t) \in entries[r]}])
  /\ UNCHANGED <<queues, output, session, unread, relation, passed>>

(* The iteration ends when the cursor is at the size of the vector; ... *)
IterateEnd(t) ==
  LET l == local[t] IN
  /\ At(t, "iterate") /\ AtEnd(t)
  /\ Continue(t, "topic", [Fresh EXCEPT !.frame = l.frame, !.todo = Tail(l.todo)])
  /\ passed' = IF ~Undisturbed(t) THEN passed
               ELSE passed \cup {<<Tweet(t), r>> : r \in {s \in l.due : Current(t) \in entries[s]}}
  /\ UNCHANGED <<queues, output, session, unread, relation>>

(* ... else there is a next follower, ... *)
HasNext(t) ==
  /\ At(t, "iterate") /\ ~AtEnd(t) /\ GoTo(t, "next")
  /\ UNCHANGED <<queues, output, session, unread, relation, passed>>

(* ... but next() throws when the vector was modified. *)
IterateFails(t) ==
  /\ At(t, "next") /\ ~Undisturbed(t) /\ Throws(t)
  /\ UNCHANGED <<queues, output, session, unread, relation, passed>>

Iterate(t) ==
  LET l == local[t] IN
  /\ At(t, "next") /\ Undisturbed(t)
  /\ Continue(t, "entry", [l EXCEPT !.cursor = @ + 1, !.to = followers[Current(t)][l.cursor]])
  /\ UNCHANGED <<queues, output, session, unread, relation, passed>>

(* sendMessage to the follower: its subscription, ... *)
FindEntry(t) ==
  /\ At(t, "entry") /\ GoTo(t, IF Current(t) \in entries[local[t].to] THEN "online" ELSE "iterate")
  /\ UNCHANGED <<queues, output, session, unread, relation, passed>>

(* ... whether it is logged in, ... *)
AskOnline(t) ==
  /\ At(t, "online") /\ GoTo(t, IF isLoggedIn[local[t].to] THEN "direct" ELSE "store")
  /\ UNCHANGED <<queues, output, session, unread, relation, passed>>

(* ... the handler of one that was, which may be null by now, ... *)
Direct(t) ==
  /\ At(t, "direct") /\ IF handler[local[t].to] THEN GoTo(t, "deliver") ELSE Throws(t)
  /\ UNCHANGED <<queues, output, session, unread, relation, passed>>

(* ... to whose connection the tweet goes; ... *)
Deliver(t) ==
  /\ At(t, "deliver") /\ AddOutData(t, local[t].to, Tweet(t), "iterate")
  /\ UNCHANGED <<queues, session, unread, relation, passed>>

(* Mutant: a message to a user that is not logged in is dropped. *)
StoreNothing(t) ==
  /\ At(t, "store") /\ GoTo(t, "iterate")
  /\ UNCHANGED <<queues, output, session, unread, relation, passed>>

(* ... or the unread messages of one that was not. *)
Store(t) ==
  /\ At(t, "store") /\ GoTo(t, "iterate")
  /\ unread' = [unread EXCEPT ![local[t].to] = Append(@, Tweet(t))]
  /\ UNCHANGED <<queues, output, session, relation, passed>>

Protocol(t) ==
  \/ NextMessage(t)
  \/ Register(t) \/ LogInAgain(t) \/ ConnectError(t)
  \/ NewTopic(t) \/ AddSelf(t) \/ FollowSelf(t) \/ Login(t) \/ SetHandler(t) \/ Connected(t) \/ SendUnread(t)
  \/ DisconnectError(t) \/ Disconnect(t) \/ ClearHandler(t) \/ Receipt(t)
  \/ Stranger(t) \/ SubscribeUnknown(t) \/ NullTopic(t) \/ SubscribeTwice(t)
  \/ Subscribe(t) \/ AddTopic(t) \/ Followed(t)
  \/ UnsubscribeError(t) \/ Unsubscribe(t)
  \/ RemoveScan(t) \/ RemoveCompare(t) \/ RemoveUser(t) \/ Unfollowed(t)
  \/ Send(t) \/ NextTopic(t) \/ IterateEnd(t) \/ HasNext(t) \/ IterateFails(t) \/ Iterate(t)
  \/ FindEntry(t) \/ AskOnline(t) \/ Direct(t) \/ Deliver(t) \/ Store(t)

Keep == UNCHANGED <<session, unread, relation, local, passed, failed>> /\ UNCHANGED scenario
SelectorStep(u) == (Read(u) \/ Write(u)) /\ Keep
PoolStep(t) == (Protocol(t) /\ UNCHANGED scenario) \/ ((TakeTask(t) \/ Enter(t) \/ RunEnd(t)) /\ Keep)

Broken(u) == u \in scenario.breaks /\ ReadEnd(u) /\ Keep

Work == (\E u \in Users : SelectorStep(u)) \/ (\E t \in Threads : PoolStep(t))
Next == Work \/ \E u \in Users : Broken(u)

(* The program runs while it can: the weakest scheduling assumption. *)
Spec == Init /\ [][Next]_vars /\ WF_vars(Work)

-----------------------------------------------------------------------------
Replies == {"reply"} \X Nat
Tweets == {"tweet"} \X Users \X Nat \X Users

(* The state stays within its types: only a user that has registered has a  *)
(* topic, a session or messages, and the tasks of a connection are run by at *)
(* most one thread at a time.                                                *)
TypeOK ==
  /\ users \subseteq Users /\ topics \subseteq users
  /\ \A u \in Users :
       /\ isLoggedIn[u] \in BOOLEAN /\ handler[u] \in BOOLEAN
       /\ u \notin users => ~isLoggedIn[u] /\ ~handler[u] /\ unread[u] = <<>>
       /\ entries[u] \subseteq topics /\ modCount[u] \in Nat
       /\ u \notin topics => followers[u] = <<>>
       /\ followers[u] \in Seq(users) /\ unread[u] \in Seq(Tweets)
       /\ out[u] \in Seq(Replies \cup Tweets) /\ received[u] \in Seq(Replies \cup Tweets)
  /\ \A t \in Threads : task[t] = None <=> pc[t] = "idle"
  /\ \A s, t \in Threads : s # t /\ task[s] = task[t] => pc[s] \in {"idle", "enter"} \/ pc[t] = "enter"

(* The client of a user gets the answers to its frames in the order of the   *)
(* frames, whichever threads of the pool run its tasks ("we synchronize on   *)
(* ourselves", ProtocolTask.run); a frame may have two answers.              *)
RepliesInOrder ==
  \A u \in Users :
    LET m == received[u] \o out[u] IN
    \A i, j \in 1..Len(m) : i < j /\ m[i][1] = "reply" /\ m[j][1] = "reply" => m[i][2] <= m[j][2]

(* A tweet that went through the followers of a topic undisturbed has reached *)
(* each of them: it is at its client, on the way there, or kept for its next  *)
(* login (User.sendMessage), however logins and logouts fall between.         *)
NoTweetLost ==
  \A p \in passed : p[1] \in ToSet(received[p[2]] \o out[p[2]] \o unread[p[2]])

(* The server comes to rest with nothing left to do for a client: what the   *)
(* client has sent has been read and processed, what it is to get has been   *)
(* sent, unless its connection broke or an exception ended one of its tasks  *)
(* (then frames may wait in the tokenizer for the next read).                *)
Settles ==
  \A u \in Users :
    <>[](~open[u] \/ (input[u] = <<>> /\ out[u] = <<>> /\ (buffers[u] = <<>> \/ u \in failed)))
=============================================================================
