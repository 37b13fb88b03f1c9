--------------------------- MODULE Tweeter_proofs ---------------------------
(***************************************************************************)
(* The reactor and the Tweeter protocol, for every number of users and of   *)
(* threads of the pool and for all that the clients may send: the types of   *)
(* the shared tables, that no tweet is lost, and that the answers to the      *)
(* frames of a connection leave in the order of the frames.                   *)
(***************************************************************************)
EXTENDS Tweeter, SequenceTheorems, TLAPS

Messages == Replies \cup Tweets
(* The places at which the user of the task has registered, those at which   *)
(* the thread has something to do for a follower, and all.                   *)
Registered == {"newTopic", "addSelf", "followSelf", "login", "setHandler", "connected", "unread",
  "clearHandler", "receipt", "addTopic", "followed", "removeUser", "compare", "removeAt", "unfollowed"}
ToFollower == {"entry", "online", "direct", "deliver", "store"}
Places == Commands \cup Registered \cup ToFollower
            \cup {"idle", "enter", "run", "nullTopic", "topic", "iterate", "next"}
Locals == [frame : Nat, todo : Seq(Users), cursor : Nat \ {0}, expected : Nat,
           due : SUBSET Users, to : Users \cup {None}]
Frames(u) == 1..Len(scenario.script[u])

(* The types of the reactor's state, of the messages, of the users and topics. *)
QueueTypes ==
  /\ scenario \in Scenarios
  /\ input \in [Users -> Seq(Nat)] /\ buffers \in [Users -> Seq(Nat)]
  /\ \A u \in Users : input[u] \in Seq(Frames(u)) /\ buffers[u] \in Seq(Frames(u))
  /\ executor \in Seq(Users)
  /\ open \in [Users -> BOOLEAN] /\ interest \in [Users -> BOOLEAN]
PoolTypes ==
  /\ task \in [Threads -> Users \cup {None}] /\ pc \in [Threads -> Places]
  /\ local \in [Threads -> Locals]
MessageTypes ==
  /\ out \in [Users -> Seq(Messages)] /\ received \in [Users -> Seq(Messages)]
  /\ unread \in [Users -> Seq(Tweets)]
  /\ \A u \in Users \ users : unread[u] = <<>>
SessionTypes ==
  /\ users \subseteq Users
  /\ isLoggedIn \in [Users -> BOOLEAN] /\ handler \in [Users -> BOOLEAN]
  /\ \A u \in Users \ users : ~isLoggedIn[u] /\ ~handler[u]
RelationTypes ==
  /\ topics \subseteq users
  /\ entries \in [Users -> SUBSET topics] /\ modCount \in [Users -> Nat]
  /\ followers \in [Users -> Seq(users)]
  /\ \A u \in Users \ topics : followers[u] = <<>>
Types == QueueTypes /\ PoolTypes /\ MessageTypes /\ SessionTypes /\ RelationTypes

(* The tasks of a connection run one at a time. *)
OneTask ==
  /\ \A t \in Threads : task[t] = None <=> pc[t] = "idle"
  /\ \A s, t \in Threads : s # t /\ task[s] = task[t] => pc[s] \in {"idle", "enter"} \/ pc[t] = "enter"

(* What a place in the protocol says of the frame and of its user. *)
Command(t) == scenario.script[task[t]][local[t].frame].cmd
AtFrame(t) ==
  pc[t] \notin {"idle", "enter", "run"} =>
    /\ local[t].frame \in Frames(task[t])
    /\ pc[t] \in Commands => Command(t) = pc[t]
    /\ pc[t] = "addTopic" => Command(t) = "subscribe" /\ Topic(t) \in topics
    /\ pc[t] \in {"removeUser", "compare", "removeAt"} => Command(t) = "unsubscribe"
    /\ pc[t] \in Registered => task[t] \in users
    /\ pc[t] \in {"addSelf", "followSelf"} => task[t] \in topics
    /\ pc[t] \in ToFollower => local[t].to \in users
    /\ pc[t] \in Commands \cup {"topic"} => local[t].cursor = 1

(* What has reached user r, or waits for its login. *)
Got(r) == ToSet(received[r]) \cup ToSet(out[r]) \cup ToSet(unread[r])

(* Thread s is about to enter topic k in the entries of its user. *)
Adds(s, k) == (pc[s] = "addTopic" /\ Topic(s) = k) \/ (pc[s] = "followSelf" /\ task[s] = k)

(* An undisturbed iteration has reached follower r, or r has unfollowed, or  *)
(* the iteration will come to r, or is at r.                                 *)
Reaches(t, r) ==
  \/ Tweet(t) \in Got(r)
  \/ Current(t) \notin entries[r]
  \/ \E i \in local[t].cursor..Len(followers[Current(t)]) : followers[Current(t)][i] = r
  \/ pc[t] \in ToFollower /\ local[t].to = r
Delivering(t) == pc[t] \in ToFollower \cup {"iterate", "next"}
Iteration(t) ==
  /\ local[t].todo # <<>> /\ local[t].expected <= modCount[Current(t)]
  /\ Undisturbed(t) =>
       /\ local[t].cursor <= Len(followers[Current(t)]) + 1
       /\ pc[t] = "next" => ~AtEnd(t)
       /\ \A r \in local[t].due :
            /\ Reaches(t, r)
            /\ Current(t) \notin entries[r] => \A s \in Threads : task[s] = r => ~Adds(s, Current(t))
Iterations == \A t \in Threads : Delivering(t) => Iteration(t)

Passes == passed \subseteq Tweets \X Users /\ \A p \in passed : p[1] \in Got(p[2])

Control == OneTask /\ \A t \in Threads : AtFrame(t)
IInv == Types /\ Control /\ Iterations /\ Passes

(* What a step of thread t of the pool changes: its own place and variables, ... *)
Turn(t) ==
  /\ pc[t] \notin {"idle", "enter"}
  /\ \A s \in Threads \ {t} : pc'[s] = pc[s] /\ task'[s] = task[s] /\ local'[s] = local[s]
  /\ \/ pc'[t] \notin {"idle", "enter"} /\ task'[t] = task[t]
     \/ pc'[t] = "idle" /\ task'[t] = None

(* ... and the tables, in which nothing gets lost; only the own task of a     *)
(* user changes its entries, after the followers of the topic are modified    *)
(* or before they will be.                                                   *)
Grows(t) ==
  /\ scenario' = scenario /\ users \subseteq users' /\ topics \subseteq topics'
  /\ \A r \in Users : Got(r) \subseteq Got(r)'
  /\ \A k \in Users : /\ modCount[k] <= modCount'[k]
                      /\ modCount[k] = modCount'[k] => followers'[k] = followers[k] /\ ~Adds(t, k)'
  /\ \A r \in Users : \A k \in entries'[r] \ entries[r] : task[t] = r /\ Adds(t, k)
  /\ \A r \in Users : \A k \in entries[r] \ entries'[r] : task[t] = r /\ ~Adds(t, k)'

-----------------------------------------------------------------------------
LEMMA AppendSet ==
  ASSUME NEW S, NEW s \in Seq(S), NEW x \in S
  PROVE  ToSet(Append(s, x)) = ToSet(s) \cup {x}
<1>1. /\ Len(s) \in Nat /\ DOMAIN s = 1..Len(s) /\ DOMAIN Append(s, x) = 1..(Len(s) + 1)
      /\ Append(s, x)[Len(s) + 1] = x /\ \A i \in 1..Len(s) : Append(s, x)[i] = s[i]
  OBVIOUS
<1>2. Len(s) + 1 \in DOMAIN Append(s, x) /\ DOMAIN s \subseteq DOMAIN Append(s, x)
  BY <1>1
<1>3. \A i \in DOMAIN Append(s, x) : i \in DOMAIN s \/ i = Len(s) + 1
  BY <1>1
<1>4. ToSet(s) \cup {x} \subseteq ToSet(Append(s, x))
  BY <1>1, <1>2 DEF ToSet
<1>5. ToSet(Append(s, x)) \subseteq ToSet(s) \cup {x}
  BY <1>1, <1>3 DEF ToSet
<1> QED
  BY <1>4, <1>5

LEMMA TailSet ==
  ASSUME NEW S, NEW s \in Seq(S), s # <<>>
  PROVE  ToSet(s) = ToSet(Tail(s)) \cup {Head(s)}
<1>1. /\ Len(s) \in Nat \ {0} /\ DOMAIN s = 1..Len(s) /\ Head(s) = s[1]
      /\ Len(Tail(s)) = Len(s) - 1 /\ DOMAIN Tail(s) = 1..(Len(s) - 1)
      /\ \A i \in 1..(Len(s) - 1) : Tail(s)[i] = s[i + 1]
  OBVIOUS
<1>2. ASSUME NEW i \in 1..Len(s) PROVE s[i] \in ToSet(Tail(s)) \cup {Head(s)}
  <2>1. CASE i = 1
    BY <1>1, <2>1
  <2>2. CASE i # 1
    <3>1. i - 1 \in DOMAIN Tail(s) /\ Tail(s)[i - 1] = s[i]
      BY <1>1, <2>2
    <3> QED
      BY <3>1 DEF ToSet
  <2> QED
    BY <2>1, <2>2
<1>3. ASSUME NEW i \in 1..(Len(s) - 1) PROVE Tail(s)[i] \in ToSet(s)
  BY <1>1 DEF ToSet
<1> QED
  BY <1>1, <1>2, <1>3 DEF ToSet

LEMMA ConcatSet ==
  ASSUME NEW S, NEW r \in Seq(S), NEW s \in Seq(S)
  PROVE  ToSet(r \o s) = ToSet(r) \cup ToSet(s)
<1>1. /\ Len(r) \in Nat /\ Len(s) \in Nat /\ DOMAIN r = 1..Len(r) /\ DOMAIN s = 1..Len(s)
      /\ DOMAIN (r \o s) = 1..(Len(r) + Len(s))
      /\ \A i \in 1..(Len(r) + Len(s)) : (r \o s)[i] = IF i <= Len(r) THEN r[i] ELSE s[i - Len(r)]
  OBVIOUS
<1>2. ToSet(r) \subseteq ToSet(r \o s)
  BY <1>1 DEF ToSet
<1>3. ASSUME NEW i \in 1..Len(s) PROVE s[i] \in ToSet(r \o s)
  <2>1. i + Len(r) \in DOMAIN (r \o s) /\ (r \o s)[i + Len(r)] = s[i]
    BY <1>1
  <2> QED
    BY <2>1 DEF ToSet
<1>4. ToSet(r \o s) \subseteq ToSet(r) \cup ToSet(s)
  BY <1>1 DEF ToSet
<1> QED
  BY <1>1, <1>2, <1>3, <1>4 DEF ToSet

LEMMA LooseMessages == MessageTypes => unread \in [Users -> Seq(Messages)]
<1>1. Tweets \subseteq Messages
  BY DEF Messages
<1> QED
  BY <1>1, SeqMonotonic DEF MessageTypes

(* What the invariant calls Got is what NoTweetLost speaks of. *)
LEMMA GotIs ==
  ASSUME MessageTypes, NEW r \in Users
  PROVE  ToSet(received[r] \o out[r] \o unread[r]) = Got(r)
<1>1. received[r] \in Seq(Messages) /\ out[r] \in Seq(Messages) /\ unread[r] \in Seq(Messages)
  BY LooseMessages DEF MessageTypes
<1>2. received[r] \o out[r] \in Seq(Messages)
  BY <1>1
<1>3. \A a, b \in Seq(Messages) : ToSet(a \o b) = ToSet(a) \cup ToSet(b)
  BY ConcatSet
<1>4. ToSet((received[r] \o out[r]) \o unread[r]) = ToSet(received[r] \o out[r]) \cup ToSet(unread[r])
  BY <1>1, <1>2, <1>3
<1> QED
  BY <1>1, <1>3, <1>4 DEF Got

LEMMA ScriptFacts ==
  ASSUME QueueTypes, NEW u \in Users
  PROVE  /\ Len(scenario.script[u]) \in Nat
         /\ \A i \in Frames(u) :
              /\ scenario.script[u][i].cmd \in Commands
              /\ scenario.script[u][i].to \in IF scenario.script[u][i].cmd = "send" THEN Seq(Users) ELSE Users
<1> DEFINE script == scenario.script[u]
<1> DEFINE R == [cmd : Commands, to : Users \cup Seq(Users)]
<1>1. script \in Seq(R)
  BY ScenariosAssumption DEF QueueTypes
<1>2. Frames(u) = 1..Len(script)
  BY DEF Frames
<1>3. Len(script) \in Nat /\ \A i \in Frames(u) : script[i] \in R
  <2> HIDE DEF R, script
  <2> QED
    BY <1>1, <1>2
<1>4. \A i \in Frames(u) : script[i].cmd \in Commands
  BY <1>3
<1>5. ASSUME NEW i \in Frames(u)
      PROVE  script[i].to \in IF script[i].cmd = "send" THEN Seq(Users) ELSE Users
  BY ScenariosAssumption DEF QueueTypes, Frames
<1> QED
  BY <1>3, <1>4, <1>5

LEMMA FreshIsLocal == Fresh \in Locals
BY DEF Fresh, Locals

-----------------------------------------------------------------------------
LEMMA ContinueTurn ==
  ASSUME PoolTypes, NEW t \in Threads, pc[t] \notin {"idle", "enter"},
         NEW p \in Places \ {"idle", "enter"}, NEW l \in Locals, Continue(t, p, l)
  PROVE  PoolTypes' /\ Turn(t) /\ pc'[t] = p /\ local'[t] = l /\ task' = task
BY DEF PoolTypes, Continue, Turn

LEMMA GoToTurn ==
  ASSUME PoolTypes, NEW t \in Threads, pc[t] \notin {"idle", "enter"},
         NEW p \in Places \ {"idle", "enter"}, GoTo(t, p)
  PROVE  /\ PoolTypes' /\ Turn(t) /\ pc'[t] = p /\ task' = task
         /\ local'[t] = IF p = "run" THEN Fresh ELSE local[t]
<1>1. (IF p = "run" THEN Fresh ELSE local[t]) \in Locals
  BY FreshIsLocal DEF PoolTypes
<1> QED
  BY <1>1, ContinueTurn DEF GoTo

LEMMA ThrowsTurn ==
  ASSUME PoolTypes, NEW t \in Threads, pc[t] \notin {"idle", "enter"}, Throws(t)
  PROVE  PoolTypes' /\ Turn(t) /\ pc'[t] = "idle"
BY FreshIsLocal DEF PoolTypes, Throws, Turn, Places

(* A message given to a connection reaches its user. *)
LEMMA Sent ==
  ASSUME MessageTypes, NEW c \in Users, NEW m \in Messages,
         out' = [out EXCEPT ![c] = Append(@, m)], received' = received, unread' = unread
  PROVE  /\ out' \in [Users -> Seq(Messages)]
         /\ (\A r \in Users : Got(r) \subseteq Got(r)') /\ m \in Got(c)'
<1>1. out[c] \in Seq(Messages) /\ out'[c] = Append(out[c], m) /\ \A r \in Users \ {c} : out'[r] = out[r]
  BY DEF MessageTypes
<1>2. ToSet(out'[c]) = ToSet(out[c]) \cup {m}
  BY <1>1, AppendSet
<1>3. out' \in [Users -> Seq(Messages)]
  BY DEF MessageTypes
<1> QED
  BY <1>1, <1>2, <1>3 DEF Got

LEMMA AddOutTurn ==
  ASSUME QueueTypes, PoolTypes, NEW t \in Threads, pc[t] \notin {"idle", "enter"},
         NEW p \in Places \ {"idle", "enter"}, NEW c \in Users, NEW m, AddOutData(t, c, m, p)
  PROVE  /\ interest' \in [Users -> BOOLEAN]
         /\ PoolTypes' /\ Turn(t) /\ pc'[t] \in {p, "idle"}
         /\ pc'[t] = p => task' = task /\ local'[t] = IF p = "run" THEN Fresh ELSE local[t]
<1>1. interest' \in [Users -> BOOLEAN]
  BY DEF QueueTypes, AddOutData
<1>2. CASE open[c]
  BY <1>1, <1>2, GoToTurn DEF AddOutData
<1>3. CASE ~open[c]
  BY <1>1, <1>3, ThrowsTurn DEF AddOutData
<1> QED
  BY <1>2, <1>3

(* An answer to the user of the task. *)
LEMMA ReplyTurn ==
  ASSUME QueueTypes, PoolTypes, MessageTypes, NEW t \in Threads, pc[t] \notin {"idle", "enter"},
         NEW p \in Places \ {"idle", "enter"}, task[t] \in Users, Reply(t, p),
         received' = received, unread' = unread
  PROVE  /\ interest' \in [Users -> BOOLEAN] /\ out' \in [Users -> Seq(Messages)]
         /\ \A r \in Users : Got(r) \subseteq Got(r)'
         /\ PoolTypes' /\ Turn(t) /\ pc'[t] \in {p, "idle"}
         /\ pc'[t] = p => task' = task /\ local'[t] = IF p = "run" THEN Fresh ELSE local[t]
<1>1. <<"reply", local[t].frame>> \in Messages
  BY DEF Messages, Replies, PoolTypes, Locals
<1>2. out' = [out EXCEPT ![task[t]] = Append(@, <<"reply", local[t].frame>>)]
  BY DEF Reply, AddOutData
<1> QED
  BY <1>1, <1>2, Sent, AddOutTurn DEF Reply

-----------------------------------------------------------------------------
(* A step of thread t of the pool keeps what the iterations of the other      *)
(* threads have to do with the tables.                                       *)
LEMMA OthersReach ==
  ASSUME IInv, NEW t \in Threads, Turn(t), Grows(t), Types',
         NEW s \in Threads \ {t}, Delivering(s)
  PROVE  Iteration(s)'
<1>1. /\ pc'[s] = pc[s] /\ task'[s] = task[s] /\ local'[s] = local[s]
      /\ Tweet(s)' = Tweet(s) /\ Current(s)' = Current(s)
  BY DEF Turn, Tweet, Current
<1>2. /\ local[s].todo # <<>> /\ local[s].expected <= modCount[Current(s)] /\ Current(s) \in Users
      /\ local[s].expected \in Nat /\ local[s].due \subseteq Users
  BY DEF IInv, Iterations, Iteration, Types, PoolTypes, Locals, Current
<1>3. modCount[Current(s)] \in Nat /\ modCount'[Current(s)] \in Nat /\ modCount[Current(s)] <= modCount'[Current(s)]
  BY <1>2 DEF IInv, Types, RelationTypes, Grows
<1>4. local'[s].todo # <<>> /\ local'[s].expected <= modCount'[Current(s)']
  BY <1>1, <1>2, <1>3
<1>5. ASSUME Undisturbed(s)', NEW r \in local'[s].due
      PROVE  /\ Reaches(s, r)'
             /\ Current(s)' \notin entries'[r] => \A q \in Threads : task'[q] = r => ~Adds(q, Current(s))'
  <2>0. PICK k \in Users : k = Current(s) /\ k = Current(s)'
    BY <1>1, <1>2
  <2>1. modCount'[k] = modCount[k] /\ Undisturbed(s) /\ r \in Users /\ r \in local[s].due
    BY <1>1, <1>2, <1>3, <1>5, <2>0 DEF Undisturbed
  <2>2. followers'[k] = followers[k] /\ ~Adds(t, k)'
    BY <2>1 DEF Grows
  <2>3. Reaches(s, r) /\ (k \notin entries[r] => \A q \in Threads : task[q] = r => ~Adds(q, k))
    BY <2>0, <2>1 DEF IInv, Iterations, Iteration
  <2>4. k \notin entries[r] => k \notin entries'[r]
    BY <2>1, <2>3 DEF Grows
  <2>5. Got(r) \subseteq Got(r)'
    BY <2>1 DEF Grows
  <2>6. Reaches(s, r)'
    BY <1>1, <2>0, <2>2, <2>3, <2>4, <2>5 DEF Reaches
  <2>7. ASSUME k \notin entries'[r], NEW q \in Threads, task'[q] = r PROVE ~Adds(q, k)'
    <3>1. CASE q = t
      BY <2>2, <3>1
    <3>2. CASE q # t
      <4>1. task[q] = r /\ pc'[q] = pc[q] /\ task'[q] = task[q] /\ (Adds(q, k)' <=> Adds(q, k))
        BY <2>7, <3>2 DEF Turn, Grows, Adds, Topic
      <4>2. CASE k \notin entries[r]
        BY <2>3, <4>1, <4>2
      <4>3. CASE k \in entries[r]
        <5>1. task[t] = r
          BY <2>1, <2>7, <4>3 DEF Grows
        <5>2. pc[q] \in {"idle", "enter"}
          BY <3>2, <4>1, <5>1 DEF IInv, Control, OneTask, Turn
        <5> QED
          BY <4>1, <5>2 DEF Adds
      <4> QED
        BY <4>2, <4>3
    <3> QED
      BY <3>1, <3>2
  <2> QED
    BY <2>0, <2>6, <2>7
<1>6. Undisturbed(s)' => /\ local'[s].cursor <= Len(followers'[Current(s)']) + 1
                         /\ pc'[s] = "next" => ~AtEnd(s)'
  <2>1. PICK k \in Users : k = Current(s) /\ k = Current(s)'
    BY <1>1, <1>2
  <2> QED
    BY <1>1, <1>2, <1>3, <2>1 DEF Undisturbed, AtEnd, Grows, IInv, Iterations, Iteration
<1> QED
  BY <1>4, <1>5, <1>6 DEF Iteration

(* A step of thread t of the pool keeps the places of the others. *)
LEMMA ControlKept ==
  ASSUME IInv, NEW t \in Threads, Turn(t), Grows(t), Types', AtFrame(t)'
  PROVE  Control'
<1>1. OneTask'
  BY DEF IInv, Control, OneTask, Turn, Types, PoolTypes
<1>2. ASSUME NEW s \in Threads \ {t} PROVE AtFrame(s)'
  <2>1. pc'[s] = pc[s] /\ task'[s] = task[s] /\ local'[s] = local[s] /\ scenario' = scenario
        /\ users \subseteq users' /\ topics \subseteq topics'
    BY DEF Turn, Grows
  <2>2. AtFrame(s)
    BY DEF IInv, Control
  <2> QED
    BY <2>1, <2>2 DEF AtFrame, Frames, Command, Topic
<1> QED
  BY <1>1, <1>2 DEF Control

LEMMA IterationsKept ==
  ASSUME IInv, NEW t \in Threads, Turn(t), Grows(t), Types', Delivering(t)' => Iteration(t)'
  PROVE  Iterations'
<1>1. ASSUME NEW s \in Threads, Delivering(s)' PROVE Iteration(s)'
  <2>1. CASE s = t
    BY <1>1, <2>1
  <2>2. CASE s # t
    <3>1. Delivering(s)
      BY <1>1, <2>2 DEF Turn, Delivering
    <3> QED
      BY <2>2, <3>1, OthersReach
  <2> QED
    BY <2>1, <2>2
<1> QED
  BY <1>1 DEF Iterations

(* The steps that do not end an iteration. *)
LEMMA StepKept ==
  ASSUME IInv, NEW t \in Threads, Turn(t), Grows(t), Types', AtFrame(t)', passed' = passed,
         Delivering(t)' => Iteration(t)'
  PROVE  IInv'
<1>1. Iterations'
  BY IterationsKept
<1>2. Passes'
  BY DEF IInv, Passes, Grows
<1> QED
  BY <1>1, <1>2, ControlKept DEF IInv

(* What a thread at a place of the protocol may rely on. *)
LEMMA PlaceFacts ==
  ASSUME IInv, NEW t \in Threads, pc[t] \notin {"idle", "enter"}
  PROVE  /\ task[t] \in Users /\ AtFrame(t) /\ local[t] \in Locals
         /\ pc[t] # "run" => /\ local[t].frame \in Frames(task[t])
                             /\ Topic(t) \in IF Command(t) = "send" THEN Seq(Users) ELSE Users
<1>1. task[t] \in Users /\ AtFrame(t) /\ local[t] \in Locals
  BY DEF IInv, Types, PoolTypes, Control, OneTask
<1>2. pc[t] # "run" => local[t].frame \in Frames(task[t])
  BY <1>1 DEF AtFrame
<1>3. pc[t] # "run" => Topic(t) \in IF Command(t) = "send" THEN Seq(Users) ELSE Users
  BY <1>1, <1>2, ScriptFacts DEF IInv, Types, Topic, Command
<1> QED
  BY <1>1, <1>2, <1>3

-----------------------------------------------------------------------------
(* The steps that change no table: a thread moves on, or answers. *)
Still == UNCHANGED <<session, relation, queues>> /\ scenario' = scenario

LEMMA StillGrows ==
  ASSUME IInv, NEW t \in Threads, Still, PoolTypes', out' \in [Users -> Seq(Messages)],
         unread' = unread, interest' \in [Users -> BOOLEAN],
         \A r \in Users : Got(r) \subseteq Got(r)', pc'[t] \notin {"addTopic", "followSelf"}
  PROVE  Types' /\ Grows(t)
<1>1. QueueTypes'
  BY DEF IInv, Types, QueueTypes, Still, queues, channelVars, Frames
<1>2. MessageTypes' /\ SessionTypes' /\ RelationTypes'
  BY DEF IInv, Types, MessageTypes, SessionTypes, RelationTypes, Still, session, relation, queues, channelVars
<1>3. Grows(t)
  BY DEF IInv, Types, RelationTypes, Grows, Still, session, relation, Adds
<1> QED
  BY <1>1, <1>2, <1>3 DEF Types

LEMMA StillKept ==
  ASSUME IInv, NEW t \in Threads, Still, PoolTypes', out' \in [Users -> Seq(Messages)],
         unread' = unread, interest' \in [Users -> BOOLEAN],
         \A r \in Users : Got(r) \subseteq Got(r)', pc'[t] \notin {"addTopic", "followSelf"},
         Turn(t), AtFrame(t)', passed' = passed, Delivering(t)' => Iteration(t)'
  PROVE  IInv'
BY StillGrows, StepKept

(* An answer, after which the thread reads on or has more to do. *)
LEMMA AnswerKept ==
  ASSUME IInv, NEW t \in Threads, pc[t] \notin {"idle", "enter", "run"},
         NEW p \in {"run", "unread", "nullTopic"}, Still, Reply(t, p),
         unread' = unread, passed' = passed, p = "unread" => task[t] \in users
  PROVE  IInv'
<1>1. task[t] \in Users /\ AtFrame(t)
  BY PlaceFacts
<1>2. received' = received
  BY DEF Still, queues, channelVars
<1>3. /\ interest' \in [Users -> BOOLEAN] /\ out' \in [Users -> Seq(Messages)]
      /\ \A r \in Users : Got(r) \subseteq Got(r)'
      /\ PoolTypes' /\ Turn(t) /\ pc'[t] \in {p, "idle"}
      /\ pc'[t] = p => task' = task /\ local'[t] = IF p = "run" THEN Fresh ELSE local[t]
  BY <1>1, <1>2, ReplyTurn DEF IInv, Types, Places, Registered
<1>4. AtFrame(t)'
  BY <1>1, <1>3 DEF AtFrame, Still, Frames, session, Commands, Registered, ToFollower
<1>5. pc'[t] \notin {"addTopic", "followSelf"} /\ ~Delivering(t)'
  BY <1>3 DEF Delivering, ToFollower
<1> QED
  BY <1>3, <1>4, <1>5, StillKept

LEMMA AnswersStep ==
  ASSUME IInv, NEW t \in Threads, scenario' = scenario,
         \/ ConnectError(t) \/ Connected(t) \/ DisconnectError(t) \/ Receipt(t)
         \/ SubscribeUnknown(t) \/ SubscribeTwice(t) \/ Followed(t)
         \/ UnsubscribeError(t) \/ Unfollowed(t)
  PROVE  IInv'
<1>1. /\ pc[t] \notin {"idle", "enter", "run"} /\ Still /\ unread' = unread /\ passed' = passed
      /\ \/ Reply(t, "run") \/ Reply(t, "nullTopic")
         \/ Reply(t, "unread") /\ pc[t] = "connected"
  BY DEF ConnectError, Connected, DisconnectError, Receipt, SubscribeUnknown, SubscribeTwice, Followed,
         UnsubscribeError, Unfollowed, At, Still
<1>2. pc[t] = "connected" => task[t] \in users
  BY PlaceFacts DEF AtFrame, Registered
<1> QED
  BY <1>1, <1>2, AnswerKept

(* An exception. *)
LEMMA ThrowKept ==
  ASSUME IInv, NEW t \in Threads, pc[t] \notin {"idle", "enter"}, Throws(t), Still,
         unread' = unread, UNCHANGED output, passed' = passed
  PROVE  IInv'
<1>1. PoolTypes' /\ Turn(t) /\ pc'[t] = "idle"
  BY ThrowsTurn DEF IInv, Types
<1>2. out' \in [Users -> Seq(Messages)] /\ interest' \in [Users -> BOOLEAN] /\ \A r \in Users : Got(r) \subseteq Got(r)'
  BY DEF IInv, Types, MessageTypes, QueueTypes, output, Still, queues, channelVars, Got
<1>3. AtFrame(t)' /\ ~Delivering(t)'
  BY <1>1 DEF AtFrame, Delivering, ToFollower
<1> QED
  BY <1>1, <1>2, <1>3, StillKept

LEMMA ThrowsStep ==
  ASSUME IInv, NEW t \in Threads, Stranger(t) \/ NullTopic(t) \/ IterateFails(t), scenario' = scenario
  PROVE  IInv'
<1>1. /\ pc[t] \notin {"idle", "enter"} /\ Throws(t) /\ Still /\ unread' = unread /\ passed' = passed
      /\ UNCHANGED output
  BY DEF Stranger, NullTopic, IterateFails, At, Still
<1> QED
  BY <1>1, ThrowKept

(* A thread moves on to p and changes only its own variables. *)
LEMMA MoveKept ==
  ASSUME IInv, NEW t \in Threads, pc[t] \notin {"idle", "enter", "run"},
         NEW p \in Places \ (Commands \cup {"idle", "enter", "addTopic", "addSelf", "followSelf"}),
         NEW l \in Locals,
         Continue(t, p, l), Still, unread' = unread, UNCHANGED output, passed' = passed,
         p # "run" => l.frame = local[t].frame,
         p \in {"removeUser", "compare", "removeAt"} => Command(t) = "unsubscribe",
         p \in Registered => task[t] \in users,
         p \in ToFollower => l.to \in users, p = "topic" => l.cursor = 1,
         Delivering(t)' => Iteration(t)'
  PROVE  IInv'
<1>1. PoolTypes' /\ Turn(t) /\ pc'[t] = p /\ local'[t] = l /\ task' = task
  BY ContinueTurn DEF IInv, Types
<1>2. received' = received /\ out' = out /\ interest' = interest
  BY DEF Still, queues, channelVars, output
<1>3. out' \in [Users -> Seq(Messages)] /\ interest' \in [Users -> BOOLEAN] /\ \A r \in Users : Got(r) \subseteq Got(r)'
  BY <1>2 DEF IInv, Types, MessageTypes, QueueTypes, Got
<1>4. AtFrame(t)'
  BY <1>1, PlaceFacts DEF AtFrame, Still, Frames, session, Command
<1> QED
  BY <1>1, <1>3, <1>4, StillKept

LEMMA LogInAgainStep ==
  ASSUME IInv, NEW t \in Threads, LogInAgain(t), scenario' = scenario
  PROVE  IInv'
<1>1. /\ pc[t] = "connect" /\ task[t] \in users /\ Continue(t, "login", local[t])
      /\ Still /\ unread' = unread /\ UNCHANGED output /\ passed' = passed
  BY DEF LogInAgain, At, Still, GoTo
<1>2. ~Delivering(t)' /\ local[t] \in Locals
  BY <1>1 DEF Continue, Delivering, ToFollower, IInv, Types, PoolTypes
<1> QED
  BY <1>1, <1>2, MoveKept DEF Places, Registered, ToFollower, Commands

LEMMA RemoveScanStep ==
  ASSUME IInv, NEW t \in Threads, RemoveScan(t), scenario' = scenario
  PROVE  IInv'
<1>1. pc[t] = "removeUser" /\ local[t] \in Locals /\ task[t] \in users /\ Command(t) = "unsubscribe"
  BY PlaceFacts DEF RemoveScan, At, AtFrame, Registered
<1>2. Still /\ unread' = unread /\ UNCHANGED output /\ passed' = passed
  BY DEF RemoveScan, Still
<1>3. PICK p \in {"unfollowed", "compare"} : Continue(t, p, local[t])
  BY DEF RemoveScan, GoTo
<1>4. ~Delivering(t)'
  BY <1>3 DEF Continue, Delivering, ToFollower, IInv, Types, PoolTypes
<1> QED
  BY <1>1, <1>2, <1>3, <1>4, MoveKept DEF Places, Registered, ToFollower, Commands

LEMMA RemoveCompareStep ==
  ASSUME IInv, NEW t \in Threads, RemoveCompare(t), scenario' = scenario
  PROVE  IInv'
<1> DEFINE m == [local[t] EXCEPT !.cursor = local[t].cursor + 1]
<1>1. pc[t] = "compare" /\ local[t] \in Locals /\ task[t] \in users /\ Command(t) = "unsubscribe"
  BY PlaceFacts DEF RemoveCompare, At, AtFrame, Registered
<1>2. Still /\ unread' = unread /\ UNCHANGED output /\ passed' = passed
  BY DEF RemoveCompare, Still
<1>3. m \in Locals /\ m.frame = local[t].frame
  BY <1>1 DEF Locals
<1>4. \/ Throws(t)
      \/ Continue(t, "removeAt", local[t])
      \/ Continue(t, "removeUser", m)
  BY DEF RemoveCompare, GoTo
<1> HIDE DEF m
<1>5. ASSUME NEW p \in {"removeAt", "removeUser"}, NEW l \in Locals, l.frame = local[t].frame, Continue(t, p, l)
      PROVE  IInv'
  <2>1. ~Delivering(t)'
    BY <1>5 DEF Continue, Delivering, ToFollower, IInv, Types, PoolTypes
  <2> QED
    BY <1>1, <1>2, <1>5, <2>1, MoveKept DEF Places, Registered, ToFollower, Commands
<1> QED
  BY <1>1, <1>2, <1>3, <1>4, <1>5, ThrowKept

LEMMA NextMessageStep ==
  ASSUME IInv, NEW t \in Threads, NextMessage(t), scenario' = scenario
  PROVE  IInv'
<1> DEFINE u == task[t]
<1> DEFINE n == Head(buffers[u])
<1>1. /\ pc[t] = "run" /\ u \in Users /\ buffers[u] # <<>> /\ buffers[u] \in Seq(Frames(u)) /\ buffers[u] \in Seq(Nat)
      /\ buffers' = [buffers EXCEPT ![u] = Tail(@)]
  BY PlaceFacts DEF NextMessage, At, IInv, Types, QueueTypes
<1>2. /\ n \in Frames(u) /\ n \in Nat /\ Tail(buffers[u]) \in Seq(Frames(u)) /\ Tail(buffers[u]) \in Seq(Nat)
  <2>1. \A S : \A b \in Seq(S) : b # <<>> => Head(b) \in S /\ Tail(b) \in Seq(S)
    OBVIOUS
  <2> QED
    BY <1>1, <2>1
<1>3. scenario.script[u][n].cmd \in Commands
  BY <1>1, <1>2, ScriptFacts DEF IInv, Types
<1> DEFINE c == scenario.script[u][n].cmd
<1> DEFINE l == [Fresh EXCEPT !.frame = n]
<1>4. l \in Locals /\ l.frame = n /\ l.cursor = 1
  BY <1>2, FreshIsLocal DEF Locals, Fresh
<1>5. /\ c \in Places \ {"idle", "enter", "addTopic", "addSelf", "followSelf", "iterate", "next"}
      /\ c \notin Registered \cup ToFollower
  BY <1>3 DEF Places, Commands, Registered, ToFollower
<1>6. PoolTypes' /\ Turn(t) /\ pc'[t] = c /\ local'[t] = l /\ task' = task
  <2>1. Continue(t, c, l)
    BY DEF NextMessage
  <2> QED
    BY <1>1, <1>4, <1>5, <2>1, ContinueTurn DEF IInv, Types
<1>7. QueueTypes'
  <2>1. buffers' \in [Users -> Seq(Nat)] /\ \A v \in Users : buffers'[v] \in Seq(Frames(v))
    BY <1>1, <1>2 DEF IInv, Types, QueueTypes
  <2> QED
    BY <2>1 DEF IInv, Types, QueueTypes, NextMessage, output, Frames
<1>8. MessageTypes' /\ SessionTypes' /\ RelationTypes'
  BY DEF IInv, Types, MessageTypes, SessionTypes, RelationTypes, NextMessage, output, session, relation
<1>9. Grows(t)
  <2>1. \A r \in Users : Got(r) \subseteq Got(r)'
    BY DEF NextMessage, output, Got
  <2>2. UNCHANGED <<users, topics, modCount, followers, entries>>
    BY DEF NextMessage, session, relation
  <2>3. \A k \in Users : ~Adds(t, k)' /\ modCount[k] <= modCount[k]
    BY <1>5, <1>6 DEF Adds, IInv, Types, RelationTypes
  <2> QED
    BY <2>1, <2>2, <2>3 DEF Grows
<1>10. AtFrame(t)'
  <2>1. scenario' = scenario /\ task'[t] = u /\ local'[t].frame = n /\ local'[t].cursor = 1
    BY <1>4, <1>6
  <2>2. Command(t)' = c /\ Frames(task[t])' = Frames(u)
    BY <2>1 DEF Command, Frames
  <2> QED
    BY <1>2, <1>3, <1>5, <1>6, <2>1, <2>2 DEF AtFrame, Commands
<1> QED
  BY <1>1, <1>5, <1>6, <1>7, <1>8, <1>9, <1>10, StepKept DEF Types, NextMessage, Delivering

(* Sequences over the users that have registered are so when one more does. *)
LEMMA MoreUsers ==
  ASSUME RelationTypes, NEW T, users \subseteq T
  PROVE  followers \in [Users -> Seq(T)]
BY SeqMonotonic DEF RelationTypes

LEMMA RegisterStep ==
  ASSUME IInv, NEW t \in Threads, Register(t), scenario' = scenario
  PROVE  IInv'
<1> DEFINE u == task[t]
<1>1. pc[t] = "connect" /\ u \in Users /\ AtFrame(t) /\ local[t].frame \in Frames(u)
  BY PlaceFacts DEF Register, At
<1>2. /\ users' = users \cup {u} /\ isLoggedIn' = [isLoggedIn EXCEPT ![u] = TRUE] /\ GoTo(t, "newTopic")
      /\ UNCHANGED <<queues, output, handler, unread, relation, passed>>
      /\ received' = received /\ out' = out /\ interest' = interest
  BY DEF Register, queues, channelVars, output
<1>3. PoolTypes' /\ Turn(t) /\ pc'[t] = "newTopic" /\ task' = task /\ local'[t] = local[t]
  BY <1>1, <1>2, GoToTurn DEF IInv, Types, Places, Registered
<1>4. QueueTypes' /\ MessageTypes' /\ SessionTypes'
  BY <1>1, <1>2, <1>3 DEF IInv, Types, QueueTypes, MessageTypes, SessionTypes, queues, channelVars, Frames
<1>5. RelationTypes'
  BY <1>2, MoreUsers DEF IInv, Types, RelationTypes, relation
<1>6. Grows(t)
  BY <1>2, <1>3 DEF Grows, relation, Adds, Got, IInv, Types, RelationTypes
<1>7. AtFrame(t)' /\ ~Delivering(t)'
  BY <1>1, <1>2, <1>3 DEF AtFrame, Frames, Commands, ToFollower, Delivering
<1> QED
  BY <1>2, <1>3, <1>4, <1>5, <1>6, <1>7, StepKept DEF Types

(* A login or a logout: the flag or the handler of the task's user. *)
LEMMA SessionKept ==
  ASSUME IInv, NEW t \in Threads, pc[t] \notin {"idle", "enter", "run"}, task[t] \in users,
         NEW p \in {"setHandler", "connected", "clearHandler", "receipt"}, GoTo(t, p),
         UNCHANGED <<scenario, queues, output, unread, relation, passed, users>>,
         isLoggedIn' \in [Users -> BOOLEAN], handler' \in [Users -> BOOLEAN],
         \A u \in Users \ {task[t]} : isLoggedIn'[u] = isLoggedIn[u] /\ handler'[u] = handler[u]
  PROVE  IInv'
<1>1. AtFrame(t)
  BY PlaceFacts
<1>2. PoolTypes' /\ Turn(t) /\ pc'[t] = p /\ local'[t] = local[t] /\ task' = task
  BY GoToTurn DEF IInv, Types, Places, Registered
<1>3. Types'
  BY <1>2 DEF IInv, Types, QueueTypes, MessageTypes, SessionTypes, RelationTypes, queues,
              channelVars, output, relation, Frames
<1>4. Grows(t)
  BY <1>2 DEF Grows, relation, Adds, IInv, Types, RelationTypes, Got, queues, channelVars, output
<1>5. AtFrame(t)' /\ ~Delivering(t)'
  BY <1>1, <1>2 DEF AtFrame, Frames, Commands, ToFollower, Delivering
<1> QED
  BY <1>2, <1>3, <1>4, <1>5, StepKept

LEMMA SessionSteps ==
  ASSUME IInv, NEW t \in Threads, scenario' = scenario,
         Login(t) \/ SetHandler(t) \/ Disconnect(t) \/ ClearHandler(t)
  PROVE  IInv'
<1>1. /\ pc[t] \notin {"idle", "enter", "run"}
      /\ UNCHANGED <<queues, output, unread, relation, passed, users>>
      /\ \E p \in {"setHandler", "connected", "clearHandler", "receipt"} : GoTo(t, p)
  BY DEF Login, SetHandler, Disconnect, ClearHandler, At
<1>2. /\ isLoggedIn' \in [Users -> BOOLEAN] /\ handler' \in [Users -> BOOLEAN]
      /\ \A u \in Users \ {task[t]} : isLoggedIn'[u] = isLoggedIn[u] /\ handler'[u] = handler[u]
  BY DEF Login, SetHandler, Disconnect, ClearHandler, IInv, Types, SessionTypes
<1>3. task[t] \in users
  BY PlaceFacts DEF Login, SetHandler, Disconnect, ClearHandler, At, AtFrame, Registered
<1> QED
  BY <1>1, <1>2, <1>3, SessionKept

LEMMA SendUnreadStep ==
  ASSUME IInv, NEW t \in Threads, SendUnread(t), scenario' = scenario
  PROVE  IInv'
<1> DEFINE u == task[t]
<1>1. /\ pc[t] = "unread" /\ u \in users /\ u \in Users /\ AtFrame(t)
      /\ UNCHANGED <<queues, session, relation, passed>> /\ received' = received
  BY PlaceFacts DEF SendUnread, At, AtFrame, Registered, queues, channelVars
<1>2. CASE unread[u] = <<>>
  <2>1. Continue(t, "run", Fresh)
    BY <1>2 DEF SendUnread, GoTo
  <2>2. Still /\ unread' = unread /\ UNCHANGED output /\ passed' = passed
    BY <1>1, <1>2 DEF SendUnread, Still
  <2>3. ~Delivering(t)'
    BY <2>1 DEF Continue, Delivering, ToFollower, IInv, Types, PoolTypes
  <2> QED
    BY <1>1, <2>1, <2>2, <2>3, MoveKept, FreshIsLocal DEF Places, Registered, ToFollower, Commands
<1>3. CASE unread[u] # <<>>
  <2> DEFINE m == Head(unread[u])
  <2>1. /\ unread' = [unread EXCEPT ![u] = Tail(@)] /\ AddOutData(t, u, m, "unread")
        /\ out' = [out EXCEPT ![u] = Append(@, m)]
    BY <1>3 DEF SendUnread, AddOutData
  <2>2. unread[u] \in Seq(Tweets) /\ m \in Tweets /\ Tail(unread[u]) \in Seq(Tweets)
    <3>1. \A b \in Seq(Tweets) : b # <<>> => Head(b) \in Tweets /\ Tail(b) \in Seq(Tweets)
      OBVIOUS
    <3> QED
      BY <1>1, <1>3, <3>1 DEF IInv, Types, MessageTypes
  <2>3. m \in Messages /\ out[u] \in Seq(Messages)
    BY <1>1, <2>2 DEF Messages, IInv, Types, MessageTypes
  <2>4. MessageTypes'
    BY <1>1, <2>1, <2>2, <2>3 DEF IInv, Types, MessageTypes, session
  <2>5. \A r \in Users : Got(r) \subseteq Got(r)'
    <3>1. ToSet(unread[u]) = ToSet(unread'[u]) \cup {m} /\ ToSet(out'[u]) = ToSet(out[u]) \cup {m}
      <4>1. unread'[u] = Tail(unread[u]) /\ out'[u] = Append(out[u], m)
        BY <1>1, <2>1 DEF IInv, Types, MessageTypes
      <4>2. ToSet(unread[u]) = ToSet(Tail(unread[u])) \cup {m}
        BY <1>3, <2>2, TailSet
      <4>3. ToSet(Append(out[u], m)) = ToSet(out[u]) \cup {m}
        BY <2>3, AppendSet
      <4> QED
        BY <4>1, <4>2, <4>3
    <3>2. \A r \in Users \ {u} : unread'[r] = unread[r] /\ out'[r] = out[r]
      BY <2>1 DEF IInv, Types, MessageTypes
    <3> QED
      BY <1>1, <3>1, <3>2 DEF Got
  <2>6. /\ PoolTypes' /\ Turn(t) /\ interest' \in [Users -> BOOLEAN] /\ pc'[t] \in {"unread", "idle"}
        /\ pc'[t] = "unread" => task' = task /\ local'[t] = local[t]
    BY <1>1, <2>1, AddOutTurn DEF IInv, Types, Places, Registered
  <2>7. QueueTypes' /\ SessionTypes' /\ RelationTypes'
    BY <1>1, <2>6 DEF IInv, Types, QueueTypes, SessionTypes, RelationTypes, queues, channelVars, session, relation, Frames
  <2>8. Grows(t)
    BY <1>1, <2>5, <2>6 DEF Grows, session, relation, Adds, IInv, Types, RelationTypes
  <2>9. AtFrame(t)' /\ ~Delivering(t)'
    BY <1>1, <2>6 DEF AtFrame, Frames, Commands, ToFollower, session, Delivering
  <2> QED
    BY <1>1, <2>4, <2>6, <2>7, <2>8, <2>9, StepKept DEF Types
<1> QED
  BY <1>2, <1>3

-----------------------------------------------------------------------------
(* A step that changes the topics, the followers or the entries, on the way to p. *)
LEMMA RelationGoes ==
  ASSUME IInv, NEW t \in Threads, pc[t] \notin {"idle", "enter", "run"},
         NEW p \in {"addSelf", "followSelf", "login", "addTopic", "followed", "removeUser", "unfollowed"},
         GoTo(t, p), UNCHANGED <<scenario, queues, output, session, unread>>
  PROVE  /\ Turn(t) /\ PoolTypes' /\ out' \in [Users -> Seq(Messages)] /\ interest' \in [Users -> BOOLEAN]
         /\ \A r \in Users : Got(r) \subseteq Got(r)'
         /\ pc'[t] = p /\ task' = task /\ local'[t] = local[t] /\ ~Delivering(t)'
         /\ Topic(t)' = Topic(t) /\ Command(t)' = Command(t)
         /\ task[t] \in Users /\ AtFrame(t) /\ local[t].frame \in Frames(task[t])
         /\ pc[t] \in Registered => task[t] \in users
<1>1. /\ Turn(t) /\ PoolTypes' /\ pc'[t] = p /\ task' = task /\ local'[t] = local[t]
  BY GoToTurn DEF IInv, Types, Places, Registered
<1>2. out' \in [Users -> Seq(Messages)] /\ interest' \in [Users -> BOOLEAN]
  BY DEF IInv, Types, MessageTypes, QueueTypes, output
<1>3. \A r \in Users : Got(r) \subseteq Got(r)'
  BY DEF Got, output, queues, channelVars
<1>4. Topic(t)' = Topic(t) /\ Command(t)' = Command(t) /\ ~Delivering(t)'
  BY <1>1 DEF Topic, Command, Delivering, ToFollower
<1> QED
  BY <1>1, <1>2, <1>3, <1>4, PlaceFacts DEF AtFrame

LEMMA RelationKept ==
  ASSUME IInv, NEW t \in Threads, pc[t] \notin {"idle", "enter", "run"},
         NEW p \in {"addSelf", "followSelf", "login", "addTopic", "followed", "removeUser", "unfollowed"},
         GoTo(t, p), UNCHANGED <<scenario, queues, output, session, unread, passed>>,
         RelationTypes', Grows(t), task[t] \in users,
         p = "addTopic" => Command(t) = "subscribe" /\ Topic(t) \in topics',
         p = "removeUser" => Command(t) = "unsubscribe",
         p \in {"addSelf", "followSelf"} => task[t] \in topics'
  PROVE  IInv'
<1>1. /\ Turn(t) /\ PoolTypes' /\ out' \in [Users -> Seq(Messages)] /\ interest' \in [Users -> BOOLEAN]
      /\ pc'[t] = p /\ task' = task /\ local'[t] = local[t] /\ ~Delivering(t)'
      /\ Topic(t)' = Topic(t) /\ Command(t)' = Command(t) /\ local[t].frame \in Frames(task[t])
  BY RelationGoes
<1>2. QueueTypes' /\ MessageTypes' /\ SessionTypes'
  BY <1>1 DEF IInv, Types, QueueTypes, MessageTypes, SessionTypes, session, queues, channelVars, Frames
<1>3. AtFrame(t)'
  BY <1>1 DEF AtFrame, Frames, Commands, ToFollower, session
<1> QED
  BY <1>1, <1>2, <1>3, StepKept DEF Types

(* A change of the followers of topic k counts as a modification. *)
LEMMA Modified ==
  ASSUME RelationTypes, NEW k \in Users, modCount' = [modCount EXCEPT ![k] = @ + 1],
         NEW s \in Seq(users), followers' = [followers EXCEPT ![k] = s]
  PROVE  /\ modCount' \in [Users -> Nat] /\ followers' \in [Users -> Seq(users)]
         /\ modCount'[k] # modCount[k]
         /\ \A j \in Users : modCount[j] <= modCount'[j]
         /\ \A j \in Users \ {k} : followers'[j] = followers[j] /\ modCount'[j] = modCount[j]
BY DEF RelationTypes

LEMMA NewTopicStep ==
  ASSUME IInv, NEW t \in Threads, NewTopic(t), scenario' = scenario
  PROVE  IInv'
<1> DEFINE u == task[t]
<1>1. /\ pc[t] = "newTopic" /\ GoTo(t, "addSelf") /\ topics' = topics \cup {u}
      /\ UNCHANGED <<scenario, queues, output, session, unread, entries, followers, modCount, passed>>
  BY DEF NewTopic, At
<1>2. /\ \A r \in Users : Got(r) \subseteq Got(r)'
      /\ pc'[t] = "addSelf" /\ u \in users /\ u \in Users
  BY <1>1, RelationGoes DEF Registered
<1>3. RelationTypes'
  BY <1>1, <1>2 DEF IInv, Types, RelationTypes, session
<1>4. Grows(t)
  BY <1>1, <1>2 DEF Grows, Adds, session, IInv, Types, RelationTypes
<1> QED
  BY <1>1, <1>2, <1>3, <1>4, RelationKept

LEMMA AddSelfStep ==
  ASSUME IInv, NEW t \in Threads, AddSelf(t), scenario' = scenario
  PROVE  IInv'
<1> DEFINE u == task[t]
<1>1. /\ pc[t] = "addSelf" /\ GoTo(t, "followSelf")
      /\ followers' = [followers EXCEPT ![u] = Append(@, u)] /\ modCount' = [modCount EXCEPT ![u] = @ + 1]
      /\ UNCHANGED <<scenario, queues, output, session, unread, topics, entries, passed>>
  BY DEF AddSelf, At
<1>2. /\ \A r \in Users : Got(r) \subseteq Got(r)'
      /\ pc'[t] = "followSelf" /\ task' = task /\ u \in users /\ u \in Users /\ AtFrame(t)
  BY <1>1, RelationGoes DEF Registered
<1>3. u \in topics
  BY <1>1 , <1>2 DEF AtFrame
<1>4. Append(followers[u], u) \in Seq(users) /\ followers' = [followers EXCEPT ![u] = Append(followers[u], u)]
  BY <1>1, <1>2 DEF IInv, Types, RelationTypes
<1>5. /\ modCount' \in [Users -> Nat] /\ followers' \in [Users -> Seq(users)] /\ modCount'[u] # modCount[u]
      /\ \A j \in Users : modCount[j] <= modCount'[j]
      /\ \A j \in Users \ {u} : followers'[j] = followers[j] /\ modCount'[j] = modCount[j]
  BY <1>1, <1>2, <1>4, Modified DEF IInv, Types
<1>6. RelationTypes'
  BY <1>1, <1>2, <1>3, <1>5 DEF IInv, Types, RelationTypes, session
<1>7. Grows(t)
  BY <1>1, <1>2, <1>5 DEF Grows, Adds, session
<1> QED
  BY <1>1, <1>2, <1>3, <1>6, <1>7, RelationKept

LEMMA FollowSelfStep ==
  ASSUME IInv, NEW t \in Threads, FollowSelf(t), scenario' = scenario
  PROVE  IInv'
<1> DEFINE u == task[t]
<1>1. /\ pc[t] = "followSelf" /\ GoTo(t, "login") /\ entries' = [entries EXCEPT ![u] = @ \cup {u}]
      /\ UNCHANGED <<scenario, queues, output, session, unread, topics, followers, modCount, passed>>
  BY DEF FollowSelf, At
<1>2. /\ \A r \in Users : Got(r) \subseteq Got(r)'
      /\ pc'[t] = "login" /\ u \in users /\ u \in Users /\ AtFrame(t)
  BY <1>1, RelationGoes DEF Registered
<1>3. u \in topics
  BY <1>1, <1>2 DEF AtFrame
<1>4. RelationTypes'
  BY <1>1, <1>2, <1>3 DEF IInv, Types, RelationTypes, session
<1>5. Grows(t)
  BY <1>1, <1>2 DEF Grows, Adds, session, IInv, Types, RelationTypes
<1> QED
  BY <1>1, <1>2, <1>4, <1>5, RelationKept

LEMMA SubscribeStep ==
  ASSUME IInv, NEW t \in Threads, Subscribe(t), scenario' = scenario
  PROVE  IInv'
<1> DEFINE u == task[t]
<1>0. PICK k : k = Topic(t)
  OBVIOUS
<1>1. /\ pc[t] = "subscribe" /\ k \in topics /\ u \in users /\ GoTo(t, "addTopic")
      /\ followers' = [followers EXCEPT ![k] = Append(@, u)] /\ modCount' = [modCount EXCEPT ![k] = @ + 1]
      /\ UNCHANGED <<scenario, queues, output, session, unread, entries, topics, passed>>
  BY <1>0 DEF Subscribe, At
<1>2. /\ \A r \in Users : Got(r) \subseteq Got(r)'
      /\ pc'[t] = "addTopic" /\ Topic(t)' = Topic(t) /\ AtFrame(t)
  BY <1>1, RelationGoes
<1>3. k \in Users /\ Command(t) = "subscribe"
  BY <1>1, <1>2 DEF IInv, Types, SessionTypes, RelationTypes, AtFrame, Commands
<1>4. Append(followers[k], u) \in Seq(users) /\ followers' = [followers EXCEPT ![k] = Append(followers[k], u)]
  BY <1>1, <1>2, <1>3 DEF IInv, Types, RelationTypes
<1>5. /\ modCount' \in [Users -> Nat] /\ followers' \in [Users -> Seq(users)] /\ modCount'[k] # modCount[k]
      /\ \A j \in Users : modCount[j] <= modCount'[j]
      /\ \A j \in Users \ {k} : followers'[j] = followers[j] /\ modCount'[j] = modCount[j]
  BY <1>1, <1>3, <1>4, Modified DEF IInv, Types
<1>6. RelationTypes'
  BY <1>1, <1>5 DEF IInv, Types, RelationTypes, session
<1>7. Grows(t)
  BY <1>0, <1>1, <1>2, <1>5 DEF Grows, Adds, session
<1> QED
  BY <1>0, <1>1, <1>3, <1>6, <1>7, RelationKept

LEMMA UnsubscribeStep ==
  ASSUME IInv, NEW t \in Threads, Unsubscribe(t), scenario' = scenario
  PROVE  IInv'
<1> DEFINE u == task[t]
<1>0. PICK k : k = Topic(t)
  OBVIOUS
<1>1. /\ pc[t] = "unsubscribe" /\ u \in users /\ GoTo(t, "removeUser") /\ entries' = [entries EXCEPT ![u] = @ \ {k}]
      /\ UNCHANGED <<scenario, queues, output, session, unread, topics, followers, modCount, passed>>
  BY <1>0 DEF Unsubscribe, At
<1>2. /\ \A r \in Users : Got(r) \subseteq Got(r)'
      /\ pc'[t] = "removeUser" /\ u \in Users /\ AtFrame(t)
  BY <1>1, RelationGoes
<1>3. Command(t) = "unsubscribe"
  BY <1>1, <1>2 DEF AtFrame, Commands
<1>4. RelationTypes'
  BY <1>1, <1>2 DEF IInv, Types, RelationTypes, session
<1>5. Grows(t)
  BY <1>1, <1>2 DEF Grows, Adds, session, IInv, Types, RelationTypes
<1> QED
  BY <1>1, <1>2, <1>3, <1>4, <1>5, RelationKept

LEMMA AddTopicStep ==
  ASSUME IInv, NEW t \in Threads, AddTopic(t), scenario' = scenario
  PROVE  IInv'
<1> DEFINE u == task[t]
<1>0. PICK k : k \in entries[u] \cup {Topic(t)} /\ entries' = [entries EXCEPT ![u] = @ \cup {k}]
  BY DEF AddTopic
<1>1. /\ pc[t] = "addTopic" /\ GoTo(t, "followed")
      /\ UNCHANGED <<scenario, queues, output, session, unread, topics, followers, modCount, passed>>
  BY DEF AddTopic, At
<1>2. /\ \A r \in Users : Got(r) \subseteq Got(r)'
      /\ pc'[t] = "followed" /\ u \in users /\ u \in Users /\ AtFrame(t)
  BY <1>1, RelationGoes DEF Registered
<1>3. Topic(t) \in topics /\ entries[u] \subseteq topics
  BY <1>1, <1>2 DEF AtFrame, IInv, Types, RelationTypes
<1>4. RelationTypes'
  BY <1>0, <1>1, <1>2, <1>3 DEF IInv, Types, RelationTypes, session
<1>5. \A r \in Users : \A j \in entries'[r] \ entries[r] : r = u /\ j = Topic(t)
  BY <1>0, <1>2 DEF IInv, Types, RelationTypes
<1>6. \A r \in Users : entries[r] \subseteq entries'[r]
  BY <1>0, <1>2 DEF IInv, Types, RelationTypes
<1>7. Grows(t)
  BY <1>1, <1>2, <1>5, <1>6 DEF Grows, Adds, session, IInv, Types, RelationTypes
<1> QED
  BY <1>1, <1>2, <1>4, <1>7, RelationKept

LEMMA RemoveAtType ==
  ASSUME NEW S, NEW s \in Seq(S), NEW i \in 1..Len(s)
  PROVE  RemoveAt(s, i) \in Seq(S)
<1>1. SubSeq(s, 1, i - 1) \in Seq(S) /\ SubSeq(s, i + 1, Len(s)) \in Seq(S)
  OBVIOUS
<1> QED
  BY <1>1 DEF RemoveAt

LEMMA RemoveUserStep ==
  ASSUME IInv, NEW t \in Threads, RemoveUser(t), scenario' = scenario
  PROVE  IInv'
<1> DEFINE i == local[t].cursor
<1>0. PICK k : k = Topic(t)
  OBVIOUS
<1>1. /\ pc[t] = "removeAt" /\ UNCHANGED <<scenario, queues, output, session, unread, entries, topics, passed>>
  BY DEF RemoveUser, At
<1>2. task[t] \in Users /\ k \in Users /\ i \in Nat \ {0}
  BY <1>0, <1>1, PlaceFacts DEF AtFrame, Locals
<1>3. CASE i <= Len(followers[k])
  <2>1. /\ GoTo(t, "unfollowed") /\ followers' = [followers EXCEPT ![k] = RemoveAt(@, i)]
        /\ modCount' = [modCount EXCEPT ![k] = @ + 1]
    BY <1>0, <1>3 DEF RemoveUser
  <2>2. /\ Turn(t) /\ PoolTypes' /\ out' \in [Users -> Seq(Messages)] /\ interest' \in [Users -> BOOLEAN]
        /\ \A r \in Users : Got(r) \subseteq Got(r)'
        /\ pc'[t] = "unfollowed" /\ task[t] \in users
    BY <1>1, <2>1, RelationGoes DEF Registered
  <2>3. followers[k] \in Seq(users) /\ Len(followers[k]) \in Nat /\ followers[k] # <<>>
    BY <1>2, <1>3 DEF IInv, Types, RelationTypes
  <2>4. RemoveAt(followers[k], i) \in Seq(users) /\ followers' = [followers EXCEPT ![k] = RemoveAt(followers[k], i)]
    BY <1>2, <1>3, <2>1, <2>3, RemoveAtType
  <2>5. /\ modCount' \in [Users -> Nat] /\ followers' \in [Users -> Seq(users)] /\ modCount'[k] # modCount[k]
        /\ \A j \in Users : modCount[j] <= modCount'[j]
        /\ \A j \in Users \ {k} : followers'[j] = followers[j] /\ modCount'[j] = modCount[j]
    BY <1>2, <2>1, <2>4, Modified DEF IInv, Types
  <2>6. RelationTypes'
    BY <1>1, <1>2, <2>3, <2>5 DEF IInv, Types, RelationTypes, session
  <2>7. Grows(t)
    BY <1>1, <2>2, <2>5 DEF Grows, Adds, session
  <2> QED
    BY <1>1, <2>1, <2>2, <2>6, <2>7, RelationKept
<1>4. CASE ~(i <= Len(followers[k]))
  <2>1. Throws(t) /\ Still
    BY <1>0, <1>1, <1>4 DEF RemoveUser, Still, relation
  <2> QED
    BY <1>1, <2>1, ThrowKept
<1> QED
  BY <1>3, <1>4

-----------------------------------------------------------------------------
LEMMA SendStep ==
  ASSUME IInv, NEW t \in Threads, Send(t), scenario' = scenario
  PROVE  IInv'
<1> DEFINE l == [local[t] EXCEPT !.todo = Topic(t)]
<1>1. /\ pc[t] = "send" /\ Continue(t, "topic", l) /\ Still /\ unread' = unread /\ UNCHANGED output /\ passed' = passed
  BY DEF Send, At, Still
<1>2. /\ local[t] \in Locals /\ Topic(t) \in Seq(Users) /\ local[t].cursor = 1
  BY <1>1, PlaceFacts DEF AtFrame, Commands
<1>3. l \in Locals /\ l.frame = local[t].frame /\ l.cursor = 1
  BY <1>2 DEF Locals
<1>4. ~Delivering(t)'
  BY <1>1 DEF Continue, Delivering, ToFollower, IInv, Types, PoolTypes
<1> QED
  BY <1>1, <1>3, <1>4, MoveKept DEF Places, Registered, ToFollower, Commands

(* An iteration begins. *)
LEMMA IterationBegins ==
  ASSUME IInv, NEW t \in Threads, local[t].todo # <<>>, local[t] \in Locals, local[t].cursor = 1,
         UNCHANGED <<task, relation>>, pc'[t] = "iterate",
         local'[t] = [local[t] EXCEPT !.expected = modCount[Current(t)],
                        !.due = {r \in ToSet(followers[Current(t)]) : Current(t) \in entries[r]}]
  PROVE  Iteration(t)' /\ local'[t] \in Locals
<1>1. PICK k \in Users : k = Current(t)
  <2>1. \A s \in Seq(Users) : s # <<>> => Head(s) \in Users
    OBVIOUS
  <2> QED
    BY <2>1 DEF Current, Locals
<1>2. /\ local'[t].todo = local[t].todo /\ local'[t].cursor = 1 /\ local'[t].expected = modCount[k]
      /\ local'[t].due = {r \in ToSet(followers[k]) : k \in entries[r]}
      /\ Current(t)' = k /\ UNCHANGED <<entries, modCount, followers>>
  BY <1>1 DEF Locals, Current, relation
<1>3. followers[k] \in Seq(Users) /\ modCount[k] \in Nat
  BY SeqMonotonic DEF IInv, Types, SessionTypes, RelationTypes
<1>4. Len(followers[k]) \in Nat /\ DOMAIN followers[k] = 1..Len(followers[k])
  BY <1>3
<1>5. ASSUME NEW r \in local'[t].due PROVE Reaches(t, r)' /\ k \in entries'[r]
  <2>1. \E i \in 1..Len(followers[k]) : followers[k][i] = r
    BY <1>2, <1>4, <1>5 DEF ToSet
  <2> QED
    BY <1>2, <1>5, <2>1 DEF Reaches
<1>6. {r \in ToSet(followers[k]) : k \in entries[r]} \subseteq Users
  BY <1>3, <1>4 DEF ToSet
<1>7. local'[t] \in Locals
  BY <1>1, <1>3, <1>6 DEF Locals
<1> QED
  BY <1>2, <1>3, <1>4, <1>5, <1>7 DEF Iteration

LEMMA NextTopicStep ==
  ASSUME IInv, NEW t \in Threads, NextTopic(t), scenario' = scenario
  PROVE  IInv'
<1> DEFINE l == local[t]
<1>1. /\ pc[t] = "topic" /\ Still /\ unread' = unread /\ UNCHANGED output /\ passed' = passed /\ UNCHANGED relation
  BY DEF NextTopic, At, Still
<1>2. l \in Locals /\ l.cursor = 1
  BY <1>1, PlaceFacts DEF AtFrame
<1>3. CASE l.todo = <<>>
  <2>1. Continue(t, "run", Fresh)
    BY <1>3 DEF NextTopic, GoTo
  <2>2. ~Delivering(t)'
    BY <2>1 DEF Continue, Delivering, ToFollower, IInv, Types, PoolTypes
  <2> QED
    BY <1>1, <2>1, <2>2, MoveKept, FreshIsLocal DEF Places, Registered, ToFollower, Commands
<1>4. CASE l.todo # <<>> /\ Current(t) \notin topics
  <2> DEFINE m == [l EXCEPT !.todo = Tail(l.todo)]
  <2>1. Continue(t, "topic", m)
    BY <1>4 DEF NextTopic
  <2>2. Tail(l.todo) \in Seq(Users)
    <3>1. \A s \in Seq(Users) : s # <<>> => Tail(s) \in Seq(Users)
      OBVIOUS
    <3> QED
      BY <1>2, <1>4, <3>1 DEF Locals
  <2>3. m \in Locals /\ m.frame = l.frame /\ m.cursor = 1
    BY <1>2, <2>2 DEF Locals
  <2>4. ~Delivering(t)'
    BY <2>1 DEF Continue, Delivering, ToFollower, IInv, Types, PoolTypes
  <2> QED
    BY <1>1, <2>1, <2>3, <2>4, MoveKept DEF Places, Registered, ToFollower, Commands
<1>5. CASE l.todo # <<>> /\ Current(t) \in topics
  <2> DEFINE m == [l EXCEPT !.expected = modCount[Current(t)],
                     !.due = {r \in ToSet(followers[Current(t)]) : Current(t) \in entries[r]}]
  <2>1. Continue(t, "iterate", m)
    BY <1>5 DEF NextTopic
  <2>2. pc'[t] = "iterate" /\ local'[t] = m /\ task' = task
    BY <2>1 DEF Continue, IInv, Types, PoolTypes
  <2>3. Iteration(t)' /\ m \in Locals
    BY <1>1, <1>2, <1>5, <2>2, IterationBegins
  <2>4. m.frame = l.frame
    BY <1>2 DEF Locals
  <2>5. /\ "iterate" \in Places \ (Commands \cup {"idle", "enter", "addTopic", "addSelf", "followSelf"})
        /\ "iterate" \notin Registered \cup ToFollower
    BY DEF Places, Registered, ToFollower, Commands
  <2> HIDE DEF m
  <2> QED
    BY <1>1, <2>1, <2>3, <2>4, <2>5, MoveKept
<1> QED
  BY <1>3, <1>4, <1>5

(* What is known of an iteration in progress. *)
LEMMA IterationFacts ==
  ASSUME IInv, NEW t \in Threads, Delivering(t)
  PROVE  /\ Iteration(t) /\ local[t] \in Locals /\ task[t] \in Users
         /\ Current(t) \in Users /\ Tail(local[t].todo) \in Seq(Users) /\ Tweet(t) \in Tweets
         /\ followers[Current(t)] \in Seq(users) /\ Len(followers[Current(t)]) \in Nat
<1>1. Iteration(t) /\ local[t] \in Locals /\ task[t] \in Users
  BY PlaceFacts DEF IInv, Iterations, Delivering, ToFollower
<1>2. Current(t) \in Users /\ Tail(local[t].todo) \in Seq(Users)
  <2>1. \A s \in Seq(Users) : s # <<>> => Head(s) \in Users /\ Tail(s) \in Seq(Users)
    OBVIOUS
  <2> QED
    BY <1>1, <2>1 DEF Current, Locals, Iteration
<1>3. Tweet(t) \in Tweets
  BY <1>1, <1>2 DEF Tweet, Tweets, Locals
<1>4. followers[Current(t)] \in Seq(users)
  BY <1>2 DEF IInv, Types, RelationTypes
<1>5. Len(followers[Current(t)]) \in Nat
  BY <1>4
<1> QED
  BY <1>1, <1>2, <1>3, <1>4, <1>5

LEMMA IterateEndStep ==
  ASSUME IInv, NEW t \in Threads, IterateEnd(t), scenario' = scenario
  PROVE  IInv'
<1> DEFINE l == [Fresh EXCEPT !.frame = local[t].frame, !.todo = Tail(local[t].todo)]
<1>1. /\ pc[t] = "iterate" /\ AtEnd(t) /\ Continue(t, "topic", l) /\ Still /\ unread' = unread
      /\ UNCHANGED output /\ received' = received
  BY DEF IterateEnd, At, Still, queues, channelVars
<1>2. /\ Iteration(t) /\ local[t] \in Locals /\ Tail(local[t].todo) \in Seq(Users) /\ Tweet(t) \in Tweets
      /\ Len(followers[Current(t)]) \in Nat /\ Delivering(t)
      /\ local[t].frame \in Frames(task[t])
  BY <1>1, IterationFacts, PlaceFacts DEF Delivering
<1>3. l \in Locals /\ l.frame = local[t].frame /\ l.cursor = 1
  BY <1>2, FreshIsLocal DEF Locals, Fresh
<1>4. /\ PoolTypes' /\ Turn(t) /\ pc'[t] = "topic" /\ local'[t] = l /\ task' = task
  BY <1>1, <1>3, ContinueTurn DEF IInv, Types, Places
<1>5. /\ out' \in [Users -> Seq(Messages)] /\ interest' \in [Users -> BOOLEAN]
      /\ \A r \in Users : Got(r) \subseteq Got(r)'
  BY <1>1 DEF IInv, Types, MessageTypes, QueueTypes, output, Got
<1>6. Types' /\ Grows(t)
  BY <1>1, <1>4, <1>5, StillGrows
<1>7. AtFrame(t)'
  BY <1>1, <1>2, <1>3, <1>4 DEF AtFrame, Frames, Commands, Registered, ToFollower, Still, session
<1>8. Control'
  BY <1>4, <1>6, <1>7, ControlKept
<1>9. Iterations'
  BY <1>4, <1>6, IterationsKept DEF Delivering, ToFollower
<1>10. Passes'
  <2>1. ASSUME NEW p \in passed' PROVE p \in Tweets \X Users /\ p[1] \in Got(p[2])'
    <3>1. CASE p \in passed
      BY <1>5, <3>1 DEF IInv, Passes
    <3>2. CASE p \notin passed
      <4>1. PICK r \in local[t].due : Undisturbed(t) /\ Current(t) \in entries[r] /\ p = <<Tweet(t), r>>
        BY <2>1, <3>2 DEF IterateEnd
      <4>2. r \in Users /\ Reaches(t, r)
        BY <1>2, <4>1 DEF Iteration, Locals
      <4>3. local[t].cursor..Len(followers[Current(t)]) = {}
        BY <1>1, <1>2 DEF AtEnd, Locals
      <4>4. Tweet(t) \in Got(r)
        BY <1>1, <4>1, <4>2, <4>3 DEF Reaches, ToFollower
      <4>5. p[1] = Tweet(t) /\ p[2] = r
        BY <4>1
      <4> QED
        BY <1>2, <1>5, <4>1, <4>2, <4>4, <4>5
    <3> QED
      BY <3>1, <3>2
  <2> QED
    BY <2>1 DEF Passes
<1> QED
  BY <1>6, <1>8, <1>9, <1>10 DEF IInv

LEMMA IterateStep ==
  ASSUME IInv, NEW t \in Threads, Iterate(t), scenario' = scenario
  PROVE  IInv'
<1>0. PICK k : k = Current(t)
  OBVIOUS
<1> DEFINE c == local[t].cursor
<1> DEFINE q == followers[k][c]
<1> DEFINE l == [local[t] EXCEPT !.cursor = c + 1, !.to = q]
<1>1. /\ pc[t] = "next" /\ Undisturbed(t) /\ Continue(t, "entry", l)
      /\ Still /\ unread' = unread /\ UNCHANGED output /\ passed' = passed /\ received' = received
      /\ UNCHANGED relation
  BY <1>0 DEF Iterate, At, Still, queues, channelVars
<1>2. /\ Iteration(t) /\ local[t] \in Locals /\ k \in Users /\ followers[k] \in Seq(users)
      /\ Len(followers[k]) \in Nat /\ Delivering(t)
  BY <1>0, <1>1, IterationFacts DEF Delivering
<1>3. c \in 1..Len(followers[k])
  BY <1>0, <1>1, <1>2 DEF AtEnd, Iteration, Locals
<1>4. q \in users /\ q \in Users
  <2>1. q \in users
    BY <1>2, <1>3, ElementOfSeq
  <2> QED
    BY <2>1 DEF IInv, Types, SessionTypes
<1> HIDE DEF q
<1>5. l \in Locals /\ l.frame = local[t].frame /\ l.to = q /\ l.cursor = c + 1 /\ l.todo = local[t].todo
      /\ l.expected = local[t].expected /\ l.due = local[t].due /\ c \in Nat
  <2>1. c \in Nat \ {0} /\ c + 1 \in Nat \ {0}
    BY <1>2 DEF Locals
  <2> HIDE DEF c
  <2> QED
    BY <1>2, <1>4, <2>1 DEF Locals
<1>6. pc'[t] = "entry" /\ local'[t] = l /\ task' = task
  BY <1>1 DEF Continue, IInv, Types, PoolTypes
<1>7. /\ Tweet(t)' = Tweet(t) /\ Current(t)' = k /\ UNCHANGED <<entries, followers, modCount>>
      /\ Undisturbed(t)'
  BY <1>0, <1>1, <1>5, <1>6 DEF Tweet, Current, relation, Undisturbed
<1>8. ASSUME NEW r \in local[t].due
      PROVE  Reaches(t, r)' /\ (k \notin entries[r] => \A s \in Threads : task[s] = r => ~Adds(s, k)')
  <2>1. Reaches(t, r) /\ (k \notin entries[r] => \A s \in Threads : task[s] = r => ~Adds(s, k))
    BY <1>0, <1>1, <1>2 DEF Iteration
  <2>2. Got(r)' = Got(r)
    BY <1>1 DEF Got, output
  <2>3. Reaches(t, r)'
    <3>1. CASE Tweet(t) \in Got(r) \/ k \notin entries[r]
      BY <1>7, <2>2, <3>1 DEF Reaches
    <3>2. CASE ~(Tweet(t) \in Got(r) \/ k \notin entries[r])
      <4>1. PICK i \in c..Len(followers[k]) : followers[k][i] = r
        BY <1>0, <1>1, <2>1, <3>2 DEF Reaches, ToFollower
      <4>2. CASE i = c
        <5>1. q = r
          BY <4>1, <4>2 DEF q
        <5> QED
          BY <1>5, <1>6, <5>1 DEF Reaches, ToFollower
      <4>3. CASE i # c
        <5>1. i \in (c + 1)..Len(followers[k])
          BY <1>2, <1>5, <4>1, <4>3
        <5> QED
          BY <1>5, <1>6, <1>7, <4>1, <5>1 DEF Reaches
      <4> QED
        BY <4>2, <4>3
    <3> QED
      BY <3>1, <3>2
  <2>4. \A s \in Threads : Adds(s, k)' => Adds(s, k)
    BY <1>1, <1>6 DEF Adds, Topic, Continue, IInv, Types, PoolTypes
  <2> QED
    BY <2>1, <2>3, <2>4
<1>9. Iteration(t)'
  <2>1. local'[t].todo # <<>> /\ local'[t].expected <= modCount'[k] /\ local'[t].cursor <= Len(followers'[k]) + 1
    BY <1>0, <1>2, <1>3, <1>5, <1>6, <1>7 DEF Iteration
  <2> QED
    BY <1>5, <1>6, <1>7, <1>8, <2>1 DEF Iteration
<1>10. /\ "entry" \in Places \ (Commands \cup {"idle", "enter", "addTopic", "addSelf", "followSelf"})
       /\ "entry" \notin Registered
  BY DEF Places, Commands, Registered, ToFollower
<1> HIDE DEF l
<1> QED
  BY <1>1, <1>4, <1>5, <1>9, <1>10, MoveKept

(* The thread goes on with an iteration: to the next follower, or to what it   *)
(* has to do for the one it is at, and leaves that one when the tweet is with  *)
(* it or it does not follow.                                                 *)
LEMMA IterationGoesOn ==
  ASSUME IInv, NEW t \in Threads, Delivering(t),
         UNCHANGED <<scenario, task, relation>>, local'[t] = local[t], Turn(t), Delivering(t)',
         \A r \in Users : Got(r) \subseteq Got(r)',
         pc'[t] = "next" => ~AtEnd(t),
         pc[t] \in ToFollower =>
            pc'[t] \in ToFollower \/ Tweet(t) \in Got(local[t].to)' \/ Current(t) \notin entries[local[t].to]
  PROVE  Iteration(t)'
<1>1. Iteration(t) /\ local[t] \in Locals /\ Current(t) \in Users
  BY IterationFacts
<1>2. PICK k \in Users : k = Current(t) /\ k = Current(t)'
  BY <1>1 DEF Current
<1>3. Tweet(t)' = Tweet(t) /\ UNCHANGED <<entries, followers, modCount>> /\ AtEnd(t)' = AtEnd(t)
  BY <1>2 DEF Tweet, AtEnd, relation
<1>4. ASSUME NEW r \in local[t].due, Undisturbed(t)
      PROVE  Reaches(t, r)' /\ (k \notin entries[r] => \A s \in Threads : task[s] = r => ~Adds(s, k)')
  <2>1. Reaches(t, r) /\ (k \notin entries[r] => \A s \in Threads : task[s] = r => ~Adds(s, k)) /\ r \in Users
    BY <1>1, <1>2, <1>4 DEF Iteration, Locals
  <2>2. Reaches(t, r)'
    BY <1>2, <1>3, <2>1 DEF Reaches
  <2>3. \A s \in Threads : Adds(s, k)' => Adds(s, k)
    <3>1. ASSUME NEW s \in Threads, Adds(s, k)' PROVE Adds(s, k)
      <4>1. s # t
        BY <3>1 DEF Adds, Delivering, ToFollower
      <4>2. pc'[s] = pc[s] /\ local'[s] = local[s] /\ task'[s] = task[s]
        BY <4>1 DEF Turn
      <4> QED
        BY <3>1, <4>2 DEF Adds, Topic
    <3> QED
      BY <3>1
  <2> QED
    BY <2>1, <2>2, <2>3
<1> QED
  BY <1>1, <1>2, <1>3, <1>4 DEF Iteration, Undisturbed

LEMMA IterationMoves ==
  ASSUME IInv, NEW t \in Threads, Delivering(t), NEW p \in ToFollower \cup {"iterate", "next"},
         GoTo(t, p), Still, unread' = unread, UNCHANGED output, passed' = passed,
         p = "next" => ~AtEnd(t) /\ pc[t] = "iterate", p \in ToFollower => pc[t] \in ToFollower,
         p = "iterate" => Current(t) \notin entries[local[t].to]
  PROVE  IInv'
<1>1. pc[t] \notin {"idle", "enter", "run"} /\ local[t] \in Locals
  BY IterationFacts DEF Delivering, ToFollower
<1>2. /\ p \in Places \ (Commands \cup {"idle", "enter", "addTopic", "addSelf", "followSelf"})
      /\ p \notin Registered \cup {"run", "topic", "removeUser", "compare", "removeAt"}
  BY DEF Places, Commands, Registered, ToFollower
<1>3. Continue(t, p, local[t])
  BY <1>2 DEF GoTo
<1>4. PoolTypes' /\ Turn(t) /\ pc'[t] = p /\ local'[t] = local[t] /\ task' = task
  BY <1>1, <1>2, <1>3, ContinueTurn DEF IInv, Types
<1>5. (\A r \in Users : Got(r) \subseteq Got(r)') /\ UNCHANGED relation /\ scenario' = scenario
  BY DEF Got, output, Still, queues, channelVars
<1>6. Iteration(t)'
  BY <1>4, <1>5, IterationGoesOn DEF Delivering, ToFollower
<1>7. p \in ToFollower => local[t].to \in users
  BY <1>1, PlaceFacts DEF AtFrame
<1> QED
  BY <1>1, <1>2, <1>3, <1>6, <1>7, MoveKept

LEMMA DeliveryMoves ==
  ASSUME IInv, NEW t \in Threads, HasNext(t) \/ FindEntry(t) \/ AskOnline(t), scenario' = scenario
  PROVE  IInv'
<1>1. Still /\ unread' = unread /\ UNCHANGED output /\ passed' = passed /\ Delivering(t)
  BY DEF HasNext, FindEntry, AskOnline, At, Still, Delivering, ToFollower
<1>2. \E p \in ToFollower \cup {"iterate", "next"} :
        /\ GoTo(t, p)
        /\ p = "next" => ~AtEnd(t) /\ pc[t] = "iterate"
        /\ p \in ToFollower => pc[t] \in ToFollower
        /\ p = "iterate" => Current(t) \notin entries[local[t].to]
  BY DEF HasNext, FindEntry, AskOnline, At, ToFollower
<1> QED
  BY <1>1, <1>2, IterationMoves

LEMMA DirectStep ==
  ASSUME IInv, NEW t \in Threads, Direct(t), scenario' = scenario
  PROVE  IInv'
<1>1. /\ pc[t] = "direct" /\ Still /\ unread' = unread /\ UNCHANGED output /\ passed' = passed /\ Delivering(t)
  BY DEF Direct, At, Still, Delivering, ToFollower
<1>2. CASE handler[local[t].to]
  BY <1>1, <1>2, IterationMoves DEF Direct, ToFollower
<1>3. CASE ~handler[local[t].to]
  BY <1>1, <1>3, ThrowKept DEF Direct
<1> QED
  BY <1>2, <1>3

LEMMA DeliverStep ==
  ASSUME IInv, NEW t \in Threads, Deliver(t), scenario' = scenario
  PROVE  IInv'
<1>0. PICK r, m : r = local[t].to /\ m = Tweet(t)
  OBVIOUS
<1>1. /\ pc[t] = "deliver" /\ Still /\ unread' = unread /\ passed' = passed /\ received' = received
      /\ UNCHANGED relation /\ AddOutData(t, r, m, "iterate") /\ out' = [out EXCEPT ![r] = Append(@, m)]
  BY <1>0 DEF Deliver, AddOutData, At, Still, queues, channelVars
<1>2. /\ m \in Messages /\ r \in users /\ r \in Users /\ AtFrame(t) /\ Delivering(t)
      /\ local[t].frame \in Frames(task[t])
  BY <1>0, <1>1, IterationFacts, PlaceFacts DEF Delivering, ToFollower, Messages, AtFrame, IInv, Types, SessionTypes
<1>3. out' \in [Users -> Seq(Messages)] /\ (\A v \in Users : Got(v) \subseteq Got(v)') /\ m \in Got(r)'
  BY <1>1, <1>2, Sent DEF IInv, Types
<1>4. /\ interest' \in [Users -> BOOLEAN] /\ PoolTypes' /\ Turn(t) /\ pc'[t] \in {"iterate", "idle"}
      /\ pc'[t] = "iterate" => task' = task /\ local'[t] = local[t]
  BY <1>1, <1>2, AddOutTurn DEF IInv, Types, Places
<1>5. Delivering(t)' => Iteration(t)'
  <2>1. SUFFICES ASSUME Delivering(t)' PROVE Iteration(t)'
    OBVIOUS
  <2>2. pc'[t] = "iterate"
    BY <1>4, <2>1 DEF Delivering, ToFollower
  <2> QED
    BY <1>0, <1>1, <1>2, <1>3, <1>4, <2>1, <2>2, IterationGoesOn DEF Still
<1>6. AtFrame(t)'
  BY <1>1, <1>2, <1>4 DEF AtFrame, Frames, Commands, Registered, ToFollower, Still, session
<1> QED
  BY <1>1, <1>3, <1>4, <1>5, <1>6, StillKept

LEMMA StoreStep ==
  ASSUME IInv, NEW t \in Threads, Store(t), scenario' = scenario
  PROVE  IInv'
<1>0. PICK r, m : r = local[t].to /\ m = Tweet(t)
  OBVIOUS
<1>1. /\ pc[t] = "store" /\ GoTo(t, "iterate") /\ unread' = [unread EXCEPT ![r] = Append(@, m)]
      /\ UNCHANGED <<scenario, queues, output, session, relation, passed>> /\ received' = received /\ out' = out
  BY <1>0 DEF Store, At, queues, channelVars, output
<1>2. /\ m \in Tweets /\ r \in users /\ r \in Users /\ Delivering(t)
      /\ local[t].frame \in Frames(task[t])
  BY <1>0, <1>1, IterationFacts, PlaceFacts DEF Delivering, ToFollower, AtFrame, IInv, Types, SessionTypes
<1>3. /\ unread[r] \in Seq(Tweets) /\ unread'[r] = Append(unread[r], m)
      /\ \A v \in Users \ {r} : unread'[v] = unread[v]
  BY <1>1, <1>2 DEF IInv, Types, MessageTypes
<1>4. (\A v \in Users : Got(v) \subseteq Got(v)') /\ m \in Got(r)'
  <2>1. ToSet(unread'[r]) = ToSet(unread[r]) \cup {m}
    BY <1>2, <1>3, AppendSet
  <2> QED
    BY <1>1, <1>3, <2>1 DEF Got
<1>5. MessageTypes'
  BY <1>1, <1>2, <1>3 DEF IInv, Types, MessageTypes, session
<1>6. PoolTypes' /\ Turn(t) /\ pc'[t] = "iterate" /\ task' = task /\ local'[t] = local[t]
  BY <1>1, GoToTurn DEF IInv, Types, Places
<1>7. QueueTypes' /\ SessionTypes' /\ RelationTypes'
  BY <1>1 DEF IInv, Types, QueueTypes, SessionTypes, RelationTypes, queues, channelVars, output, session, relation, Frames
<1>8. Grows(t)
  BY <1>1, <1>4, <1>6 DEF Grows, session, relation, Adds, IInv, Types, RelationTypes
<1>9. AtFrame(t)'
  BY <1>1, <1>2, <1>6 DEF AtFrame, Frames, Commands, Registered, ToFollower, session
<1>10. Iteration(t)'
  BY <1>0, <1>1, <1>2, <1>4, <1>6, IterationGoesOn DEF Delivering
<1> QED
  BY <1>1, <1>5, <1>6, <1>7, <1>8, <1>9, <1>10, StepKept DEF Types

-----------------------------------------------------------------------------
(* The selector thread and the pool around the protocol. *)
LEMMA Quiet ==
  ASSUME IInv, UNCHANGED <<scenario, session, relation, passed, local>>, QueueTypes', PoolTypes',
         unread' = unread, MessageTypes', OneTask', \A r \in Users : Got(r) \subseteq Got(r)',
         \A t \in Threads : \/ pc'[t] = pc[t] /\ task'[t] = task[t]
                            \/ pc[t] \in {"idle", "enter", "run"} /\ pc'[t] \in {"idle", "enter", "run"}
  PROVE  IInv'
<1>1. Types'
  BY DEF IInv, Types, SessionTypes, RelationTypes, session, relation
<1>2. \A t \in Threads : AtFrame(t)'
  BY DEF IInv, Control, AtFrame, Frames, Command, Topic, session, relation
<1>3. Iterations'
  <2>1. ASSUME NEW t \in Threads, Delivering(t)' PROVE Iteration(t)'
    <3>1. pc'[t] = pc[t] /\ task'[t] = task[t] /\ Iteration(t) /\ Delivering(t)
      BY <2>1 DEF Delivering, ToFollower, IInv, Iterations
    <3>2. PICK k \in Users : k = Current(t) /\ k = Current(t)'
      BY <3>1, IterationFacts DEF Current
    <3>3. Tweet(t)' = Tweet(t) /\ UNCHANGED <<entries, followers, modCount>> /\ local[t].due \subseteq Users
      BY <3>1, <3>2, IterationFacts DEF Tweet, relation, Locals
    <3>4. \A s \in Threads : Adds(s, k)' => Adds(s, k) /\ task'[s] = task[s]
      BY DEF Adds, Topic
    <3>5. ASSUME NEW r \in local[t].due, Reaches(t, r) PROVE Reaches(t, r)'
      BY <3>1, <3>2, <3>3, <3>5 DEF Reaches
    <3> QED
      BY <3>1, <3>2, <3>3, <3>4, <3>5 DEF Iteration, Undisturbed, AtEnd
  <2> QED
    BY <2>1 DEF Iterations
<1>4. Passes'
  BY DEF IInv, Passes
<1> QED
  BY <1>1, <1>2, <1>3, <1>4 DEF IInv, Control

LEMMA ReadStep ==
  ASSUME IInv, NEW u \in Users, Read(u), Keep
  PROVE  IInv'
<1>1. PICK n \in 1..Len(input[u]) :
        /\ buffers' = [buffers EXCEPT ![u] = @ \o SubSeq(input[u], 1, n)]
        /\ input' = [input EXCEPT ![u] = SubSeq(@, n + 1, Len(@))]
  BY DEF Read
<1>2. /\ input[u] # <<>> /\ executor' = Append(executor, u)
      /\ UNCHANGED <<open, interest, out, received, poolVars>> /\ Keep
  BY DEF Read
<1> DEFINE b == buffers[u] \o SubSeq(input[u], 1, n)
<1> DEFINE i == SubSeq(input[u], n + 1, Len(input[u]))
<1>3. \A S : \A x, y \in Seq(S) : \A j \in 1..Len(y) :
        x \o SubSeq(y, 1, j) \in Seq(S) /\ SubSeq(y, j + 1, Len(y)) \in Seq(S)
  OBVIOUS
<1>4. b \in Seq(Nat) /\ i \in Seq(Nat) /\ b \in Seq(Frames(u)) /\ i \in Seq(Frames(u))
  BY <1>3 DEF IInv, Types, QueueTypes
<1>5. buffers' = [buffers EXCEPT ![u] = b] /\ input' = [input EXCEPT ![u] = i]
  BY <1>1
<1> HIDE DEF b, i
<1>6. QueueTypes'
  <2>1. input' \in [Users -> Seq(Nat)] /\ buffers' \in [Users -> Seq(Nat)]
    BY <1>4, <1>5 DEF IInv, Types, QueueTypes
  <2>2. \A v \in Users : input'[v] \in Seq(Frames(v)) /\ buffers'[v] \in Seq(Frames(v))
    BY <1>4, <1>5 DEF IInv, Types, QueueTypes
  <2>3. Append(executor, u) \in Seq(Users)
    BY DEF IInv, Types, QueueTypes
  <2> QED
    BY <1>2, <2>1, <2>2, <2>3 DEF IInv, Types, QueueTypes, Keep, Frames
<1>7. PoolTypes' /\ MessageTypes' /\ OneTask' /\ \A r \in Users : Got(r) \subseteq Got(r)'
  BY <1>2 DEF IInv, Types, PoolTypes, MessageTypes, Control, OneTask, Keep, poolVars, session, Got
<1> QED
  BY <1>2, <1>6, <1>7, Quiet DEF Keep, poolVars

LEMMA ReadEndStep ==
  ASSUME IInv, NEW u \in Users, ReadEnd(u), Keep
  PROVE  IInv'
<1>1. open' = [open EXCEPT ![u] = FALSE] /\ UNCHANGED <<input, buffers, executor, interest, out, received, poolVars>> /\ Keep
  BY DEF ReadEnd
<1>2. QueueTypes' /\ PoolTypes' /\ MessageTypes' /\ OneTask'
  BY <1>1 DEF IInv, Types, QueueTypes, PoolTypes, MessageTypes, Control, OneTask, Keep, poolVars, session, Frames
<1>3. \A r \in Users : Got(r) \subseteq Got(r)'
  BY <1>1 DEF Got, Keep
<1> QED
  BY <1>1, <1>2, <1>3, Quiet DEF Keep, poolVars

LEMMA WriteStep ==
  ASSUME IInv, NEW u \in Users, Write(u), Keep
  PROVE  IInv'
<1>1. UNCHANGED <<input, buffers, executor, open, poolVars>> /\ Keep
  BY DEF Write
<1>2. /\ interest' \in [Users -> BOOLEAN] /\ out' \in [Users -> Seq(Messages)] /\ received' \in [Users -> Seq(Messages)]
      /\ \A r \in Users : Got(r) \subseteq Got(r)'
  <2>1. CASE out[u] = <<>>
    BY <1>1, <2>1 DEF Write, IInv, Types, QueueTypes, MessageTypes, Got, Keep
  <2>2. CASE out[u] # <<>>
    <3>1. PICK m : m = Head(out[u])
      OBVIOUS
    <3>2. /\ received' = [received EXCEPT ![u] = Append(@, m)] /\ out' = [out EXCEPT ![u] = Tail(@)]
          /\ interest' = interest /\ unread' = unread
      BY <2>2, <3>1, <1>1 DEF Write, Keep
    <3>3. /\ m \in Messages /\ Tail(out[u]) \in Seq(Messages) /\ received[u] \in Seq(Messages)
          /\ out[u] \in Seq(Messages)
      <4>1. \A s \in Seq(Messages) : s # <<>> => Head(s) \in Messages /\ Tail(s) \in Seq(Messages)
        OBVIOUS
      <4> QED
        BY <2>2, <3>1, <4>1 DEF IInv, Types, MessageTypes
    <3>4. ToSet(Append(received[u], m)) = ToSet(received[u]) \cup {m} /\ ToSet(out[u]) = ToSet(Tail(out[u])) \cup {m}
      BY <2>2, <3>1, <3>3, AppendSet, TailSet
    <3>5. /\ received' \in [Users -> Seq(Messages)] /\ out' \in [Users -> Seq(Messages)]
          /\ received'[u] = Append(received[u], m) /\ out'[u] = Tail(out[u])
          /\ \A r \in Users \ {u} : received'[r] = received[r] /\ out'[r] = out[r]
      BY <3>2, <3>3 DEF IInv, Types, MessageTypes
    <3>6. \A r \in Users : Got(r) \subseteq Got(r)'
      BY <3>2, <3>4, <3>5 DEF Got
    <3> QED
      BY <3>2, <3>5, <3>6 DEF IInv, Types, QueueTypes
  <2> QED
    BY <2>1, <2>2
<1>3. QueueTypes' /\ PoolTypes' /\ MessageTypes' /\ OneTask'
  BY <1>1, <1>2 DEF IInv, Types, QueueTypes, PoolTypes, MessageTypes, Control, OneTask, Keep, poolVars, session, Frames
<1> QED
  BY <1>1, <1>2, <1>3, Quiet DEF Keep, poolVars

LEMMA PoolStepKept ==
  ASSUME IInv, NEW t \in Threads, TakeTask(t) \/ Enter(t) \/ RunEnd(t), Keep
  PROVE  IInv'
<1>1. /\ UNCHANGED <<channelVars, interest, out>> /\ Keep
      /\ pc[t] \in {"idle", "enter", "run"} /\ executor' \in Seq(Users)
  <2>1. \A s \in Seq(Users) : s # <<>> => Tail(s) \in Seq(Users)
    OBVIOUS
  <2> QED
    BY <2>1 DEF TakeTask, Enter, RunEnd, IInv, Types, QueueTypes
<1>2. /\ PoolTypes' /\ pc'[t] \in {"idle", "enter", "run"}
      /\ \A s \in Threads \ {t} : pc'[s] = pc[s] /\ task'[s] = task[s]
  <2>1. \A s \in Seq(Users) : s # <<>> => Head(s) \in Users
    OBVIOUS
  <2> QED
    BY <2>1 DEF TakeTask, Enter, RunEnd, Keep, Places, IInv, Types, PoolTypes, QueueTypes
<1>3. OneTask'
  <2>1. CASE TakeTask(t)
    <3>1. Head(executor) \in Users
      <4>1. \A s \in Seq(Users) : s # <<>> => Head(s) \in Users
        OBVIOUS
      <4> QED
        BY <2>1, <4>1 DEF TakeTask, IInv, Types, QueueTypes
    <3> QED
      BY <2>1, <3>1, ScenariosAssumption DEF TakeTask, IInv, Types, PoolTypes, Control, OneTask
  <2>2. CASE Enter(t)
    BY <2>2 DEF Enter, IInv, Types, PoolTypes, Control, OneTask
  <2>3. CASE RunEnd(t)
    BY <2>3 DEF RunEnd, IInv, Types, PoolTypes, Control, OneTask
  <2> QED
    BY <2>1, <2>2, <2>3
<1>4. QueueTypes' /\ MessageTypes'
  BY <1>1 DEF IInv, Types, QueueTypes, MessageTypes, Keep, channelVars, session, Frames
<1>5. \A r \in Users : Got(r) \subseteq Got(r)'
  BY <1>1 DEF Got, Keep, channelVars
<1>6. \A s \in Threads : \/ pc'[s] = pc[s] /\ task'[s] = task[s]
                         \/ pc[s] \in {"idle", "enter", "run"} /\ pc'[s] \in {"idle", "enter", "run"}
  BY <1>1, <1>2
<1> QED
  BY <1>1, <1>2, <1>3, <1>4, <1>5, <1>6, Quiet DEF Keep

LEMMA ProtocolStep ==
  ASSUME IInv, NEW t \in Threads, Protocol(t), scenario' = scenario
  PROVE  IInv'
BY NextMessageStep, RegisterStep, LogInAgainStep, NewTopicStep, AddSelfStep, FollowSelfStep, SessionSteps,
   SendUnreadStep, AnswersStep, ThrowsStep, SubscribeStep, AddTopicStep, UnsubscribeStep, RemoveScanStep,
   RemoveCompareStep, RemoveUserStep, SendStep, NextTopicStep, IterateEndStep, IterateStep,
   DeliveryMoves, DirectStep, DeliverStep, StoreStep DEF Protocol

LEMMA InitIInv == Init => IInv
<1> SUFFICES ASSUME Init PROVE IInv
  OBVIOUS
<1>1. scenario \in Scenarios /\ \A u \in Users : Len(scenario.script[u]) \in Nat
  BY ScenariosAssumption DEF Init
<1>2. \A u \in Users : input[u] = [i \in 1..Len(scenario.script[u]) |-> i]
  BY DEF Init, ReactorInit
<1>3. \A n \in Nat : [i \in 1..n |-> i] \in Seq(Nat) /\ [i \in 1..n |-> i] \in Seq(1..n)
  OBVIOUS
<1>4. /\ input \in [Users -> Seq(Nat)] /\ buffers \in [Users -> Seq(Nat)]
      /\ \A u \in Users : input[u] \in Seq(Frames(u)) /\ buffers[u] \in Seq(Frames(u))
  BY <1>1, <1>2, <1>3 DEF Init, ReactorInit, Frames
<1>5. QueueTypes
  BY <1>1, <1>4 DEF Init, ReactorInit, QueueTypes
<1>6. PoolTypes
  BY FreshIsLocal DEF Init, ReactorInit, PoolTypes, Places
<1>7. MessageTypes /\ SessionTypes /\ RelationTypes
  BY DEF Init, ReactorInit, MessageTypes, SessionTypes, RelationTypes
<1>8. OneTask /\ Iterations /\ Passes /\ \A t \in Threads : AtFrame(t)
  BY DEF Init, ReactorInit, OneTask, Iterations, Delivering, ToFollower, Passes, AtFrame
<1> QED
  BY <1>5, <1>6, <1>7, <1>8 DEF IInv, Types, Control

LEMMA NextIInv == IInv /\ [Next]_vars => IInv'
<1> SUFFICES ASSUME IInv, [Next]_vars PROVE IInv'
  OBVIOUS
<1>1. ASSUME NEW u \in Users, SelectorStep(u) PROVE IInv'
  BY <1>1, ReadStep, WriteStep DEF SelectorStep
<1>2. ASSUME NEW t \in Threads, PoolStep(t) PROVE IInv'
  BY <1>2, ProtocolStep, PoolStepKept DEF PoolStep
<1>3. ASSUME NEW u \in Users, Broken(u) PROVE IInv'
  BY <1>3, ReadEndStep DEF Broken
<1>4. CASE UNCHANGED vars
  <2>1. Keep /\ UNCHANGED <<queues, output, poolVars>>
    BY <1>4 DEF vars, Keep
  <2>2. QueueTypes' /\ PoolTypes' /\ MessageTypes' /\ OneTask'
    BY <2>1 DEF IInv, Types, QueueTypes, PoolTypes, MessageTypes, Control, OneTask, Keep, queues, channelVars,
                output, poolVars, session, Frames
  <2>3. \A r \in Users : Got(r) \subseteq Got(r)'
    BY <2>1 DEF Got, Keep, queues, channelVars, output
  <2> QED
    BY <2>1, <2>2, <2>3, Quiet DEF Keep, poolVars
<1> QED
  BY <1>1, <1>2, <1>3, <1>4 DEF Next, Work

LEMMA IInvAlways == Spec => []IInv
BY InitIInv, NextIInv, PTL DEF Spec

(* The tables of the server keep their types, only registered users have      *)
(* topics, sessions or messages, and the tasks of a connection run one at a   *)
(* time, whatever the clients send and however the pool schedules them.       *)
THEOREM TweeterTypeCorrect == Spec => []TypeOK
<1>1. IInv => TypeOK
  <2>1. Types => \A u \in Users : followers[u] \in Seq(users) /\ unread[u] \in Seq(Tweets)
    BY DEF Types, RelationTypes, MessageTypes
  <2> QED
    BY <2>1 DEF IInv, Types, SessionTypes, RelationTypes, MessageTypes, Control, OneTask, TypeOK, Messages
<1> QED
  BY <1>1, IInvAlways, PTL

(* A tweet whose iteration over the followers of a topic was not disturbed    *)
(* has reached each of them or waits for its login, for any number of users   *)
(* and threads (TopicsDatabase.addMessageToTopic, User.sendMessage).          *)
THEOREM TweeterNoTweetLost == Spec => []NoTweetLost
<1>1. IInv => NoTweetLost
  <2> SUFFICES ASSUME IInv, NEW p \in passed
               PROVE  p[1] \in ToSet(received[p[2]] \o out[p[2]] \o unread[p[2]])
    BY DEF NoTweetLost
  <2>1. p[2] \in Users /\ p[1] \in Got(p[2])
    BY DEF IInv, Passes
  <2> QED
    BY <2>1, GotIs DEF IInv, Types
<1> QED
  BY <1>1, IInvAlways, PTL

-----------------------------------------------------------------------------
(* The frames of a user that are still to be handled, what its client has or  *)
(* will get, and the answers in it.                                          *)
Stream(u) == buffers[u] \o input[u]
Outcome(u) == received[u] \o out[u]
Rising(s) == \A i, j \in 1..Len(s) : i < j => s[i] < s[j]
AnswersRise(m) ==
  \A i, j \in 1..Len(m) : i < j /\ m[i][1] = "reply" /\ m[j][1] = "reply" => m[i][2] <= m[j][2]
AnswersUpTo(m, n) == \A i \in 1..Len(m) : m[i][1] = "reply" => m[i][2] <= n

(* No answer so far is to a frame after one to come, and the frame of a       *)
(* thread that may still answer it is between them.                          *)
UserOrder(u) ==
  /\ Rising(Stream(u)) /\ AnswersRise(Outcome(u))
  /\ \A j \in 1..Len(Stream(u)) : AnswersUpTo(Outcome(u), Stream(u)[j])
Answering(t) == pc[t] \notin {"idle", "enter", "run", "unread"}
ThreadOrder(t) ==
  Answering(t) =>
    /\ \A j \in 1..Len(Stream(task[t])) : local[t].frame < Stream(task[t])[j]
    /\ AnswersUpTo(Outcome(task[t]), local[t].frame)
OrderInv == (\A u \in Users : UserOrder(u)) /\ \A t \in Threads : ThreadOrder(t)

LEMMA FirstMoves ==
  ASSUME NEW S, NEW r \in Seq(S), NEW s \in Seq(S), s # <<>>
  PROVE  Append(r, Head(s)) \o Tail(s) = r \o s
<1> DEFINE a == Append(r, Head(s))
           b == Tail(s)
<1>1. /\ a \in Seq(S) /\ b \in Seq(S) /\ Len(a) = Len(r) + 1 /\ Len(b) = Len(s) - 1
      /\ Len(r) \in Nat /\ Len(s) \in Nat \ {0} /\ a[Len(r) + 1] = s[1]
      /\ (\A i \in 1..Len(r) : a[i] = r[i]) /\ \A i \in 1..(Len(s) - 1) : b[i] = s[i + 1]
  OBVIOUS
<1> HIDE DEF a, b
<1>2. /\ a \o b \in Seq(S) /\ Len(a \o b) = Len(a) + Len(b)
      /\ \A i \in 1..(Len(a) + Len(b)) : (a \o b)[i] = IF i <= Len(a) THEN a[i] ELSE b[i - Len(a)]
      /\ r \o s \in Seq(S) /\ Len(r \o s) = Len(r) + Len(s)
      /\ \A i \in 1..(Len(r) + Len(s)) : (r \o s)[i] = IF i <= Len(r) THEN r[i] ELSE s[i - Len(r)]
  BY <1>1, ConcatProperties
<1>3. ASSUME NEW i \in 1..(Len(r) + Len(s)) PROVE (a \o b)[i] = (r \o s)[i]
  <2>1. CASE i <= Len(r)
    BY <1>1, <1>2, <2>1
  <2>2. CASE i = Len(r) + 1
    BY <1>1, <1>2, <2>2
  <2>3. CASE i > Len(r) + 1
    <3>1. i - Len(a) \in 1..(Len(s) - 1) /\ (i - Len(a)) + 1 = i - Len(r)
      BY <1>1, <2>3
    <3>2. b[i - Len(a)] = s[i - Len(r)]
      BY <1>1, <3>1
    <3> QED
      BY <1>1, <1>2, <2>3, <3>2
  <2> QED
    BY <1>1, <2>1, <2>2, <2>3
<1>4. a \o b = r \o s
  <2>1. Len(a \o b) = Len(r \o s) /\ \A i \in 1..Len(a \o b) : (a \o b)[i] = (r \o s)[i]
    BY <1>1, <1>2, <1>3
  <2> QED
    BY <1>2, <2>1, SeqEqual
<1> QED
  BY <1>4 DEF a, b

LEMMA ConcatGroups ==
  ASSUME NEW S, NEW b \in Seq(S), NEW x \in Seq(S), NEW y \in Seq(S)
  PROVE  (b \o x) \o y = b \o (x \o y)
BY ConcatAssociative

LEMMA SomeMove ==
  ASSUME NEW S
  PROVE  \A b, s, n : b \in Seq(S) /\ s \in Seq(S) /\ n \in 1..Len(s)
            => (b \o SubSeq(s, 1, n)) \o SubSeq(s, n + 1, Len(s)) = b \o s
<1> TAKE b, s, n
<1> DEFINE x == SubSeq(s, 1, n)
           y == SubSeq(s, n + 1, Len(s))
<1>1. s \in Seq(S) /\ n \in 1..Len(s) => x \in Seq(S) /\ y \in Seq(S)
  OBVIOUS
<1>2. s \in Seq(S) /\ n \in 1..Len(s) => x \o y = s
  BY ConcatAdjacentSubSeq, SubSeqFull
<1> HIDE DEF x, y
<1>3. b \in Seq(S) /\ x \in Seq(S) /\ y \in Seq(S) => (b \o x) \o y = b \o (x \o y)
  BY ConcatGroups
<1> QED
  BY <1>1, <1>2, <1>3, Zenon DEF x, y

LEMMA SomeFramesMove ==
  \A b, s, n : b \in Seq(Nat) /\ s \in Seq(Nat) /\ n \in 1..Len(s)
     => (b \o SubSeq(s, 1, n)) \o SubSeq(s, n + 1, Len(s)) = b \o s
BY SomeMove, Zenon

(* The first frame is taken from what is read, or from what is to be read. *)
LEMMA StreamTail ==
  ASSUME NEW S, NEW b \in Seq(S), NEW s \in Seq(S), b # <<>>
  PROVE  /\ b \o s \in Seq(S) /\ Len(b \o s) \in Nat \ {0} /\ Len(Tail(b) \o s) = Len(b \o s) - 1
         /\ Head(b) = (b \o s)[1]
         /\ \A i \in 1..(Len(b \o s) - 1) : (Tail(b) \o s)[i] = (b \o s)[i + 1]
<1>1. /\ Len(b) \in Nat \ {0} /\ Len(s) \in Nat /\ Tail(b) \in Seq(S) /\ Len(Tail(b)) = Len(b) - 1
      /\ Head(b) = b[1] /\ \A i \in 1..(Len(b) - 1) : Tail(b)[i] = b[i + 1]
  OBVIOUS
<1>2. /\ b \o s \in Seq(S) /\ Len(b \o s) = Len(b) + Len(s)
      /\ \A i \in 1..(Len(b) + Len(s)) : (b \o s)[i] = IF i <= Len(b) THEN b[i] ELSE s[i - Len(b)]
      /\ Len(Tail(b) \o s) = Len(b) - 1 + Len(s)
      /\ \A i \in 1..(Len(b) - 1 + Len(s)) :
            (Tail(b) \o s)[i] = IF i <= Len(b) - 1 THEN Tail(b)[i] ELSE s[i - (Len(b) - 1)]
  BY <1>1, ConcatProperties
<1>3. ASSUME NEW i \in 1..(Len(b) + Len(s) - 1) PROVE (Tail(b) \o s)[i] = (b \o s)[i + 1]
  BY <1>1, <1>2
<1> QED
  BY <1>1, <1>2, <1>3

LEMMA OutcomeGrows ==
  ASSUME NEW S, NEW r \in Seq(S), NEW s \in Seq(S), NEW m \in S
  PROVE  /\ Len(r \o s) \in Nat /\ Len(r \o Append(s, m)) = Len(r \o s) + 1
         /\ (r \o Append(s, m))[Len(r \o s) + 1] = m
         /\ \A i \in 1..Len(r \o s) : (r \o Append(s, m))[i] = (r \o s)[i]
<1>1. r \o s \in Seq(S) /\ Append(s, m) = s \o <<m>> /\ <<m>> \in Seq(S)
  BY ConcatProperties
<1>2. r \o Append(s, m) = (r \o s) \o <<m>>
  BY <1>1, ConcatAssociative
<1>3. (r \o s) \o <<m>> = Append(r \o s, m)
  BY <1>1
<1> QED
  BY <1>1, <1>2, <1>3

LEMMA StreamTypes ==
  ASSUME IInv, NEW u \in Users
  PROVE  /\ buffers[u] \in Seq(Nat) /\ input[u] \in Seq(Nat)
         /\ received[u] \in Seq(Messages) /\ out[u] \in Seq(Messages)
BY DEF IInv, Types, QueueTypes, MessageTypes

(* No answer is added and no frame taken. *)
LEMMA OrderKept ==
  ASSUME IInv, OrderInv, \A u \in Users : Stream(u)' = Stream(u) /\ Outcome(u)' = Outcome(u),
         \A t \in Threads : Answering(t)' => /\ Answering(t) /\ task'[t] = task[t]
                                             /\ local'[t].frame = local[t].frame
  PROVE  OrderInv'
<1>1. ASSUME NEW u \in Users PROVE UserOrder(u)'
  BY DEF OrderInv, UserOrder, Rising, AnswersRise, AnswersUpTo
<1>2. ASSUME NEW t \in Threads PROVE ThreadOrder(t)'
  <2> SUFFICES ASSUME Answering(t)' PROVE ThreadOrder(t)'
    BY DEF ThreadOrder
  <2>1. Answering(t) /\ task'[t] = task[t] /\ local'[t].frame = local[t].frame /\ task[t] \in Users
    BY PlaceFacts DEF Answering
  <2>2. PICK u \in Users : u = task[t]
    BY <2>1
  <2>3. Stream(u)' = Stream(u) /\ Outcome(u)' = Outcome(u) /\ Stream(task[t])' = Stream(u)' /\ Outcome(task[t])' = Outcome(u)'
    BY <2>1, <2>2 DEF Stream, Outcome
  <2> QED
    BY <2>1, <2>2, <2>3 DEF OrderInv, ThreadOrder, AnswersUpTo
<1> QED
  BY <1>1, <1>2 DEF OrderInv

LEMMA SilentOthers ==
  ASSUME IInv, NEW t \in Threads, Answering(t), NEW s \in Threads \ {t}, task[s] = task[t]
  PROVE  ~Answering(s)
BY DEF IInv, Control, OneTask, Answering

(* A thread answers its frame, and is done with it or may answer it again. *)
LEMMA AnswerOrder ==
  ASSUME IInv, OrderInv, NEW t \in Threads, Answering(t),
         Answering(t)' => task'[t] = task[t] /\ local'[t] = local[t],
         out' = [out EXCEPT ![task[t]] = Append(@, <<"reply", local[t].frame>>)],
         UNCHANGED <<received, buffers, input>>,
         \A s \in Threads \ {t} : pc'[s] = pc[s] /\ task'[s] = task[s] /\ local'[s] = local[s]
  PROVE  OrderInv'
<1>1. PICK u \in Users : u = task[t]
  BY PlaceFacts DEF Answering
<1>2. PICK n : n = local[t].frame
  OBVIOUS
<1>3. /\ received[u] \in Seq(Messages) /\ out[u] \in Seq(Messages) /\ <<"reply", n>> \in Messages
      /\ out'[u] = Append(out[u], <<"reply", n>>) /\ \A v \in Users \ {u} : out'[v] = out[v]
  BY <1>1, <1>2, StreamTypes, PlaceFacts DEF Answering, Locals, Messages, Replies, IInv, Types, MessageTypes
<1>4. /\ Len(Outcome(u)) \in Nat /\ Len(Outcome(u)') = Len(Outcome(u)) + 1
      /\ Outcome(u)'[Len(Outcome(u)) + 1] = <<"reply", n>>
      /\ \A i \in 1..Len(Outcome(u)) : Outcome(u)'[i] = Outcome(u)[i]
  <2>1. PICK r \in Seq(Messages), s \in Seq(Messages), m \in Messages :
           /\ m = <<"reply", n>> /\ Outcome(u) = r \o s /\ Outcome(u)' = r \o Append(s, m)
    BY <1>3 DEF Outcome
  <2>2. /\ Len(r \o s) \in Nat /\ Len(r \o Append(s, m)) = Len(r \o s) + 1
        /\ (r \o Append(s, m))[Len(r \o s) + 1] = m
        /\ \A i \in 1..Len(r \o s) : (r \o Append(s, m))[i] = (r \o s)[i]
    BY OutcomeGrows
  <2> QED
    BY <2>1, <2>2, Zenon
<1>5. \A v \in Users : Stream(v)' = Stream(v) /\ (v # u => Outcome(v)' = Outcome(v))
  BY <1>3 DEF Stream, Outcome
<1>6. UserOrder(u) /\ AnswersUpTo(Outcome(u), n) /\ \A j \in 1..Len(Stream(u)) : n < Stream(u)[j]
  BY <1>1, <1>2 DEF OrderInv, ThreadOrder
<1>7. AnswersRise(Outcome(u)')
  BY <1>4, <1>6 DEF UserOrder, AnswersRise, AnswersUpTo
<1>8. n \in Nat /\ AnswersUpTo(Outcome(u)', n) /\ \A j \in 1..Len(Stream(u)) : AnswersUpTo(Outcome(u)', Stream(u)[j])
  <2>1. n \in Nat /\ <<"reply", n>>[2] = n
    BY <1>2, PlaceFacts DEF Answering, Locals
  <2>2. AnswersUpTo(Outcome(u)', n)
    BY <1>4, <1>6, <2>1 DEF AnswersUpTo
  <2>3. ASSUME NEW j \in 1..Len(Stream(u)) PROVE AnswersUpTo(Outcome(u)', Stream(u)[j])
    <3>1. Stream(u)[j] \in Nat
      <4>1. PICK b \in Seq(Nat), f \in Seq(Nat) : Stream(u) = b \o f
        BY StreamTypes DEF Stream
      <4>2. b \o f \in Seq(Nat)
        OBVIOUS
      <4> QED
        BY <2>3, <4>1, <4>2, ElementOfSeq
    <3>2. n < Stream(u)[j] /\ n <= Stream(u)[j] /\ AnswersUpTo(Outcome(u), Stream(u)[j])
      BY <1>6, <2>1, <3>1 DEF UserOrder
    <3> QED
      BY <1>4, <2>1, <3>1, <3>2 DEF AnswersUpTo
  <2> QED
    BY <2>1, <2>2, <2>3
<1>9. ASSUME NEW v \in Users PROVE UserOrder(v)'
  <2>1. CASE v = u
    BY <1>5, <1>6, <1>7, <1>8, <2>1 DEF UserOrder, Rising, AnswersRise, AnswersUpTo
  <2>2. CASE v # u
    BY <1>5, <2>2 DEF OrderInv, UserOrder, Rising, AnswersRise, AnswersUpTo
  <2> QED
    BY <2>1, <2>2
<1>10. ASSUME NEW s \in Threads, Answering(s)' PROVE ThreadOrder(s)'
  <2>1. CASE s = t
    <3>1. task'[t] = u /\ local'[t].frame = n
      BY <1>1, <1>2, <1>10, <2>1
    <3>2. Stream(task[t])' = Stream(u) /\ Outcome(task[t])' = Outcome(u)'
      BY <1>5, <3>1 DEF Stream, Outcome
    <3> QED
      BY <1>6, <1>8, <2>1, <3>1, <3>2 DEF ThreadOrder, AnswersUpTo
  <2>2. CASE s # t
    <3>1. Answering(s) /\ task'[s] = task[s] /\ local'[s] = local[s] /\ task[s] \in Users /\ task[s] # u
      BY <1>1, <1>10, <2>2, SilentOthers, PlaceFacts DEF Answering
    <3>2. PICK v \in Users : v = task[s]
      BY <3>1
    <3>3. Stream(v)' = Stream(v) /\ Outcome(v)' = Outcome(v) /\ Stream(task[s])' = Stream(v)' /\ Outcome(task[s])' = Outcome(v)'
      BY <1>5, <3>1, <3>2 DEF Stream, Outcome
    <3> QED
      BY <3>1, <3>2, <3>3 DEF OrderInv, ThreadOrder, AnswersUpTo
  <2> QED
    BY <2>1, <2>2
<1> QED
  BY <1>9, <1>10 DEF OrderInv, ThreadOrder

(* A tweet is no answer. *)
LEMMA TweetOrder ==
  ASSUME IInv, OrderInv, NEW c \in Users, NEW m \in Tweets,
         out' = [out EXCEPT ![c] = Append(@, m)], UNCHANGED <<received, buffers, input>>,
         \A t \in Threads : Answering(t)' => /\ Answering(t) /\ task'[t] = task[t]
                                             /\ local'[t].frame = local[t].frame
  PROVE  OrderInv'
<1>1. /\ received[c] \in Seq(Messages) /\ out[c] \in Seq(Messages) /\ m \in Messages /\ m[1] # "reply"
      /\ out'[c] = Append(out[c], m) /\ \A v \in Users \ {c} : out'[v] = out[v]
  BY StreamTypes DEF Messages, Tweets, IInv, Types, MessageTypes
<1>2. /\ Len(Outcome(c)) \in Nat /\ Len(Outcome(c)') = Len(Outcome(c)) + 1
      /\ Outcome(c)'[Len(Outcome(c)) + 1] = m
      /\ \A i \in 1..Len(Outcome(c)) : Outcome(c)'[i] = Outcome(c)[i]
  <2>1. PICK r \in Seq(Messages), s \in Seq(Messages), x \in Messages :
           x = m /\ Outcome(c) = r \o s /\ Outcome(c)' = r \o Append(s, x)
    BY <1>1 DEF Outcome
  <2>2. /\ Len(r \o s) \in Nat /\ Len(r \o Append(s, x)) = Len(r \o s) + 1
        /\ (r \o Append(s, x))[Len(r \o s) + 1] = x
        /\ \A i \in 1..Len(r \o s) : (r \o Append(s, x))[i] = (r \o s)[i]
    BY OutcomeGrows
  <2> QED
    BY <2>1, <2>2, Zenon
<1>3. \A v \in Users : Stream(v)' = Stream(v) /\ (v # c => Outcome(v)' = Outcome(v))
  BY <1>1 DEF Stream, Outcome
<1>4. (AnswersRise(Outcome(c)) => AnswersRise(Outcome(c)'))
      /\ \A n : AnswersUpTo(Outcome(c), n) => AnswersUpTo(Outcome(c)', n)
  <2>1. \A i \in 1..Len(Outcome(c)') : Outcome(c)'[i][1] = "reply" =>
           i \in 1..Len(Outcome(c)) /\ Outcome(c)'[i] = Outcome(c)[i]
    BY <1>1, <1>2
  <2> QED
    BY <2>1 DEF AnswersRise, AnswersUpTo
<1>5. \A v \in Users : (AnswersRise(Outcome(v)) => AnswersRise(Outcome(v)'))
                       /\ \A n : AnswersUpTo(Outcome(v), n) => AnswersUpTo(Outcome(v)', n)
  BY <1>3, <1>4
<1>6. ASSUME NEW v \in Users PROVE UserOrder(v)'
  <2>1. UserOrder(v) /\ Stream(v)' = Stream(v)
    BY <1>3 DEF OrderInv
  <2>2. Rising(Stream(v)') /\ AnswersRise(Outcome(v)')
        /\ \A j \in 1..Len(Stream(v)') : AnswersUpTo(Outcome(v)', Stream(v)'[j])
    BY <1>5, <2>1 DEF UserOrder
  <2> QED
    BY <2>2 DEF UserOrder, Rising, AnswersRise, AnswersUpTo
<1>7. ASSUME NEW s \in Threads, Answering(s)' PROVE ThreadOrder(s)'
  <2>1. Answering(s) /\ task'[s] = task[s] /\ local'[s].frame = local[s].frame /\ task[s] \in Users
    BY <1>7, PlaceFacts DEF Answering
  <2>2. PICK v \in Users : v = task[s]
    BY <2>1
  <2>3. Stream(v)' = Stream(v) /\ Stream(task[s])' = Stream(v)' /\ Outcome(task[s])' = Outcome(v)'
    BY <1>3, <2>1, <2>2 DEF Stream, Outcome
  <2>4. AnswersUpTo(Outcome(v)', local[s].frame) /\ \A j \in 1..Len(Stream(v)) : local[s].frame < Stream(v)[j]
    BY <1>5, <2>1, <2>2 DEF OrderInv, ThreadOrder
  <2> QED
    BY <2>1, <2>3, <2>4 DEF ThreadOrder, AnswersUpTo
<1> QED
  BY <1>6, <1>7 DEF OrderInv, ThreadOrder

(* The steps of a thread: it takes a frame, ... *)
LEMMA NextMessageOrder ==
  ASSUME IInv, OrderInv, NEW t \in Threads, NextMessage(t)
  PROVE  OrderInv'
<1>1. PICK u \in Users : u = task[t]
  BY PlaceFacts DEF NextMessage, At
<1>2. PICK n : n = Head(buffers[u])
  OBVIOUS
<1>3. /\ pc[t] = "run" /\ buffers[u] # <<>> /\ buffers' = [buffers EXCEPT ![u] = Tail(@)]
      /\ Continue(t, scenario.script[u][n].cmd, [Fresh EXCEPT !.frame = n])
      /\ UNCHANGED <<input, received, out>>
  BY <1>1, <1>2 DEF NextMessage, At, output
<1>4. /\ local'[t].frame = n /\ task' = task
      /\ \A s \in Threads \ {t} : pc'[s] = pc[s] /\ local'[s] = local[s]
  BY <1>3 DEF Continue, Fresh, IInv, Types, PoolTypes
<1>5. buffers'[u] = Tail(buffers[u]) /\ \A v \in Users \ {u} : buffers'[v] = buffers[v]
  BY <1>3 DEF IInv, Types, QueueTypes
<1>6. /\ Len(Stream(u)) \in Nat \ {0} /\ Len(Stream(u)') = Len(Stream(u)) - 1 /\ n = Stream(u)[1]
      /\ \A i \in 1..(Len(Stream(u)) - 1) : Stream(u)'[i] = Stream(u)[i + 1]
  <2>1. buffers[u] \in Seq(Nat) /\ input[u] \in Seq(Nat)
    BY StreamTypes
  <2>2. PICK b \in Seq(Nat), s \in Seq(Nat) :
           b # <<>> /\ n = Head(b) /\ Stream(u) = b \o s /\ Stream(u)' = Tail(b) \o s
    BY <1>2, <1>3, <1>5, <2>1 DEF Stream
  <2>3. /\ Len(b \o s) \in Nat \ {0} /\ Len(Tail(b) \o s) = Len(b \o s) - 1 /\ Head(b) = (b \o s)[1]
        /\ \A i \in 1..(Len(b \o s) - 1) : (Tail(b) \o s)[i] = (b \o s)[i + 1]
    BY <2>2, StreamTail
  <2> QED
    BY <2>2, <2>3, Zenon
<1>7. \A v \in Users : Outcome(v)' = Outcome(v) /\ (v # u => Stream(v)' = Stream(v))
  BY <1>3, <1>5 DEF Outcome, Stream
<1>8. UserOrder(u)
  BY DEF OrderInv
<1>9. /\ Rising(Stream(u)') /\ AnswersUpTo(Outcome(u), n)
      /\ \A j \in 1..Len(Stream(u)') : n < Stream(u)'[j] /\ AnswersUpTo(Outcome(u), Stream(u)'[j])
  <2>1. \A j \in 1..Len(Stream(u)') : Stream(u)'[j] = Stream(u)[j + 1] /\ j + 1 \in 1..Len(Stream(u)) /\ 1 < j + 1
    BY <1>6
  <2>2. 1 \in 1..Len(Stream(u)) /\ \A i, j \in 1..Len(Stream(u)') : i < j => i + 1 < j + 1
    BY <1>6
  <2> QED
    BY <1>6, <1>8, <2>1, <2>2 DEF UserOrder, Rising
<1>10. ASSUME NEW v \in Users PROVE UserOrder(v)'
  <2>1. CASE v = u
    BY <1>7, <1>8, <1>9, <2>1 DEF UserOrder, Rising, AnswersRise, AnswersUpTo
  <2>2. CASE v # u
    BY <1>7, <2>2 DEF OrderInv, UserOrder, Rising, AnswersRise, AnswersUpTo
  <2> QED
    BY <2>1, <2>2
<1>11. ASSUME NEW s \in Threads, Answering(s)' PROVE ThreadOrder(s)'
  <2>1. CASE s = t
    <3>1. Stream(task[s])' = Stream(u)' /\ Outcome(task[s])' = Outcome(u)
      BY <1>1, <1>4, <1>7, <2>1 DEF Stream, Outcome
    <3> QED
      BY <1>4, <1>9, <2>1, <3>1 DEF ThreadOrder, AnswersUpTo
  <2>2. CASE s # t
    <3>1. Answering(s) /\ task'[s] = task[s] /\ local'[s] = local[s] /\ task[s] \in Users
      BY <1>4, <1>11, <2>2, PlaceFacts DEF Answering
    <3>2. task[s] # u
      BY <1>1, <1>3, <2>2, <3>1 DEF IInv, Control, OneTask, Answering
    <3>3. PICK v \in Users \ {u} : v = task[s]
      BY <3>1, <3>2
    <3>4. Stream(v)' = Stream(v) /\ Outcome(v)' = Outcome(v) /\ Stream(task[s])' = Stream(v)' /\ Outcome(task[s])' = Outcome(v)'
      BY <1>7, <3>1, <3>3 DEF Stream, Outcome
    <3> QED
      BY <3>1, <3>3, <3>4 DEF OrderInv, ThreadOrder, AnswersUpTo
  <2> QED
    BY <2>1, <2>2
<1> QED
  BY <1>10, <1>11 DEF OrderInv, ThreadOrder

(* ... moves on, ... *)
LEMMA MoveOrder ==
  ASSUME IInv, OrderInv, NEW t \in Threads, pc[t] \notin {"idle", "enter"},
         UNCHANGED <<input, buffers, received, out>>,
         \/ Throws(t)
         \/ \E p, l : Continue(t, p, l) /\ (p \in {"run", "unread"} \/ (Answering(t) /\ l.frame = local[t].frame))
  PROVE  OrderInv'
<1>1. \A s \in Threads \ {t} : pc'[s] = pc[s] /\ task'[s] = task[s] /\ local'[s] = local[s]
  BY DEF Throws, Continue, IInv, Types, PoolTypes
<1>2. Answering(t)' => Answering(t) /\ task'[t] = task[t] /\ local'[t].frame = local[t].frame
  BY DEF Throws, Continue, Answering, IInv, Types, PoolTypes
<1>3. \A u \in Users : Stream(u)' = Stream(u) /\ Outcome(u)' = Outcome(u)
  BY DEF Stream, Outcome
<1>4. \A s \in Threads : Answering(s)' => /\ Answering(s) /\ task'[s] = task[s]
                                          /\ local'[s].frame = local[s].frame
  BY <1>1, <1>2 DEF Answering
<1> QED
  BY <1>3, <1>4, OrderKept

LEMMA GoToOrder ==
  ASSUME IInv, OrderInv, NEW t \in Threads, pc[t] \notin {"idle", "enter"},
         UNCHANGED <<input, buffers, received, out>>, NEW p, GoTo(t, p), p \in {"run", "unread"} \/ Answering(t)
  PROVE  OrderInv'
<1>1. Continue(t, p, local[t]) \/ (p = "run" /\ Continue(t, p, Fresh))
  BY DEF GoTo
<1> QED
  BY <1>1, MoveOrder

(* ... or answers. *)
LEMMA ReplyOrder ==
  ASSUME IInv, OrderInv, NEW t \in Threads, Answering(t), NEW p \in {"run", "unread", "nullTopic"}, Reply(t, p),
         UNCHANGED <<input, buffers, received>>
  PROVE  OrderInv'
<1>1. pc[t] \notin {"idle", "enter"} /\ task[t] \in Users /\ p \in Places \ {"idle", "enter"}
  BY PlaceFacts DEF Answering, Places, Registered
<1>2. /\ Turn(t) /\ pc'[t] \in {p, "idle"}
      /\ pc'[t] = p => task' = task /\ local'[t] = IF p = "run" THEN Fresh ELSE local[t]
  BY <1>1, AddOutTurn DEF Reply, IInv, Types
<1>3. out' = [out EXCEPT ![task[t]] = Append(@, <<"reply", local[t].frame>>)]
  BY DEF Reply, AddOutData
<1>4. /\ Answering(t)' => task'[t] = task[t] /\ local'[t] = local[t]
      /\ \A s \in Threads \ {t} : pc'[s] = pc[s] /\ task'[s] = task[s] /\ local'[s] = local[s]
  BY <1>2 DEF Answering, Turn
<1> QED
  BY <1>3, <1>4, AnswerOrder

LEMMA SessionOrder ==
  ASSUME IInv, OrderInv, NEW t \in Threads,
         Register(t) \/ LogInAgain(t) \/ NewTopic(t) \/ AddSelf(t) \/ FollowSelf(t)
           \/ Login(t) \/ SetHandler(t) \/ Disconnect(t) \/ ClearHandler(t)
  PROVE  OrderInv'
<1> USE DEF At, queues, channelVars, output
<1>1. CASE Register(t) \/ LogInAgain(t)
  BY <1>1, GoToOrder DEF Register, LogInAgain, Answering
<1>2. CASE NewTopic(t) \/ AddSelf(t) \/ FollowSelf(t)
  BY <1>2, GoToOrder DEF NewTopic, AddSelf, FollowSelf, Answering
<1>3. CASE Login(t) \/ SetHandler(t)
  BY <1>3, GoToOrder DEF Login, SetHandler, Answering
<1>4. CASE Disconnect(t) \/ ClearHandler(t)
  BY <1>4, GoToOrder DEF Disconnect, ClearHandler, Answering
<1> QED
  BY <1>1, <1>2, <1>3, <1>4

LEMMA AnswersOrder ==
  ASSUME IInv, OrderInv, NEW t \in Threads,
         \/ ConnectError(t) \/ Connected(t) \/ DisconnectError(t) \/ Receipt(t)
         \/ SubscribeUnknown(t) \/ SubscribeTwice(t) \/ Followed(t)
         \/ UnsubscribeError(t) \/ Unfollowed(t)
  PROVE  OrderInv'
<1>1. /\ pc[t] \in {"connect", "connected", "disconnect", "receipt", "subscribe", "nullTopic", "followed",
                   "unsubscribe", "unfollowed"}
      /\ \E p \in {"run", "unread", "nullTopic"} : Reply(t, p)
      /\ UNCHANGED queues
  BY DEF ConnectError, Connected, DisconnectError, Receipt, SubscribeUnknown, SubscribeTwice, Followed,
         UnsubscribeError, Unfollowed, At
<1>2. Answering(t)
  BY <1>1 DEF Answering
<1> QED
  BY <1>1, <1>2, ReplyOrder DEF queues, channelVars

LEMMA ThrowsOrder ==
  ASSUME IInv, OrderInv, NEW t \in Threads, Stranger(t) \/ NullTopic(t) \/ IterateFails(t)
  PROVE  OrderInv'
<1>1. pc[t] \notin {"idle", "enter"} /\ Throws(t) /\ UNCHANGED <<queues, output>>
  BY DEF Stranger, NullTopic, IterateFails, At
<1> QED
  BY <1>1, MoveOrder DEF queues, channelVars, output

LEMMA FollowOrder ==
  ASSUME IInv, OrderInv, NEW t \in Threads,
         Subscribe(t) \/ AddTopic(t) \/ Unsubscribe(t)
           \/ RemoveScan(t) \/ RemoveCompare(t) \/ RemoveUser(t)
  PROVE  OrderInv'
<1> USE DEF At, queues, channelVars, output
<1>1. CASE Subscribe(t) \/ AddTopic(t) \/ Unsubscribe(t)
  BY <1>1, GoToOrder DEF Subscribe, AddTopic, Unsubscribe, Answering
<1>2. CASE RemoveScan(t)
  BY <1>2, GoToOrder DEF RemoveScan, Answering
<1>3. CASE RemoveCompare(t)
  <2>1. Answering(t) /\ pc[t] \notin {"idle", "enter"} /\ UNCHANGED <<input, buffers, received, out>>
    BY <1>3 DEF RemoveCompare, Answering
  <2>2. PICK l : l = [local[t] EXCEPT !.cursor = local[t].cursor + 1]
    OBVIOUS
  <2>3. l.frame = local[t].frame
    BY <2>1, <2>2, PlaceFacts DEF Locals
  <2>4. Throws(t) \/ GoTo(t, "removeAt") \/ Continue(t, "removeUser", l)
    BY <1>3, <2>2 DEF RemoveCompare
  <2> QED
    BY <2>1, <2>3, <2>4, GoToOrder, MoveOrder
<1>4. CASE RemoveUser(t)
  <2>1. Answering(t) /\ pc[t] \notin {"idle", "enter"} /\ UNCHANGED <<input, buffers, received, out>>
    BY <1>4 DEF RemoveUser, Answering
  <2>2. GoTo(t, "unfollowed") \/ Throws(t)
    BY <1>4 DEF RemoveUser
  <2> QED
    BY <2>1, <2>2, GoToOrder, MoveOrder
<1> QED
  BY <1>1, <1>2, <1>3, <1>4

LEMMA SendOrder ==
  ASSUME IInv, OrderInv, NEW t \in Threads,
         \/ Send(t) \/ NextTopic(t) \/ IterateEnd(t) \/ HasNext(t) \/ Iterate(t)
         \/ FindEntry(t) \/ AskOnline(t) \/ Direct(t) \/ Store(t)
  PROVE  OrderInv'
<1> USE DEF At, queues, channelVars, output
<1>0. Answering(t) /\ pc[t] \notin {"idle", "enter"} /\ UNCHANGED <<input, buffers, received, out>> /\ local[t] \in Locals
  <2>1. pc[t] \in {"send", "topic", "iterate", "next", "entry", "online", "direct", "store"}
    BY DEF Send, NextTopic, IterateEnd, HasNext, Iterate, FindEntry, AskOnline, Direct, Store
  <2>2. UNCHANGED <<input, buffers, received, out>>
    BY DEF Send, NextTopic, IterateEnd, HasNext, Iterate, FindEntry, AskOnline, Direct, Store
  <2> QED
    BY <2>1, <2>2, PlaceFacts DEF Answering
<1>1. CASE Send(t)
  <2>1. PICK l : l = [local[t] EXCEPT !.todo = Topic(t)]
    OBVIOUS
  <2>2. l.frame = local[t].frame /\ Continue(t, "topic", l)
    BY <1>0, <1>1, <2>1 DEF Send, Locals
  <2> QED
    BY <1>0, <2>2, MoveOrder
<1>2. CASE NextTopic(t)
  <2>1. PICK l, m : /\ l = [local[t] EXCEPT !.todo = Tail(@)]
                    /\ m = [local[t] EXCEPT !.expected = modCount[Current(t)],
                              !.due = {r \in ToSet(followers[Current(t)]) : Current(t) \in entries[r]}]
    OBVIOUS
  <2>2. l.frame = local[t].frame /\ m.frame = local[t].frame
    BY <1>0, <2>1 DEF Locals
  <2>3. GoTo(t, "run") \/ Continue(t, "topic", l) \/ Continue(t, "iterate", m)
    BY <1>2, <2>1 DEF NextTopic
  <2> QED
    BY <1>0, <2>2, <2>3, GoToOrder, MoveOrder
<1>3. CASE IterateEnd(t)
  <2>1. PICK l : l = [Fresh EXCEPT !.frame = local[t].frame, !.todo = Tail(local[t].todo)]
    OBVIOUS
  <2>2. l.frame = local[t].frame
    BY <2>1 DEF Fresh
  <2>3. Continue(t, "topic", l)
    BY <1>3, <2>1 DEF IterateEnd
  <2> QED
    BY <1>0, <2>2, <2>3, MoveOrder
<1>4. CASE HasNext(t) \/ FindEntry(t) \/ AskOnline(t) \/ Direct(t)
  <2>1. Throws(t) \/ \E p : GoTo(t, p)
    BY <1>4 DEF HasNext, FindEntry, AskOnline, Direct
  <2> QED
    BY <1>0, <2>1, GoToOrder, MoveOrder
<1>5. CASE Iterate(t)
  <2>1. PICK r : r = followers[Current(t)][local[t].cursor]
    OBVIOUS
  <2>2. PICK l : l = [local[t] EXCEPT !.cursor = @ + 1, !.to = r]
    OBVIOUS
  <2>3. l.frame = local[t].frame
    BY <1>0, <2>2 DEF Locals
  <2>4. \E p : Continue(t, p, l)
    BY <1>5, <2>1, <2>2 DEF Iterate
  <2> QED
    BY <1>0, <2>3, <2>4, MoveOrder
<1>6. CASE Store(t)
  BY <1>0, <1>6, GoToOrder DEF Store
<1> QED
  BY <1>1, <1>2, <1>3, <1>4, <1>5, <1>6

(* Tweets on their way to a connection, at once or when its user logs in. *)
LEMMA DeliveryOrder ==
  ASSUME IInv, OrderInv, NEW t \in Threads, SendUnread(t) \/ Deliver(t)
  PROVE  OrderInv'
<1> USE DEF At, queues, channelVars, output
<1>0. UNCHANGED <<input, buffers, received>>
  BY DEF SendUnread, Deliver
<1>1. ASSUME NEW c \in Users, NEW m \in Tweets, NEW p \in {"unread", "iterate"}, AddOutData(t, c, m, p),
             p = "unread" \/ Answering(t), pc[t] \notin {"idle", "enter"}
      PROVE  OrderInv'
  <2>1. /\ Turn(t) /\ pc'[t] \in {p, "idle"}
        /\ pc'[t] = p => task' = task /\ local'[t] = local[t]
    BY <1>1, AddOutTurn DEF IInv, Types, Places, Registered
  <2>2. out' = [out EXCEPT ![c] = Append(@, m)]
    BY <1>1 DEF AddOutData
  <2>3. \A s \in Threads : Answering(s)' => /\ Answering(s) /\ task'[s] = task[s]
                                            /\ local'[s].frame = local[s].frame
    BY <1>1, <2>1 DEF Answering, Turn
  <2> QED
    BY <1>0, <2>2, <2>3, TweetOrder
<1>2. CASE SendUnread(t)
  <2>1. pc[t] = "unread" /\ task[t] \in Users
    BY <1>2, PlaceFacts DEF SendUnread
  <2>2. CASE unread[task[t]] = <<>>
    <3>1. GoTo(t, "run") /\ UNCHANGED out
      BY <1>2, <2>2 DEF SendUnread
    <3> QED
      BY <1>0, <2>1, <3>1, GoToOrder
  <2>3. CASE unread[task[t]] # <<>>
    <3>1. unread[task[t]] \in Seq(Tweets)
      BY <2>1 DEF IInv, Types, MessageTypes
    <3>2. Head(unread[task[t]]) \in Tweets
      BY <2>3, <3>1
    <3>3. AddOutData(t, task[t], Head(unread[task[t]]), "unread")
      BY <1>2, <2>3 DEF SendUnread
    <3> QED
      BY <1>1, <2>1, <3>2, <3>3
  <2> QED
    BY <2>2, <2>3
<1>3. CASE Deliver(t)
  <2>1. /\ pc[t] = "deliver" /\ Answering(t) /\ task[t] \in Users /\ local[t].to \in Users
        /\ local[t] \in Locals /\ Delivering(t)
    BY <1>3, PlaceFacts DEF Deliver, Answering, AtFrame, Delivering, ToFollower, IInv, Types, SessionTypes
  <2>2. Tweet(t) \in Tweets
    BY <2>1, IterationFacts DEF Tweet, Tweets, Locals
  <2>3. AddOutData(t, local[t].to, Tweet(t), "iterate")
    BY <1>3 DEF Deliver
  <2> QED
    BY <1>1, <2>1, <2>2, <2>3
<1> QED
  BY <1>2, <1>3

LEMMA ProtocolOrder ==
  ASSUME IInv, OrderInv, NEW t \in Threads, Protocol(t)
  PROVE  OrderInv'
BY NextMessageOrder, SessionOrder, AnswersOrder, ThrowsOrder, FollowOrder, SendOrder, DeliveryOrder DEF Protocol

(* Reading and writing only move what is to come and what was answered. *)
LEMMA SelectorOrder ==
  ASSUME IInv, OrderInv, NEW u \in Users, Read(u) \/ Write(u) \/ ReadEnd(u), Keep
  PROVE  OrderInv'
<1>1. \A t \in Threads : pc'[t] = pc[t] /\ task'[t] = task[t] /\ local'[t] = local[t]
  BY DEF Read, Write, ReadEnd, Keep, poolVars
<1>2. \A t \in Threads : Answering(t)' => /\ Answering(t) /\ task'[t] = task[t]
                                          /\ local'[t].frame = local[t].frame
  BY <1>1 DEF Answering
<1>3. CASE Read(u)
  <2>1. PICK n \in 1..Len(input[u]) :
          /\ buffers' = [buffers EXCEPT ![u] = @ \o SubSeq(input[u], 1, n)]
          /\ input' = [input EXCEPT ![u] = SubSeq(@, n + 1, Len(@))]
    BY <1>3 DEF Read
  <2>2. UNCHANGED <<received, out>>
    BY <1>3 DEF Read
  <2>3. PICK b \in Seq(Nat), s \in Seq(Nat) : b = buffers[u] /\ s = input[u]
    BY StreamTypes
  <2>4. (b \o SubSeq(s, 1, n)) \o SubSeq(s, n + 1, Len(s)) = b \o s
    <3>1. n \in 1..Len(s)
      BY <2>3
    <3> QED
      BY <3>1, SomeFramesMove, Zenon
  <2>5. /\ buffers'[u] = b \o SubSeq(s, 1, n) /\ input'[u] = SubSeq(s, n + 1, Len(s))
        /\ \A v \in Users \ {u} : buffers'[v] = buffers[v] /\ input'[v] = input[v]
    BY <2>1, <2>3 DEF IInv, Types, QueueTypes
  <2>6. Stream(u)' = Stream(u)
    BY <2>3, <2>4, <2>5, Zenon DEF Stream
  <2>7. \A v \in Users : Outcome(v)' = Outcome(v) /\ (v # u => Stream(v)' = Stream(v))
    BY <2>2, <2>5 DEF Outcome, Stream
  <2> QED
    BY <1>2, <2>6, <2>7, OrderKept
<1>4. CASE Write(u)
  <2>1. UNCHANGED <<input, buffers>>
    BY <1>4 DEF Write
  <2>2. CASE out[u] = <<>>
    <3>1. \A v \in Users : Stream(v)' = Stream(v) /\ Outcome(v)' = Outcome(v)
      BY <1>4, <2>1, <2>2 DEF Write, Stream, Outcome
    <3> QED
      BY <1>2, <3>1, OrderKept
  <2>3. CASE out[u] # <<>>
    <3>1. PICK r \in Seq(Messages), s \in Seq(Messages) : r = received[u] /\ s = out[u]
      BY StreamTypes
    <3>2. Append(r, Head(s)) \o Tail(s) = r \o s
      BY <2>3, <3>1, FirstMoves
    <3>3. /\ received'[u] = Append(r, Head(s)) /\ out'[u] = Tail(s)
          /\ \A v \in Users \ {u} : received'[v] = received[v] /\ out'[v] = out[v]
      BY <1>4, <2>3, <3>1 DEF Write, IInv, Types, MessageTypes
    <3>4. Outcome(u)' = Outcome(u)
      BY <3>1, <3>2, <3>3, Zenon DEF Outcome
    <3>5. \A v \in Users : Stream(v)' = Stream(v) /\ (v # u => Outcome(v)' = Outcome(v))
      BY <2>1, <3>3 DEF Outcome, Stream
    <3> QED
      BY <1>2, <3>4, <3>5, OrderKept
  <2> QED
    BY <2>2, <2>3
<1>5. CASE ReadEnd(u)
  <2>1. \A v \in Users : Stream(v)' = Stream(v) /\ Outcome(v)' = Outcome(v)
    BY <1>5 DEF ReadEnd, Stream, Outcome
  <2> QED
    BY <1>2, <2>1, OrderKept
<1> QED
  BY <1>3, <1>4, <1>5

LEMMA PoolOrder ==
  ASSUME IInv, OrderInv, NEW t \in Threads, TakeTask(t) \/ Enter(t) \/ RunEnd(t), Keep
  PROVE  OrderInv'
<1>1. UNCHANGED <<input, buffers, received, out, local>>
  BY DEF TakeTask, Enter, RunEnd, Keep, channelVars
<1>2. ~Answering(t)' /\ \A s \in Threads \ {t} : pc'[s] = pc[s] /\ task'[s] = task[s]
  BY DEF TakeTask, Enter, RunEnd, Answering, IInv, Types, PoolTypes
<1>3. \A u \in Users : Stream(u)' = Stream(u) /\ Outcome(u)' = Outcome(u)
  BY <1>1 DEF Stream, Outcome
<1>4. \A s \in Threads : Answering(s)' => /\ Answering(s) /\ task'[s] = task[s]
                                          /\ local'[s].frame = local[s].frame
  BY <1>1, <1>2 DEF Answering
<1> QED
  BY <1>3, <1>4, OrderKept

LEMMA InitOrder == Init => OrderInv
<1> SUFFICES ASSUME Init PROVE OrderInv
  OBVIOUS
<1>1. ASSUME NEW u \in Users PROVE UserOrder(u)
  <2>1. PICK n \in Nat : n = Len(scenario.script[u])
    BY ScenariosAssumption DEF Init
  <2>2. /\ buffers[u] = <<>> /\ input[u] = [i \in 1..n |-> i] /\ received[u] = <<>> /\ out[u] = <<>>
    BY <2>1 DEF Init, ReactorInit
  <2>3. [i \in 1..n |-> i] \in Seq(Nat) /\ Len([i \in 1..n |-> i]) = n
    OBVIOUS
  <2>4. Stream(u) = [i \in 1..n |-> i] /\ Outcome(u) = <<>>
    BY <2>2, <2>3, ConcatEmptySeq DEF Stream, Outcome
  <2> QED
    BY <2>3, <2>4 DEF UserOrder, Rising, AnswersRise, AnswersUpTo
<1>2. \A t \in Threads : ThreadOrder(t)
  BY DEF Init, ReactorInit, ThreadOrder, Answering
<1> QED
  BY <1>1, <1>2 DEF OrderInv

LEMMA NextOrder == IInv /\ OrderInv /\ [Next]_vars => OrderInv'
<1> SUFFICES ASSUME IInv, OrderInv, [Next]_vars PROVE OrderInv'
  OBVIOUS
<1>1. CASE UNCHANGED vars
  <2>1. \A u \in Users : Stream(u)' = Stream(u) /\ Outcome(u)' = Outcome(u)
    BY <1>1 DEF vars, queues, channelVars, output, Stream, Outcome
  <2>2. \A t \in Threads : Answering(t)' => /\ Answering(t) /\ task'[t] = task[t]
                                            /\ local'[t].frame = local[t].frame
    BY <1>1 DEF vars, poolVars, Answering
  <2> QED
    BY <2>1, <2>2, OrderKept
<1> QED
  BY <1>1, SelectorOrder, ProtocolOrder, PoolOrder DEF Next, Work, SelectorStep, PoolStep, Broken

(* The client of a user gets the answers to its frames in their order: the    *)
(* threads of the pool run the tasks of a connection one after another        *)
(* (ProtocolTask.run), and each takes the next frame.                        *)
THEOREM TweeterRepliesInOrder == Spec => []RepliesInOrder
<1>1. OrderInv => RepliesInOrder
  BY DEF OrderInv, UserOrder, AnswersRise, Outcome, RepliesInOrder
<1>2. Spec => []OrderInv
  BY IInvAlways, InitOrder, NextOrder, PTL DEF Spec
<1> QED
  BY <1>1, <1>2, PTL
=============================================================================
