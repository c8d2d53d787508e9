---------------------------- MODULE SocksProofs ----------------------------
(***************************************************************************)
(* The SOCKS server implements SocksService, whatever its clients, their   *)
(* targets and the addresses that count as loopback.                       *)
(***************************************************************************)
EXTENDS Socks, TLAPS

(***************************************************************************)
(* What the place of a task says about its fields.  SocksService tells a   *)
(* request apart by its route and its connection, which a task keeps in    *)
(* fields of their own: the refinement needs that no step leaves them      *)
(* behind (an old target, a link without success, a reply of success that  *)
(* was never routed).                                                      *)
(***************************************************************************)
Fresh(t) == t.at \in {"idle", "greeting", "request"} =>
              t.host = NoHost /\ t.via = "none" /\ t.link = FALSE
Asked(t) == t.at = "route" => t.host \in Host /\ t.via = "none" /\ t.link = FALSE
Dialling(t) == t.at \in {"dial", "pick", "resolve", "connect"} =>
                 t.via # "none" /\ t.link = FALSE
Replying(t) == t.at = "reply" =>
                 /\ t.link = (t.code = 0)
                 /\ t.via = "none" => t.host = NoHost /\ t.code # 0

TaskRecord ==
  [at : {"idle", "greeting", "request", "route", "dial", "pick",
         "resolve", "connect", "reply", "relay", "refused"},
   host : Host \cup {NoHost}, via : {"none", "direct", "warp"},
   link : BOOLEAN, code : {0, 1, 4, 5, 7, 8}, here : BOOLEAN]

TaskInv(t) == Fresh(t) /\ Asked(t) /\ Dialling(t) /\ Replying(t)
SocksInv == SocksTypeOK /\ \A c \in Client : TaskInv(task[c])

-----------------------------------------------------------------------------

\* The task of one client changes: the invariant is a matter of its new value.
LEMMA BecomesKeeps ==
  ASSUME SocksInv, NEW c \in Client, NEW t, Becomes(c, t),
         t \in TaskRecord, TaskInv(t)
  PROVE  SocksInv'
<1>1. SocksTypeOK' BY DEF SocksInv, SocksTypeOK, TaskRecord, Becomes
<1>2. ASSUME NEW d \in Client PROVE TaskInv(task[d])'
  <2>1. task'[d] = IF d = c THEN t ELSE task[d] BY DEF SocksInv, SocksTypeOK, Becomes
  <2>2. TaskInv(task[d]) BY DEF SocksInv
  <2>3. TaskInv(task'[d]) BY <2>1, <2>2
  <2> QED BY <2>3 DEF TaskInv, Fresh, Asked, Dialling, Replying
<1> QED BY <1>1, <1>2 DEF SocksInv

\* The fields of a task, for the provers.
LEMMA TaskType ==
  ASSUME SocksInv, NEW c \in Client
  PROVE  /\ task[c] \in TaskRecord
         /\ TaskInv(task[c])
BY DEF SocksInv, SocksTypeOK, TaskRecord

LEMMA NoTaskInv ==
  /\ NoTask \in TaskRecord
  /\ TaskInv(NoTask)
BY DEF NoTask, Task, TaskRecord, TaskInv, Fresh, Asked, Dialling, Replying

LEMMA InvInit == SocksInit => SocksInv
BY NoTaskInv DEF SocksInit, SocksInv, SocksTypeOK, TaskRecord

LEMMA TaskStepInv ==
  ASSUME SocksInv, NEW c \in Client, TaskStep(c)
  PROVE  SocksInv'
<1> USE TaskType, NoTaskInv, BecomesKeeps DEF TaskRecord
<1>1. CASE ReadFails(c) BY <1>1 DEF ReadFails, Ends
<1>2. CASE Route(c)
  BY <1>2 DEF Route, At, TaskInv, Fresh, Asked, Dialling, Replying
<1>3. CASE Dial(c)
  BY <1>3 DEF Dial, At, Replies, TaskInv, Fresh, Asked, Dialling, Replying
<1>4. CASE PickWorker(c)
  BY <1>4 DEF PickWorker, At, Goes, Replies, TaskInv, Fresh, Asked, Dialling, Replying
<1>5. CASE ResolveHost(c)
  BY <1>5 DEF ResolveHost, At, Goes, Replies, TaskInv, Fresh, Asked, Dialling, Replying
<1>6. CASE Reply(c)
  BY <1>6 DEF Reply, At, Goes, TaskInv, Fresh, Asked, Dialling, Replying
<1>7. CASE ReplyFails(c)
  <2>1. SocksTypeOK' BY <1>7 DEF ReplyFails, SocksInv, SocksTypeOK
  <2>2. ASSUME NEW d \in Client PROVE TaskInv(task[d])'
    <3>1. task'[d] = IF d = c THEN NoTask ELSE task[d]
      BY <1>7 DEF ReplyFails, SocksInv, SocksTypeOK
    <3>2. TaskInv(task'[d]) BY <3>1
    <3> QED BY <3>2 DEF TaskInv, Fresh, Asked, Dialling, Replying
  <2> QED BY <2>1, <2>2 DEF SocksInv
<1>8. CASE Refused(c) BY <1>8 DEF Refused, Ends
<1>9. CASE RelayStops(c) BY <1>9 DEF RelayStops, Ends
<1> QED BY <1>1, <1>2, <1>3, <1>4, <1>5, <1>6, <1>7, <1>8, <1>9 DEF TaskStep

LEMMA PeerStepInv ==
  ASSUME SocksInv, NEW c \in Client, PeerStep(c)
  PROVE  SocksInv'
<1> USE TaskType, NoTaskInv, BecomesKeeps DEF TaskRecord
<1>1. CASE Accept(c)
  BY <1>1 DEF Accept, Task, TaskInv, Fresh, Asked, Dialling, Replying
<1>2. CASE ClientLeaves(c)
  <2> DEFINE t == [task[c] EXCEPT !.here = FALSE]
  <2>1. t \in TaskRecord /\ TaskInv(t) BY DEF TaskInv, Fresh, Asked, Dialling, Replying
  <2>2. Becomes(c, t) BY <1>2 DEF ClientLeaves
  <2> HIDE DEF t, TaskRecord
  <2> QED BY <2>1, <2>2
<1>3. CASE Greeting(c)
  BY <1>3 DEF Greeting, At, Goes, Ends, TaskInv, Fresh, Asked, Dialling, Replying
<1>4. CASE Request(c)
  <2>1. CASE Ends(c) BY <2>1 DEF Ends
  <2>2. ASSUME NEW code \in {7, 8}, Replies(c, code) PROVE SocksInv'
    <3> DEFINE t == [task[c] EXCEPT !.at = "reply", !.code = code, !.link = code = 0]
    <3>1. task[c].host = NoHost /\ task[c].via = "none"
      BY <1>4 DEF Request, At, TaskInv, Fresh
    <3>2. /\ t.at = "reply" /\ t.host = NoHost /\ t.via = "none" /\ t.code = code
          /\ t.link = (code = 0)
      BY <3>1
    <3>3. t \in TaskRecord BY ZenonT(40)
    <3>4. Becomes(c, t) BY <2>2 DEF Replies
    <3> HIDE DEF t, TaskRecord
    <3>5. TaskInv(t) BY <3>2 DEF TaskInv, Fresh, Asked, Dialling, Replying
    <3> QED BY <3>3, <3>4, <3>5
  <2>3. ASSUME NEW h \in Host, Becomes(c, [task[c] EXCEPT !.at = "route", !.host = h])
        PROVE  SocksInv'
    BY <1>4, <2>3 DEF Request, At, TaskInv, Fresh, Asked, Dialling, Replying
  <2> QED BY <1>4, <2>1, <2>2, <2>3 DEF Request
<1>5. CASE ConnectHost(c)
  BY <1>5 DEF ConnectHost, At, Replies, TaskInv, Fresh, Asked, Dialling, Replying
<1>6. CASE RelayEnds(c) BY <1>6 DEF RelayEnds, Ends
<1>7. CASE StrayEnds(c)
  BY <1>7 DEF StrayEnds, SocksInv, SocksTypeOK, TaskInv, Fresh, Asked, Dialling, Replying
<1> QED BY <1>1, <1>2, <1>3, <1>4, <1>5, <1>6, <1>7 DEF PeerStep

LEMMA InvStep ==
  ASSUME SocksInv, SocksNext \/ UNCHANGED socksVars
  PROVE  SocksInv'
<1>1. ASSUME NEW c \in Client, TaskStep(c) \/ PeerStep(c) PROVE SocksInv'
  BY <1>1, TaskStepInv, PeerStepInv
<1>2. ASSUME NEW on \in BOOLEAN, Toggle(on) PROVE SocksInv'
  BY <1>2 DEF Toggle, SocksInv, SocksTypeOK, TaskInv, Fresh, Asked, Dialling, Replying
<1>3. CASE AbortTasks
  <2>1. SocksTypeOK' BY <1>3, NoTaskInv DEF AbortTasks, SocksInv, SocksTypeOK, TaskRecord
  <2>2. ASSUME NEW c \in Client PROVE TaskInv(task[c])'
    <3>1. task'[c] = NoTask BY <1>3 DEF AbortTasks
    <3> QED BY <3>1, NoTaskInv DEF TaskInv, Fresh, Asked, Dialling, Replying
  <2> QED BY <2>1, <2>2 DEF SocksInv
<1>4. CASE UNCHANGED socksVars
  BY <1>4 DEF socksVars, SocksInv, SocksTypeOK, TaskInv, Fresh, Asked, Dialling, Replying
<1> QED BY <1>1, <1>2, <1>3, <1>4 DEF SocksNext

-----------------------------------------------------------------------------
(* The refinement.  All that SocksService sees of a task's step is what it *)
(* makes of the task's stage, target, way and link, and of the strays.     *)

LEMMA MappedInit == SocksInit => Service!Init
BY DEF SocksInit, Service!Init, NoTask, Task, Stage, stages, targets, ways, links

\* One task changes: so do, at most, its four images.
LEMMA MappedTask ==
  ASSUME SocksInv, NEW c \in Client, NEW t, task' = [task EXCEPT ![c] = t]
  PROVE  /\ stages' = [stages EXCEPT ![c] = Stage(t)]
         /\ targets' = [targets EXCEPT ![c] = t.host]
         /\ ways' = [ways EXCEPT ![c] = t.via]
         /\ links' = [links EXCEPT ![c] = t.link]
<1> DEFINE u == task'
<1>1. \A d \in Client : u[d] = IF d = c THEN t ELSE task[d]
  BY DEF SocksInv, SocksTypeOK
<1>2. /\ stages' = [d \in Client |-> Stage(u[d])]
      /\ targets' = [d \in Client |-> u[d].host]
      /\ ways' = [d \in Client |-> u[d].via]
      /\ links' = [d \in Client |-> u[d].link]
  BY Zenon DEF stages, targets, ways, links, Stage
<1> HIDE DEF u
<1>3. \A d \in Client : /\ Stage(u[d]) = IF d = c THEN Stage(t) ELSE Stage(task[d])
                        /\ u[d].host = IF d = c THEN t.host ELSE task[d].host
                        /\ u[d].via = IF d = c THEN t.via ELSE task[d].via
                        /\ u[d].link = IF d = c THEN t.link ELSE task[d].link
  BY <1>1
<1>4. stages' = [stages EXCEPT ![c] = Stage(t)]
  BY <1>2, <1>3 DEF stages
<1>5. targets' = [targets EXCEPT ![c] = t.host] BY <1>2, <1>3 DEF targets
<1>6. ways' = [ways EXCEPT ![c] = t.via] BY <1>2, <1>3 DEF ways
<1>7. links' = [links EXCEPT ![c] = t.link] BY <1>2, <1>3 DEF links
<1> QED BY <1>4, <1>5, <1>6, <1>7

LEMMA MappedBecomes ==
  ASSUME SocksInv, NEW c \in Client, NEW t, Becomes(c, t)
  PROVE  /\ stages' = [stages EXCEPT ![c] = Stage(t)]
         /\ targets' = [targets EXCEPT ![c] = t.host]
         /\ ways' = [ways EXCEPT ![c] = t.via]
         /\ links' = [links EXCEPT ![c] = t.link]
         /\ enabled' = enabled /\ stray' = stray
BY MappedTask DEF Becomes

\* Where the images of a task stand.
LEMMA Images ==
  ASSUME NEW c \in Client
  PROVE  /\ stages[c] = Stage(task[c]) /\ targets[c] = task[c].host
         /\ ways[c] = task[c].via /\ links[c] = task[c].link
         /\ DOMAIN stages = Client /\ DOMAIN targets = Client
         /\ DOMAIN ways = Client /\ DOMAIN links = Client
         /\ stages = [d \in Client |-> stages[d]] /\ targets = [d \in Client |-> targets[d]]
         /\ ways = [d \in Client |-> ways[d]] /\ links = [d \in Client |-> links[d]]
BY DEF stages, targets, ways, links

\* A task that ends is Over({c}).
LEMMA MappedOver ==
  ASSUME SocksInv, NEW c \in Client, task' = [task EXCEPT ![c] = NoTask], enabled' = enabled
  PROVE  Service!Over({c})
<1>2. Stage(NoTask) = "none" /\ NoTask.host = NoHost /\ NoTask.via = "none" /\ NoTask.link = FALSE
  BY DEF Stage, NoTask, Task
<1>3. /\ stages' = [stages EXCEPT ![c] = "none"] /\ targets' = [targets EXCEPT ![c] = NoHost]
      /\ ways' = [ways EXCEPT ![c] = "none"] /\ links' = [links EXCEPT ![c] = FALSE]
  <2>1. /\ stages' = [stages EXCEPT ![c] = Stage(NoTask)]
        /\ targets' = [targets EXCEPT ![c] = NoTask.host]
        /\ ways' = [ways EXCEPT ![c] = NoTask.via]
        /\ links' = [links EXCEPT ![c] = NoTask.link]
    BY MappedTask, Zenon
  <2> QED BY <1>2, <2>1, Zenon
<1>4. stages' = [d \in Client |-> IF d \in {c} THEN "none" ELSE stages[d]] BY <1>3 DEF stages
<1>5. targets' = [d \in Client |-> IF d \in {c} THEN NoHost ELSE targets[d]]
  BY <1>3 DEF targets
<1>6. ways' = [d \in Client |-> IF d \in {c} THEN "none" ELSE ways[d]] BY <1>3 DEF ways
<1>7. links' = [d \in Client |-> IF d \in {c} THEN FALSE ELSE links[d]] BY <1>3 DEF links
<1> QED BY <1>4, <1>5, <1>6, <1>7 DEF Service!Over

LEMMA MappedEnds ==
  ASSUME SocksInv, NEW c \in Client, Ends(c)
  PROVE  Service!End(c)
BY MappedOver DEF Ends, Becomes, Service!End

\* A reply that fails ends it, or leaves the connection that was made.
LEMMA MappedReplyFails ==
  ASSUME SocksInv, NEW c \in Client, ReplyFails(c)
  PROVE  Service!End(c) \/ Service!Strand(c)
<1>1. Service!Over({c}) BY MappedOver DEF ReplyFails
<1>2. CASE task[c].via = "warp" /\ task[c].link
  <2>1. stages[c] = "routed" /\ ways[c] = "warp" /\ links[c]
    BY <1>2, Images DEF ReplyFails, At, Stage
  <2>2. stray' = stray \cup {c} BY <1>2 DEF ReplyFails
  <2> QED BY <1>1, <2>1, <2>2 DEF Service!Strand
<1>3. CASE ~(task[c].via = "warp" /\ task[c].link)
  BY <1>1, <1>3 DEF ReplyFails, Service!End
<1> QED BY <1>2, <1>3

\* A step that shows none of the four stutters.
LEMMA MappedStutters ==
  ASSUME SocksInv, NEW c \in Client, NEW t, Becomes(c, t),
         Stage(t) = Stage(task[c]), t.host = task[c].host, t.via = task[c].via,
         t.link = task[c].link
  PROVE  UNCHANGED Service!vars
BY MappedBecomes, Images DEF Service!vars

\* A step of one task that shows, in terms of its four images.
LEMMA MappedShows ==
  ASSUME SocksInv, NEW c \in Client, NEW t, Becomes(c, t)
  PROVE  /\ t.host = task[c].host => targets' = targets
         /\ t.via = task[c].via => ways' = ways
         /\ t.link = task[c].link => links' = links
         /\ Stage(t) = Stage(task[c]) => stages' = stages
         /\ stages' = [stages EXCEPT ![c] = Stage(t)]
         /\ targets' = [targets EXCEPT ![c] = t.host]
         /\ ways' = [ways EXCEPT ![c] = t.via]
         /\ links' = [links EXCEPT ![c] = t.link]
         /\ enabled' = enabled /\ stray' = stray
BY MappedBecomes, Images

\* Once a request is routed, a reply of success is Link and another is not
\* visible yet.
LEMMA MappedReplies ==
  ASSUME SocksInv, NEW c \in Client, NEW code \in {0, 1, 4, 5}, Replies(c, code),
         task[c].at \in {"dial", "pick", "resolve", "connect"}
  PROVE  Service!Link(c) \/ UNCHANGED Service!vars
<1> DEFINE t == [task[c] EXCEPT !.at = "reply", !.code = code, !.link = code = 0]
<1>1. task[c].via # "none" /\ task[c].link = FALSE
  BY TaskType DEF TaskInv, Dialling
<1>2. /\ t.at = "reply" /\ t.host = task[c].host /\ t.via = task[c].via
      /\ t.link = (code = 0)
  BY TaskType DEF TaskRecord
<1>3. Becomes(c, t) BY DEF Replies
<1> HIDE DEF t
<1>4. Stage(t) = "routed" /\ Stage(task[c]) = "routed" BY <1>1, <1>2 DEF Stage
<1>5. CASE code = 0
  <2>1. t.link = TRUE BY <1>2, <1>5
  <2>2. links' = [links EXCEPT ![c] = TRUE] BY <1>3, <2>1, MappedShows
  <2>3. /\ stages' = stages /\ targets' = targets /\ ways' = ways /\ enabled' = enabled
        /\ stray' = stray
    BY <1>2, <1>3, <1>4, MappedShows
  <2>4. stages[c] = "routed" /\ ~links[c] BY <1>1, <1>4, Images
  <2> QED BY <2>2, <2>3, <2>4 DEF Service!Link
<1>6. CASE code # 0
  <2>1. t.link = FALSE BY <1>2, <1>6
  <2> QED BY <1>1, <1>2, <1>3, <1>4, <2>1, MappedStutters
<1> QED BY <1>5, <1>6

\* A task that moves on within its stage does not show.
LEMMA MappedGoes ==
  ASSUME SocksInv, NEW c \in Client, NEW at, Goes(c, at),
         Stage([task[c] EXCEPT !.at = at]) = Stage(task[c])
  PROVE  UNCHANGED Service!vars
<1> DEFINE t == [task[c] EXCEPT !.at = at]
<1>1. t.host = task[c].host /\ t.via = task[c].via /\ t.link = task[c].link
  BY TaskType DEF TaskRecord
<1>2. Becomes(c, t) /\ Stage(t) = Stage(task[c]) BY DEF Goes
<1> HIDE DEF t
<1> QED BY <1>1, <1>2, MappedStutters

\* The route is the switch's, as it is now.
LEMMA MappedRoute ==
  ASSUME SocksInv, NEW c \in Client, Route(c)
  PROVE  Service!GoDirect(c) \/ Service!GoWarp(c)
<1>1. task[c].at = "route" /\ task[c].host \in Host /\ task[c].via = "none"
  BY TaskType DEF Route, At, TaskInv, Asked
<1>2. stages[c] = "asked" /\ targets[c] \in Host BY <1>1, Images DEF Stage
<1>3. CASE ~enabled \/ task[c].host \in Loopback
  <2> DEFINE t == [task[c] EXCEPT !.at = "dial", !.via = "direct"]
  <2>1. t.at = "dial" /\ t.host = task[c].host /\ t.via = "direct" /\ t.link = task[c].link
    BY TaskType DEF TaskRecord
  <2>2. Becomes(c, t) BY <1>3 DEF Route, is_loopback_host
  <2> HIDE DEF t
  <2>3. Stage(t) = "routed" BY <2>1 DEF Stage
  <2>4. /\ stages' = [stages EXCEPT ![c] = "routed"] /\ ways' = [ways EXCEPT ![c] = "direct"]
        /\ targets' = targets /\ links' = links
        /\ enabled' = enabled /\ stray' = stray
    BY <2>1, <2>2, <2>3, MappedShows
  <2>5. ~enabled \/ targets[c] \in Loopback BY <1>3, Images
  <2> QED BY <1>2, <2>4, <2>5 DEF Service!GoDirect
<1>4. CASE ~(~enabled \/ task[c].host \in Loopback)
  <2> DEFINE t == [task[c] EXCEPT !.at = "pick", !.via = "warp"]
  <2>1. t.at = "pick" /\ t.host = task[c].host /\ t.via = "warp" /\ t.link = task[c].link
    BY TaskType DEF TaskRecord
  <2>2. Becomes(c, t) BY <1>4 DEF Route, is_loopback_host
  <2> HIDE DEF t
  <2>3. Stage(t) = "routed" BY <2>1 DEF Stage
  <2>4. /\ stages' = [stages EXCEPT ![c] = "routed"] /\ ways' = [ways EXCEPT ![c] = "warp"]
        /\ targets' = targets /\ links' = links
        /\ enabled' = enabled /\ stray' = stray
    BY <2>1, <2>2, <2>3, MappedShows
  <2>5. enabled /\ targets[c] \in Host \ Loopback BY <1>2, <1>4, Images
  <2> QED BY <1>2, <2>4, <2>5 DEF Service!GoWarp
<1> QED BY <1>3, <1>4

\* The reply is written: success with the link at hand, a refusal without.
LEMMA MappedReply ==
  ASSUME SocksInv, NEW c \in Client, Reply(c)
  PROVE  Service!Succeed(c) \/ Service!Refuse(c)
<1> DEFINE at == IF task[c].code = 0 THEN "relay" ELSE "refused"
           t == [task[c] EXCEPT !.at = at]
<1>1. /\ task[c].at = "reply" /\ task[c].link = (task[c].code = 0)
      /\ task[c].via = "none" => task[c].host = NoHost /\ task[c].code # 0
  BY TaskType DEF Reply, At, TaskInv, Replying
<1>3. Goes(c, at) BY DEF Reply
<1>4. Service!Succeed(c) \/ Service!Refuse(c)
  <2>1. t.at = at /\ t.host = task[c].host /\ t.via = task[c].via /\ t.link = task[c].link
    BY TaskType DEF TaskRecord
  <2>2. Becomes(c, t) BY <1>3 DEF Goes
  <2>3. Stage(t) = IF task[c].code = 0 THEN "open" ELSE "refused" BY <2>1 DEF Stage
  <2> HIDE DEF t, at
  <2>4. /\ stages' = [stages EXCEPT ![c] = Stage(t)]
        /\ targets' = targets /\ ways' = ways /\ links' = links
        /\ enabled' = enabled /\ stray' = stray
    BY <2>1, <2>2, MappedShows
  <2>5. CASE task[c].code = 0
    <3>1. stages[c] = "routed" /\ links[c] BY <1>1, <2>5, Images DEF Stage
    <3> QED BY <2>3, <2>4, <2>5, <3>1 DEF Service!Succeed
  <2>6. CASE task[c].code # 0
    <3>1. ~links[c] BY <1>1, <2>6, Images
    <3>2. stages[c] = "routed" \/ (stages[c] = "asked" /\ targets[c] = NoHost)
      BY <1>1, Images DEF Stage
    <3> QED BY <2>3, <2>4, <2>6, <3>1, <3>2 DEF Service!Refuse
  <2> QED BY <2>5, <2>6
<1> QED BY <1>4

\* A request is understood or not.
LEMMA MappedRequest ==
  ASSUME SocksInv, NEW c \in Client, Request(c)
  PROVE  Service!End(c) \/ \E h \in Host \cup {NoHost} : Service!Ask(c, h)
<1>1. /\ task[c].at = "request" /\ task[c].host = NoHost /\ task[c].via = "none"
      /\ task[c].link = FALSE
  BY TaskType DEF Request, At, TaskInv, Fresh
<1>2. stages[c] = "none" BY <1>1, Images DEF Stage
<1>3. ASSUME NEW t, Becomes(c, t), Stage(t) = "asked", t.host \in Host \cup {NoHost},
             t.via = "none", t.link = FALSE
      PROVE  \E h \in Host \cup {NoHost} : Service!Ask(c, h)
  <2>1. /\ stages' = [stages EXCEPT ![c] = "asked"] /\ targets' = [targets EXCEPT ![c] = t.host]
        /\ ways' = ways /\ links' = links
        /\ enabled' = enabled /\ stray' = stray
    <3>1. t.via = task[c].via /\ t.link = task[c].link BY <1>1, <1>3
    <3>2. Stage(t) = "asked" /\ Becomes(c, t) BY <1>3
    <3> QED BY <3>1, <3>2, MappedShows
  <2>2. Service!Ask(c, t.host) BY <1>2, <2>1 DEF Service!Ask
  <2> QED BY <1>3, <2>2
<1>4. CASE Ends(c) BY <1>4, MappedEnds
<1>5. ASSUME NEW code \in {7, 8}, Replies(c, code)
      PROVE  \E h \in Host \cup {NoHost} : Service!Ask(c, h)
  <2> DEFINE t == [task[c] EXCEPT !.at = "reply", !.code = code, !.link = code = 0]
  <2>1. t.at = "reply" /\ t.host = NoHost /\ t.via = "none" /\ t.link = FALSE
    BY <1>1, TaskType DEF TaskRecord
  <2>2. Becomes(c, t) BY <1>5 DEF Replies
  <2> HIDE DEF t
  <2>3. Stage(t) = "asked" BY <2>1 DEF Stage
  <2> QED BY <1>3, <2>1, <2>2, <2>3
<1>6. ASSUME NEW h \in Host, Becomes(c, [task[c] EXCEPT !.at = "route", !.host = h])
      PROVE  \E g \in Host \cup {NoHost} : Service!Ask(c, g)
  <2> DEFINE t == [task[c] EXCEPT !.at = "route", !.host = h]
  <2>1. t.at = "route" /\ t.host = h /\ t.via = "none" /\ t.link = FALSE
    BY <1>1, TaskType DEF TaskRecord
  <2>2. Becomes(c, t) BY <1>6
  <2> HIDE DEF t
  <2>3. Stage(t) = "asked" BY <2>1 DEF Stage
  <2> QED BY <1>3, <2>1, <2>2, <2>3
<1> QED BY <1>4, <1>5, <1>6 DEF Request

\* What a task does alone, in the terms of SocksService.
LEMMA MappedTaskStep ==
  ASSUME SocksInv, NEW c \in Client, TaskStep(c)
  PROVE  Service!Next \/ UNCHANGED Service!vars
<1>0. Ends(c) => Service!Next
  <2>1. Service!End(c) => Service!Next BY DEF Service!Next
  <2> QED BY <2>1, MappedEnds
<1>1. CASE ReadFails(c) BY <1>0, <1>1 DEF ReadFails
<1>2. CASE Route(c) BY <1>2, MappedRoute DEF Service!Next
<1>3. ASSUME Service!Link(c) PROVE Service!Next BY <1>3 DEF Service!Next
<1>4. CASE Dial(c) BY <1>3, <1>4, MappedReplies DEF Dial, At
<1>5. CASE PickWorker(c)
  <2>1. CASE Goes(c, "resolve")
    <3>1. Stage([task[c] EXCEPT !.at = "resolve"]) = Stage(task[c])
      BY <1>5, TaskType DEF PickWorker, At, Stage, TaskRecord, TaskInv, Dialling
    <3> QED BY <2>1, <3>1, MappedGoes
  <2> QED BY <1>3, <1>5, <2>1, MappedReplies DEF PickWorker, At
<1>6. CASE ResolveHost(c)
  <2>1. CASE Goes(c, "connect")
    <3>1. Stage([task[c] EXCEPT !.at = "connect"]) = Stage(task[c])
      BY <1>6, TaskType DEF ResolveHost, At, Stage, TaskRecord, TaskInv, Dialling
    <3> QED BY <2>1, <3>1, MappedGoes
  <2> QED BY <1>3, <1>6, <2>1, MappedReplies DEF ResolveHost, At
<1>7. CASE ReplyFails(c) BY <1>7, MappedReplyFails DEF Service!Next
<1>8. CASE Reply(c) BY <1>8, MappedReply DEF Service!Next
<1>9. CASE Refused(c) \/ RelayStops(c) BY <1>0, <1>9 DEF Refused, RelayStops
<1> QED BY <1>1, <1>2, <1>4, <1>5, <1>6, <1>7, <1>8, <1>9 DEF TaskStep

\* And what its peers do to it.
LEMMA MappedPeerStep ==
  ASSUME SocksInv, NEW c \in Client, PeerStep(c)
  PROVE  Service!Next \/ UNCHANGED Service!vars
<1>0. Ends(c) => Service!Next
  <2>1. Service!End(c) => Service!Next BY DEF Service!Next
  <2> QED BY <2>1, MappedEnds
<1>1. CASE Accept(c)
  <2> DEFINE t == Task("greeting", NoHost, "none", FALSE, 0, TRUE)
  <2>1. t.at = "greeting" /\ t.host = NoHost /\ t.via = "none" /\ t.link = FALSE BY DEF Task
  <2>2. /\ task[c].at = "idle" /\ task[c].host = NoHost /\ task[c].via = "none"
        /\ task[c].link = FALSE
    BY <1>1, TaskType DEF Accept, At, TaskInv, Fresh
  <2>3. Becomes(c, t) BY <1>1 DEF Accept
  <2> HIDE DEF t
  <2>4. Stage(t) = Stage(task[c]) BY <2>1, <2>2 DEF Stage
  <2> QED BY <2>1, <2>2, <2>3, <2>4, MappedStutters
<1>2. CASE ClientLeaves(c)
  <2> DEFINE t == [task[c] EXCEPT !.here = FALSE]
  <2>1. /\ t.at = task[c].at /\ t.host = task[c].host /\ t.via = task[c].via
        /\ t.link = task[c].link
    BY TaskType DEF TaskRecord
  <2>2. Becomes(c, t) BY <1>2 DEF ClientLeaves
  <2> HIDE DEF t
  <2>3. Stage(t) = Stage(task[c]) BY <2>1 DEF Stage
  <2> QED BY <2>1, <2>2, <2>3, MappedStutters
<1>3. CASE Greeting(c)
  <2>1. CASE Goes(c, "request")
    <3>1. Stage([task[c] EXCEPT !.at = "request"]) = Stage(task[c])
      BY <1>3, TaskType DEF Greeting, At, Stage, TaskRecord
    <3> QED BY <2>1, <3>1, MappedGoes
  <2> QED BY <1>0, <1>3, <2>1 DEF Greeting
<1>4. CASE Request(c)
  BY <1>4, MappedRequest DEF Service!Next
<1>5. CASE ConnectHost(c)
  <2>1. Service!Link(c) => Service!Next BY DEF Service!Next
  <2> QED BY <1>5, <2>1, MappedReplies DEF ConnectHost, At
<1>6. CASE RelayEnds(c) BY <1>0, <1>6 DEF RelayEnds
<1>7. CASE StrayEnds(c)
  <2>1. stages' = stages /\ targets' = targets /\ ways' = ways /\ links' = links
    BY <1>7 DEF StrayEnds, stages, targets, ways, links, Stage
  <2>2. Service!StrayGone(c) BY <1>7, <2>1 DEF StrayEnds, Service!StrayGone
  <2> QED BY <2>2 DEF Service!Next
<1> QED BY <1>1, <1>2, <1>3, <1>4, <1>5, <1>6, <1>7 DEF PeerStep

LEMMA MappedStep ==
  ASSUME SocksInv, SocksNext \/ UNCHANGED socksVars
  PROVE  Service!Next \/ UNCHANGED Service!vars
<1>1. ASSUME NEW c \in Client, TaskStep(c) \/ PeerStep(c)
      PROVE  Service!Next \/ UNCHANGED Service!vars
  BY <1>1, MappedTaskStep, MappedPeerStep
<1>2. ASSUME task' = task
      PROVE  stages' = stages /\ targets' = targets /\ ways' = ways /\ links' = links
  BY <1>2 DEF stages, targets, ways, links, Stage
<1>3. ASSUME NEW on \in BOOLEAN, Toggle(on) PROVE Service!Next
  <2>1. Service!Switch(on) BY <1>2, <1>3 DEF Toggle, Service!Switch
  <2> QED BY <2>1 DEF Service!Next
<1>4. CASE AbortTasks
  <2>1. \A c \in Client : task'[c] = NoTask BY <1>4 DEF AbortTasks
  <2>2. /\ Stage(NoTask) = "none" /\ NoTask.host = NoHost /\ NoTask.via = "none"
        /\ NoTask.link = FALSE
    BY DEF Stage, NoTask, Task
  <2>3. stages' = [c \in Client |-> "none"]
    <3>1. stages' = [c \in Client |-> Stage(task'[c])] BY DEF stages, Stage
    <3> QED BY <2>1, <2>2, <3>1
  <2>4. targets' = [c \in Client |-> NoHost] BY <2>1, <2>2 DEF targets
  <2>5. ways' = [c \in Client |-> "none"] BY <2>1, <2>2 DEF ways
  <2>6. links' = [c \in Client |-> FALSE] BY <2>1, <2>2 DEF links
  <2>7. enabled' = enabled BY <1>4 DEF AbortTasks
  <2>8. Service!Halt
    BY <1>4, <2>3, <2>4, <2>5, <2>6, <2>7 DEF AbortTasks, Service!Halt, Service!Over
  <2> QED BY <2>8 DEF Service!Next
<1>5. CASE UNCHANGED socksVars BY <1>2, <1>5 DEF socksVars, Service!vars
<1> QED BY <1>1, <1>3, <1>4, <1>5 DEF SocksNext

\* The SOCKS server implements SocksService (socks.rs, handle_pool and
\* via_netstack): every request is routed once, by the switch as it is then,
\* and answered once, with success only while an upstream connection is held,
\* and what it leaves behind is at most a tunnelled connection whose client
\* left before it was told (socks.rs:103).
THEOREM ServerImplementsService == SocksSpec => ServiceSpec
<1>1. SocksInit => Service!Init BY MappedInit
<1>2. SocksInv /\ [SocksNext]_socksVars => SocksInv' BY InvStep
<1>3. SocksInv /\ [SocksNext]_socksVars => [Service!Next]_Service!vars BY MappedStep
<1> QED BY <1>1, <1>2, <1>3, InvInit, PTL DEF SocksSpec, ServiceSpec, Service!Spec
=============================================================================
