------------------------------- MODULE MeshSse -------------------------------
(***************************************************************************)
(* Field-aware subscriptions (sse/src/handler.ts and its adapters) over    *)
(* the in-memory store (pubsub/src/memory.ts).                             *)
(*                                                                         *)
(* A stream acknowledges the connection, subscribes to its record's        *)
(* channel and, at every notification, starts pushSnapshot: a MeshQL read  *)
(* of its own whose result is written when it arrives.  Reads of one       *)
(* stream are not ordered against each other.  The application commits a   *)
(* write to a record and then calls notifyEntityUpdate; it may also        *)
(* subscribe handlers of its own and keep their handles.                   *)
(*                                                                         *)
(* A record is its version.  Heartbeats are writes without data.           *)
(***************************************************************************)
EXTENDS HandlerRegistry, Naturals, Sequences

CONSTANTS
  Streams,    \* the subscriptions that are SSE streams; the others are handlers
              \* the application registered itself
  AdapterOf,  \* stream -> "express", "fastify" or "hono"
  MaxWrites,  \* bound: writes per record
  MaxErrors   \* bound: snapshot reads that fail

ASSUME StreamsAssumption ==
  Streams \subseteq Subs /\ AdapterOf \in [Streams -> {"express", "fastify", "hono"}]
ASSUME BoundsAssumption == MaxWrites \in Nat /\ MaxErrors \in Nat

VARIABLES
  version,   \* channel -> version of the record it stands for
  unsaid,    \* channel -> committed writes whose notifyEntityUpdate is still to come
  said,      \* channel -> notifications published
  conn,      \* stream -> "new", "open", "ended" (by the server) or "closed" (by the client)
  pulls,     \* stream -> pushSnapshot calls running: their number and what they read
  out,       \* stream -> versions written as `update` events
  due,       \* stream -> version of the record at the last notification it received
  errors,    \* stream -> `error` events written
  crossed,   \* streams for which two pushSnapshot calls overlapped
  strayed,   \* channels on which a handle was unsubscribed again
  crashed    \* a promise rejection or exception nobody handles ended the process

appVars == <<version, unsaid, said>>
streamVars == <<conn, pulls, out, due, errors, crossed>>
sseVars == <<registryVars, appVars, streamVars, strayed, crashed>>

Pull == [id : Nat, read : BOOLEAN, got : Nat]
Started(n) == [id |-> n, read |-> FALSE, got |-> 0]

SseTypeOK ==
  /\ RegistryTypeOK
  /\ version \in [Channels -> 0..MaxWrites]
  /\ unsaid \in [Channels -> 0..MaxWrites]
  /\ said \in [Channels -> 0..MaxWrites]
  /\ conn \in [Streams -> {"new", "open", "ended", "closed"}]
  /\ \A s \in Streams : pulls[s] \subseteq Pull
  /\ out \in [Streams -> Seq(0..MaxWrites)]
  /\ due \in [Streams -> 0..MaxWrites]
  /\ errors \in [Streams -> Nat]
  /\ crossed \in SUBSET Streams
  /\ strayed \in SUBSET Channels
  /\ crashed \in BOOLEAN

SseInit ==
  /\ RegistryInit
  /\ version = [c \in Channels |-> 0]
  /\ unsaid = [c \in Channels |-> 0]
  /\ said = [c \in Channels |-> 0]
  /\ conn = [s \in Streams |-> "new"]
  /\ pulls = [s \in Streams |-> {}]
  /\ out = [s \in Streams |-> <<>>]
  /\ due = [s \in Streams |-> 0]
  /\ errors = [s \in Streams |-> 0]
  /\ crossed = {}
  /\ strayed = {}
  /\ crashed = FALSE

-----------------------------------------------------------------------------
(* Streams *)

(* handleMeshSse: initialize, subscribe, heartbeat and onClose, in one go. *)
Connect(s) ==
  /\ ~crashed
  /\ Register(s)
  /\ conn' = [conn EXCEPT ![s] = "open"]
  /\ UNCHANGED <<appVars, pulls, out, due, errors, crossed, strayed, crashed>>

(* The Hono adapter closes the controller as soon as handleMeshSse returns. *)
ControllerClose(s) ==
  /\ ~crashed
  /\ AdapterOf[s] = "hono" /\ conn[s] = "open"
  /\ conn' = [conn EXCEPT ![s] = "ended"]
  /\ UNCHANGED <<registryVars, appVars, pulls, out, due, errors, crossed, strayed, crashed>>

(* The client goes away: the adapter's close event runs the onClose callback. *)
ClientCloseKeepsHandler(s) ==
  /\ ~crashed
  /\ conn[s] = "open"
  /\ conn' = [conn EXCEPT ![s] = "closed"]
  /\ live' = live \ {s}
  /\ UNCHANGED <<map, members, closure, appVars, pulls, out, due, errors, crossed, strayed,
                 crashed>>

ClientClose(s) ==
  /\ ~crashed
  /\ conn[s] = "open"
  /\ Unregister(s)
  /\ conn' = [conn EXCEPT ![s] = "closed"]
  /\ UNCHANGED <<appVars, pulls, out, due, errors, crossed, strayed, crashed>>

ReadLags(s) == \E p \in pulls[s] :
  /\ ~crashed
  /\ ~p.read
  /\ \E v \in {version[ChannelOf[s]], version[ChannelOf[s]] - 1} \cap Nat :
        pulls' = [pulls EXCEPT ![s] = (@ \ {p}) \cup {[p EXCEPT !.read = TRUE, !.got = v]}]
  /\ UNCHANGED <<registryVars, appVars, conn, out, due, errors, crossed, strayed, crashed>>

(* pushSnapshot's read of the record, through mesh.execute. *)
Read(s) == \E p \in pulls[s] :
  /\ ~crashed
  /\ ~p.read
  /\ LET done == [p EXCEPT !.read = TRUE, !.got = version[ChannelOf[s]]]
     IN pulls' = [pulls EXCEPT ![s] = (@ \ {p}) \cup {done}]
  /\ UNCHANGED <<registryVars, appVars, conn, out, due, errors, crossed, strayed, crashed>>

(***************************************************************************)
(* A write to a stream that has ended throws; in pushSnapshot the throw is *)
(* caught, the error event is written, and that throws again, unhandled.   *)
(* After the client has gone, Node drops what is written.                  *)
(***************************************************************************)
WriteThrows(s) == conn[s] = "ended"

PushUpdate(s) == \E p \in pulls[s] :
  /\ ~crashed
  /\ p.read
  /\ pulls' = [pulls EXCEPT ![s] = @ \ {p}]
  /\ out' = IF conn[s] = "open" THEN [out EXCEPT ![s] = Append(@, p.got)] ELSE out
  /\ crashed' = WriteThrows(s)
  /\ UNCHANGED <<registryVars, appVars, conn, due, errors, crossed, strayed>>

(* The read fails: an error event takes the place of the update. *)
PushError(s) == \E p \in pulls[s] :
  /\ ~crashed
  /\ ~p.read /\ errors[s] < MaxErrors
  /\ pulls' = [pulls EXCEPT ![s] = @ \ {p}]
  /\ errors' = [errors EXCEPT ![s] = @ + 1]
  /\ crashed' = WriteThrows(s)
  /\ UNCHANGED <<registryVars, appVars, conn, out, due, crossed, strayed>>

(* The interval fires: its exception is nobody's to catch. *)
Heartbeat(s) ==
  /\ ~crashed
  /\ s \in live /\ WriteThrows(s)
  /\ crashed' = TRUE
  /\ UNCHANGED <<registryVars, appVars, streamVars, strayed>>

-----------------------------------------------------------------------------
(* The application *)

Write(c) ==
  /\ ~crashed
  /\ version[c] < MaxWrites
  /\ version' = [version EXCEPT ![c] = @ + 1]
  /\ unsaid' = [unsaid EXCEPT ![c] = @ + 1]
  /\ UNCHANGED <<registryVars, said, streamVars, strayed, crashed>>

(***************************************************************************)
(* notifyEntityUpdate: InMemoryPubSubStore.publish calls every handler of  *)
(* the channel, and each stream's handler starts a pushSnapshot.           *)
(***************************************************************************)
NotifyIdleOnly(c) ==
  LET woken == {s \in Reach(c) \cap Streams : pulls[s] = {}} IN
  /\ ~crashed
  /\ unsaid[c] > 0
  /\ unsaid' = [unsaid EXCEPT ![c] = @ - 1]
  /\ said' = [said EXCEPT ![c] = @ + 1]
  /\ pulls' = [s \in Streams |-> IF s \in woken
                 THEN pulls[s] \cup {Started(said[c] + 1)} ELSE pulls[s]]
  /\ due' = [s \in Streams |-> IF s \in Reach(c) THEN version[c] ELSE due[s]]
  /\ UNCHANGED <<registryVars, version, conn, out, errors, crossed, strayed, crashed>>

NotifyUnasked(c) ==
  /\ ~crashed
  /\ unsaid' = [unsaid EXCEPT ![c] = @ - 1]
  /\ said' = [said EXCEPT ![c] = @ + 1]
  /\ UNCHANGED <<registryVars, version, streamVars, strayed, crashed>>

Notify(c) ==
  LET woken == Reach(c) \cap Streams IN
  /\ ~crashed
  /\ unsaid[c] > 0
  /\ unsaid' = [unsaid EXCEPT ![c] = @ - 1]
  /\ said' = [said EXCEPT ![c] = @ + 1]
  /\ pulls' = [s \in Streams |-> IF s \in woken
                 THEN pulls[s] \cup {Started(said[c] + 1)} ELSE pulls[s]]
  /\ due' = [s \in Streams |-> IF s \in woken THEN version[c] ELSE due[s]]
  /\ crossed' = crossed \cup {s \in woken : pulls[s] # {}}
  /\ UNCHANGED <<registryVars, version, conn, out, errors, strayed, crashed>>

AppSubscribe(s) ==
  /\ ~crashed
  /\ s \notin Streams
  /\ Register(s)
  /\ UNCHANGED <<appVars, streamVars, strayed, crashed>>

(* An application may call unsubscribe() on a handle more than once. *)
AppUnsubscribe(s) ==
  /\ ~crashed
  /\ s \notin Streams
  /\ Unregister(s)
  /\ strayed' = IF s \in live THEN strayed ELSE strayed \cup {ChannelOf[s]}
  /\ UNCHANGED <<appVars, streamVars, crashed>>

SseNext ==
  \/ \E s \in Streams : \/ Connect(s) \/ ControllerClose(s) \/ ClientClose(s)
                        \/ Read(s) \/ PushUpdate(s) \/ PushError(s) \/ Heartbeat(s)
  \/ \E c \in Channels : Write(c) \/ Notify(c)
  \/ \E s \in Subs \ Streams : AppSubscribe(s) \/ AppUnsubscribe(s)

(***************************************************************************)
(* A read that was started ends and its result is written; the call of     *)
(* notifyEntityUpdate follows the write it is about.  Nobody has to        *)
(* connect, leave, write or fail.                                          *)
(***************************************************************************)
SseFairness ==
  /\ \A s \in Streams : WF_sseVars(Read(s)) /\ WF_sseVars(PushUpdate(s))
  /\ \A s \in Streams : WF_sseVars(ControllerClose(s))
  /\ \A c \in Channels : WF_sseVars(Notify(c))

SseSpec == SseInit /\ [][SseNext]_sseVars /\ SseFairness

-----------------------------------------------------------------------------
(* Properties *)

(***************************************************************************)
(* A stream or handler that nobody cancelled still receives its channel's  *)
(* notifications, whatever others subscribed and left, unless somebody     *)
(* unsubscribed a handle of that channel twice: the second call works on a *)
(* Set the channel no longer uses, finds it empty, and deletes the Set of  *)
(* the subscribers that came later.                                        *)
(***************************************************************************)
ReachableUnlessStrayed == \A s \in live : s \in Reach(ChannelOf[s]) \/ ChannelOf[s] \in strayed

(***************************************************************************)
(* With no snapshot running, an open stream has been told the record as it *)
(* was at the last notification, or a newer one, at some point: no         *)
(* notification is swallowed by a snapshot already under way.              *)
(***************************************************************************)
NotificationsAnswered ==
  \A s \in Streams : conn[s] = "open" /\ pulls[s] = {} /\ errors[s] = 0 /\ due[s] > 0 =>
    \E i \in DOMAIN out[s] : out[s][i] >= due[s]

(***************************************************************************)
(* The versions a stream is told never go back, unless two snapshots of    *)
(* the stream overlapped: then the older one may be written last, and stay *)
(* on the client's screen until the next change.                           *)
(***************************************************************************)
ForwardUnlessCrossed ==
  \A s \in Streams \ crossed : \A i, j \in DOMAIN out[s] : i <= j => out[s][i] <= out[s][j]

(* Nothing of a client that left stays behind in the store. *)
LeaversAreUnregistered ==
  \A s \in Streams : conn[s] = "closed" => \A c \in Channels : s \notin Reach(c)

(***************************************************************************)
(* "re-runs the same MeshQL selection as a GET when pub/sub notifications  *)
(* arrive" (handler.ts): a write to the record of an open stream is        *)
(* followed by an update or an error event, unless the client leaves, the  *)
(* stream was cut off by a stray unsubscribe, or the process dies.         *)
(***************************************************************************)
Told(s, v) == (\E i \in DOMAIN out[s] : out[s][i] >= v) \/ errors[s] > 0
WritesAreTold ==
  \A s \in Streams, v \in 1..MaxWrites :
    conn[s] = "open" /\ version[ChannelOf[s]] = v /\ unsaid[ChannelOf[s]] > 0 ~>
      Told(s, v) \/ conn[s] \in {"closed", "ended"} \/ ChannelOf[s] \in strayed \/ crashed

(***************************************************************************)
(* The same sentence as a safety property: a stream the store notifies is  *)
(* one that can still be written to.  The Hono adapter breaks it: it       *)
(* closes the response right after the handshake and leaves subscription   *)
(* and heartbeat in place.                                                 *)
(***************************************************************************)
NotifiedStreamsAreOpen == \A s \in Streams \cap live : conn[s] = "open"

(***************************************************************************)
(* Why the safety properties hold.                                         *)
(***************************************************************************)

(* The handlers of streams come and go with their connection, once. *)
StreamHandlers ==
  \A s \in Streams :
    /\ s \in live <=> conn[s] \in {"open", "ended"}
    /\ closure[s] = NoSet <=> conn[s] = "new"

(* Only a handle that was used twice takes a channel's Set from its handlers. *)
SetsUnlessStrayed == \A c \in Channels \ strayed : OneSet(c)

(* A record has as many versions as it was announced or is to be, and what
   its streams were told, read and wrote is among them. *)
Versions ==
  /\ \A c \in Channels : unsaid[c] + said[c] = version[c]
  /\ \A s \in Streams :
       /\ due[s] <= version[ChannelOf[s]]
       /\ \A p \in pulls[s] : p.got <= version[ChannelOf[s]]
       /\ \A i \in DOMAIN out[s] : out[s][i] <= version[ChannelOf[s]]

(* A notification that is not answered has a snapshot under way that will
   answer it, and none came before the stream was connected. *)
Answering ==
  \A s \in Streams :
    /\ conn[s] = "new" => due[s] = 0
    /\ conn[s] = "open" /\ errors[s] = 0 /\ due[s] > 0 =>
         \/ \E p \in pulls[s] : p.read => p.got >= due[s]
         \/ \E i \in DOMAIN out[s] : out[s][i] >= due[s]

(* A stream whose snapshots never overlapped has one at most, which has read
   nothing older than what was written. *)
OneAtATime ==
  \A s \in Streams \ crossed :
    /\ \A p, r \in pulls[s] : p = r
    /\ \A p \in pulls[s] : p.read => \A i \in DOMAIN out[s] : out[s][i] <= p.got

SseInv ==
  /\ SseTypeOK /\ pulls \in [Streams -> SUBSET Pull]
  /\ HandlesInv /\ SetsUnlessStrayed /\ StreamHandlers
  /\ Versions /\ Answering /\ OneAtATime /\ ForwardUnlessCrossed

=============================================================================
