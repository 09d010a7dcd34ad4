---------------------------- MODULE MeshSseProofs ----------------------------
(***************************************************************************)
(* The safety properties of the streams, for any channels, streams,        *)
(* application handlers and adapters: SseInv is inductive and implies      *)
(* them.  Its first half is about who is registered, its second about what *)
(* the streams were told, are reading and have written.                    *)
(***************************************************************************)
EXTENDS MeshSse, StoreLemmas

HandlersInv ==
  /\ RegistryTypeOK /\ HandlesInv /\ SetsUnlessStrayed /\ StreamHandlers
  /\ conn \in [Streams -> {"new", "open", "ended", "closed"}]
  /\ strayed \in SUBSET Channels

ContentTypeOK ==
  /\ version \in [Channels -> 0..MaxWrites]
  /\ unsaid \in [Channels -> 0..MaxWrites]
  /\ said \in [Channels -> 0..MaxWrites]
  /\ pulls \in [Streams -> SUBSET Pull]
  /\ out \in [Streams -> Seq(0..MaxWrites)]
  /\ due \in [Streams -> 0..MaxWrites]
  /\ errors \in [Streams -> Nat]
  /\ crossed \in SUBSET Streams

ContentInv == ContentTypeOK /\ Versions /\ Answering /\ OneAtATime /\ ForwardUnlessCrossed

(* The invariant speaks of handlers and of what streams are told. *)
LEMMA Halves == SseInv <=> HandlersInv /\ ContentInv /\ crashed \in BOOLEAN
BY DEF SseInv, HandlersInv, ContentInv, ContentTypeOK, SseTypeOK

(* Every stream is on a channel. *)
LEMMA StreamChannel == \A s \in Streams : s \in Subs /\ ChannelOf[s] \in Channels
BY StreamsAssumption, ChannelAssumption

-----------------------------------------------------------------------------
(* Who is registered *)

(* What is said of handlers depends on the table and the connections alone. *)
LEMMA SameHandlers ==
  ASSUME HandlersInv, UNCHANGED <<registryVars, conn, strayed>>
  PROVE  HandlersInv'
BY DEF HandlersInv, RegistryTypeOK, HandlesInv, SetsUnlessStrayed, OneSet, StreamHandlers,
       registryVars

(* A handshake registers the stream's handler. *)
LEMMA ConnectHandlers ==
  ASSUME HandlersInv, NEW s \in Streams, Connect(s)
  PROVE  HandlersInv'
<1>1. s \in Subs /\ Register(s) /\ conn' = [conn EXCEPT ![s] = "open"] /\ strayed' = strayed
  BY StreamChannel DEF Connect
<1>2. RegistryTypeOK' /\ HandlesInv' /\ SetsUnlessStrayed'
  BY <1>1, RegisterKeeps DEF HandlersInv, SetsUnlessStrayed
<1>3. StreamHandlers'
  <2>1. /\ live' = live \cup {s}
        /\ closure' = [closure EXCEPT ![s] = IF map[ChannelOf[s]] = NoSet THEN s ELSE map[ChannelOf[s]]]
    BY <1>1 DEF Register
  <2>2. closure' = [closure EXCEPT ![s] = closure'[s]] /\ closure'[s] # NoSet
    BY <1>1, <2>1, NoSetAssumption DEF HandlersInv, RegistryTypeOK
  <2> QED
    BY <1>1, <2>1, <2>2, StreamChannel DEF HandlersInv, StreamHandlers, RegistryTypeOK
<1> QED
  BY <1>1, <1>2, <1>3 DEF HandlersInv

(* A client leaves at most once, so its handle is used once. *)
LEMMA CloseHandlers ==
  ASSUME HandlersInv, NEW s \in Streams, ClientClose(s)
  PROVE  HandlersInv'
<1>1. /\ s \in Subs /\ conn[s] = "open" /\ Unregister(s)
      /\ conn' = [conn EXCEPT ![s] = "closed"] /\ strayed' = strayed
  BY StreamChannel DEF ClientClose
<1>2. s \in live
  BY <1>1 DEF HandlersInv, StreamHandlers
<1>3. RegistryTypeOK' /\ HandlesInv' /\ SetsUnlessStrayed'
  BY <1>1, <1>2, UnregisterKeeps DEF HandlersInv, SetsUnlessStrayed
<1>4. StreamHandlers'
  <2>1. live' = live \ {s} /\ closure' = closure
    BY <1>1 DEF Unregister
  <2> QED
    BY <1>1, <2>1 DEF HandlersInv, StreamHandlers
<1> QED
  BY <1>1, <1>3, <1>4 DEF HandlersInv

(* The Hono adapter's close leaves the handler where it is. *)
LEMMA EndHandlers ==
  ASSUME HandlersInv, NEW s \in Streams, ControllerClose(s)
  PROVE  HandlersInv'
<1>1. /\ conn[s] = "open" /\ conn' = [conn EXCEPT ![s] = "ended"]
      /\ UNCHANGED <<registryVars, strayed>>
  BY DEF ControllerClose
<1>2. StreamHandlers'
  BY <1>1 DEF HandlersInv, StreamHandlers, registryVars
<1> QED
  BY <1>1, <1>2 DEF HandlersInv, RegistryTypeOK, HandlesInv, SetsUnlessStrayed, OneSet, registryVars

(* The application may use a handle again, which marks its channel. *)
LEMMA AppHandlers ==
  ASSUME HandlersInv, NEW s \in Subs \ Streams, AppSubscribe(s) \/ AppUnsubscribe(s)
  PROVE  HandlersInv'
<1>1. conn' = conn /\ ChannelOf[s] \in Channels
  BY ChannelAssumption DEF AppSubscribe, AppUnsubscribe, streamVars
<1>2. CASE AppSubscribe(s)
  <2>1. Register(s) /\ strayed' = strayed
    BY <1>2 DEF AppSubscribe
  <2>2. RegistryTypeOK' /\ HandlesInv' /\ SetsUnlessStrayed'
    BY <2>1, RegisterKeeps DEF HandlersInv, SetsUnlessStrayed
  <2>3. StreamHandlers'
    BY <1>1, <2>1 DEF HandlersInv, StreamHandlers, Register, RegistryTypeOK
  <2> QED
    BY <1>1, <2>1, <2>2, <2>3 DEF HandlersInv
<1>3. CASE AppUnsubscribe(s)
  <2>1. /\ Unregister(s)
        /\ strayed' = IF s \in live THEN strayed ELSE strayed \cup {ChannelOf[s]}
    BY <1>3 DEF AppUnsubscribe
  <2>2. RegistryTypeOK' /\ HandlesInv'
    BY <2>1, UnregisterKeeps DEF HandlersInv
  <2>3. SetsUnlessStrayed'
    BY <2>1, UnregisterKeeps DEF HandlersInv, SetsUnlessStrayed
  <2>4. StreamHandlers'
    BY <1>1, <2>1 DEF HandlersInv, StreamHandlers, Unregister
  <2> QED
    BY <1>1, <2>1, <2>2, <2>3, <2>4 DEF HandlersInv
<1> QED
  BY <1>2, <1>3

-----------------------------------------------------------------------------
(* What streams were told, are reading and have written *)

(* What is said of content depends on versions, snapshots and output alone. *)
LEMMA SameContent ==
  ASSUME ContentInv, UNCHANGED <<appVars, streamVars>>
  PROVE  ContentInv'
BY DEF ContentInv, ContentTypeOK, Versions, Answering, OneAtATime, ForwardUnlessCrossed,
       appVars, streamVars

(* A stream that has just been connected owes nothing; one that was open and
   is no longer owes nothing any more. *)
LEMMA ConnectionContent ==
  ASSUME ContentInv, NEW s \in Streams, conn \in [Streams -> {"new", "open", "ended", "closed"}],
         UNCHANGED <<appVars, pulls, out, due, errors, crossed>>,
         \/ conn[s] = "new" /\ conn' = [conn EXCEPT ![s] = "open"]
         \/ \E to \in {"ended", "closed"} : conn' = [conn EXCEPT ![s] = to]
  PROVE  ContentInv'
<1>1. Answering'
  <2> SUFFICES ASSUME NEW t \in Streams
               PROVE  /\ conn'[t] = "new" => due[t] = 0
                      /\ conn'[t] = "open" /\ errors[t] = 0 /\ due[t] > 0 =>
                           \/ \E p \in pulls[t] : p.read => p.got >= due[t]
                           \/ \E i \in DOMAIN out[t] : out[t][i] >= due[t]
    BY DEF Answering
  <2>1. /\ conn[t] = "new" => due[t] = 0
        /\ conn[t] = "open" /\ errors[t] = 0 /\ due[t] > 0 =>
             \/ \E p \in pulls[t] : p.read => p.got >= due[t]
             \/ \E i \in DOMAIN out[t] : out[t][i] >= due[t]
    BY DEF ContentInv, Answering
  <2>2. conn'[t] = conn[t] \/ (conn[t] = "new" /\ conn'[t] = "open") \/ conn'[t] \in {"ended", "closed"}
    OBVIOUS
  <2> QED
    BY <2>1, <2>2 DEF ContentInv, ContentTypeOK
<1> QED
  BY <1>1 DEF ContentInv, ContentTypeOK, Versions, OneAtATime, ForwardUnlessCrossed, appVars

(* A write makes a version that is still to be announced. *)
LEMMA WriteContent ==
  ASSUME ContentInv, NEW c \in Channels, Write(c)
  PROVE  ContentInv'
<1> USE BoundsAssumption
<1>1. /\ version[c] < MaxWrites
      /\ version' = [version EXCEPT ![c] = @ + 1]
      /\ unsaid' = [unsaid EXCEPT ![c] = @ + 1]
      /\ UNCHANGED <<said, streamVars>>
  BY DEF Write
<1>2. /\ version \in [Channels -> 0..MaxWrites] /\ unsaid \in [Channels -> 0..MaxWrites]
      /\ said \in [Channels -> 0..MaxWrites] /\ unsaid[c] + said[c] = version[c]
  BY DEF ContentInv, ContentTypeOK, Versions
<1>3. ContentTypeOK'
  BY <1>1, <1>2 DEF ContentInv, ContentTypeOK, streamVars
<1>4. \A d \in Channels : version[d] <= version'[d] /\ unsaid'[d] + said'[d] = version'[d]
  BY <1>1, <1>2 DEF ContentInv, Versions
<1>5. Versions'
  <2> SUFFICES ASSUME NEW s \in Streams
               PROVE  /\ due[s] <= version'[ChannelOf[s]]
                      /\ \A p \in pulls[s] : p.got <= version'[ChannelOf[s]]
                      /\ \A i \in DOMAIN out[s] : out[s][i] <= version'[ChannelOf[s]]
    BY <1>1, <1>4 DEF Versions, streamVars
  <2>1. version[ChannelOf[s]] <= version'[ChannelOf[s]]
    BY <1>4, StreamChannel
  <2>2. version[ChannelOf[s]] \in Nat /\ version'[ChannelOf[s]] \in Nat
    BY <1>2, <1>3, StreamChannel DEF ContentTypeOK
  <2>3. /\ due[s] \in Nat /\ \A p \in pulls[s] : p.got \in Nat
        /\ \A i \in DOMAIN out[s] : out[s][i] \in Nat
    BY DEF ContentInv, ContentTypeOK, Pull
  <2> QED
    BY <2>1, <2>2, <2>3 DEF ContentInv, Versions
<1> QED
  BY <1>1, <1>3, <1>5 DEF ContentInv, Answering, OneAtATime, ForwardUnlessCrossed, streamVars

(* A notification reaches registered streams of its channel only, and leaves
   each of them a snapshot that has read nothing yet. *)
LEMMA NotifyContent ==
  ASSUME HandlersInv, ContentInv, NEW c \in Channels, Notify(c)
  PROVE  ContentInv'
<1> USE BoundsAssumption
<1> DEFINE woken == Reach(c) \cap Streams
           new == Started(said[c] + 1)
<1>1. /\ unsaid[c] > 0
      /\ unsaid' = [unsaid EXCEPT ![c] = @ - 1]
      /\ said' = [said EXCEPT ![c] = @ + 1]
      /\ pulls' = [s \in Streams |-> IF s \in woken THEN pulls[s] \cup {new} ELSE pulls[s]]
      /\ due' = [s \in Streams |-> IF s \in woken THEN version[c] ELSE due[s]]
      /\ crossed' = crossed \cup {s \in woken : pulls[s] # {}}
      /\ UNCHANGED <<version, conn, out, errors>>
  BY DEF Notify
<1>2. /\ version \in [Channels -> 0..MaxWrites] /\ unsaid \in [Channels -> 0..MaxWrites]
      /\ said \in [Channels -> 0..MaxWrites]
      /\ \A d \in Channels : unsaid[d] + said[d] = version[d]
  BY DEF ContentInv, ContentTypeOK, Versions
<1>3. new \in Pull /\ new.read = FALSE /\ new.got = 0
  BY <1>2 DEF Pull, Started
<1>4. \A s \in woken : s \in Streams /\ ChannelOf[s] = c /\ conn[s] # "new"
  <2>1. \A s \in woken : s \in live /\ ChannelOf[s] = c
    BY ReachIsOfChannel DEF HandlersInv
  <2> QED
    BY <2>1 DEF HandlersInv, StreamHandlers
<1> HIDE DEF woken, new
<1>5. ContentTypeOK'
  <2>1. said[c] + 1 \in 0..MaxWrites /\ unsaid[c] - 1 \in 0..MaxWrites
    BY <1>1, <1>2
  <2>2. version[c] \in 0..MaxWrites
    BY <1>2
  <2>3. unsaid' \in [Channels -> 0..MaxWrites] /\ said' \in [Channels -> 0..MaxWrites]
    BY <1>1, <1>2, <2>1
  <2>4. pulls' \in [Streams -> SUBSET Pull] /\ due' \in [Streams -> 0..MaxWrites]
    BY <1>1, <1>3, <2>2 DEF ContentInv, ContentTypeOK
  <2>5. crossed' \in SUBSET Streams
    BY <1>1, <1>4 DEF ContentInv, ContentTypeOK
  <2> QED
    BY <1>1, <2>3, <2>4, <2>5 DEF ContentInv, ContentTypeOK
<1>6. Versions'
  <2>1. \A d \in Channels : unsaid'[d] + said'[d] = version'[d]
    BY <1>1, <1>2
  <2>2. ASSUME NEW s \in Streams
        PROVE  due'[s] <= version[ChannelOf[s]]
    BY <1>1, <1>2, <1>4, <2>2, StreamChannel DEF ContentInv, Versions
  <2>3. ASSUME NEW s \in Streams, NEW p \in pulls'[s]
        PROVE  p.got <= version[ChannelOf[s]]
    <3>1. CASE p \in pulls[s]
      BY <3>1 DEF ContentInv, Versions
    <3>2. CASE p = new
      BY <1>2, <1>3, <3>2, StreamChannel
    <3> QED
      BY <1>1, <2>3, <3>1, <3>2
  <2> QED
    BY <1>1, <2>1, <2>2, <2>3 DEF ContentInv, Versions
<1>7. Answering'
  <2> SUFFICES ASSUME NEW s \in Streams
               PROVE  /\ conn[s] = "new" => due'[s] = 0
                      /\ conn[s] = "open" /\ errors[s] = 0 /\ due'[s] > 0 =>
                           \/ \E p \in pulls'[s] : p.read => p.got >= due'[s]
                           \/ \E i \in DOMAIN out[s] : out[s][i] >= due'[s]
    BY <1>1 DEF Answering
  <2>1. CASE s \in woken
    BY <1>1, <1>3, <1>4, <2>1
  <2>2. CASE s \notin woken
    BY <1>1, <2>2 DEF ContentInv, Answering
  <2> QED
    BY <2>1, <2>2
<1>8. OneAtATime'
  <2> SUFFICES ASSUME NEW s \in Streams \ crossed'
               PROVE  /\ \A p, r \in pulls'[s] : p = r
                      /\ \A p \in pulls'[s] : p.read => \A i \in DOMAIN out[s] : out[s][i] <= p.got
    BY <1>1 DEF OneAtATime
  <2>1. CASE s \in woken
    <3>1. pulls[s] = {}
      BY <1>1, <2>1
    <3> QED
      BY <1>1, <1>3, <2>1, <3>1
  <2>2. CASE s \notin woken
    <3>1. s \in Streams \ crossed /\ pulls'[s] = pulls[s]
      BY <1>1, <2>2
    <3> QED
      BY <3>1 DEF ContentInv, OneAtATime
  <2> QED
    BY <2>1, <2>2
<1>9. ForwardUnlessCrossed'
  BY <1>1 DEF ContentInv, ForwardUnlessCrossed
<1> QED
  BY <1>5, <1>6, <1>7, <1>8, <1>9 DEF ContentInv

(* What is read is the current version, which is the newest. *)
LEMMA ReadContent ==
  ASSUME ContentInv, NEW s \in Streams, Read(s)
  PROVE  ContentInv'
<1> USE BoundsAssumption
<1> DEFINE now == version[ChannelOf[s]]
<1>1. PICK p \in pulls[s] :
        /\ ~p.read
        /\ pulls' = [pulls EXCEPT ![s] = (@ \ {p}) \cup {[p EXCEPT !.read = TRUE, !.got = now]}]
        /\ UNCHANGED <<appVars, conn, out, due, errors, crossed>>
  BY DEF Read
<1> DEFINE done == [p EXCEPT !.read = TRUE, !.got = now]
<1>2. now \in 0..MaxWrites /\ due[s] <= now /\ \A i \in DOMAIN out[s] : out[s][i] <= now
  BY StreamChannel DEF ContentInv, ContentTypeOK, Versions
<1>3. done \in Pull /\ done.read = TRUE /\ done.got = now
  <2>1. p \in [id : Nat, read : BOOLEAN, got : Nat]
    BY DEF ContentInv, ContentTypeOK, Pull
  <2>2. now \in Nat
    BY <1>2
  <2> HIDE DEF now
  <2> QED
    BY <2>1, <2>2 DEF Pull
<1> HIDE DEF done
<1>4. /\ pulls'[s] = (pulls[s] \ {p}) \cup {done}
      /\ \A t \in Streams \ {s} : pulls'[t] = pulls[t]
  BY <1>1 DEF ContentInv, ContentTypeOK, done
<1>5. ContentTypeOK'
  <2>1. pulls' \in [Streams -> SUBSET Pull]
    BY <1>1, <1>3 DEF ContentInv, ContentTypeOK, done
  <2> QED
    BY <1>1, <2>1 DEF ContentInv, ContentTypeOK, appVars
<1>6. Versions'
  <2>1. \A t \in Streams : \A r \in pulls'[t] : r.got <= version[ChannelOf[t]]
    BY <1>2, <1>3, <1>4 DEF ContentInv, Versions
  <2> QED
    BY <1>1, <2>1 DEF ContentInv, Versions, appVars
<1>7. Answering'
  <2> SUFFICES ASSUME NEW t \in Streams, conn[t] = "open", errors[t] = 0, due[t] > 0,
                      ~\E i \in DOMAIN out[t] : out[t][i] >= due[t]
               PROVE  \E r \in pulls'[t] : r.read => r.got >= due[t]
    BY <1>1 DEF ContentInv, Answering
  <2>1. PICK r \in pulls[t] : r.read => r.got >= due[t]
    BY DEF ContentInv, Answering
  <2>2. due[s] \in Nat
    BY DEF ContentInv, ContentTypeOK
  <2> QED
    BY <1>2, <1>3, <1>4, <2>1, <2>2
<1>8. OneAtATime'
  <2> SUFFICES ASSUME NEW t \in Streams \ crossed
               PROVE  /\ \A r, u \in pulls'[t] : r = u
                      /\ \A r \in pulls'[t] : r.read => \A i \in DOMAIN out[t] : out[t][i] <= r.got
    BY <1>1 DEF OneAtATime
  <2>1. CASE t = s
    <3>1. pulls'[s] = {done}
      BY <1>4, <2>1 DEF ContentInv, OneAtATime
    <3> QED
      BY <1>2, <1>3, <2>1, <3>1
  <2>2. CASE t # s
    BY <1>4, <2>2 DEF ContentInv, OneAtATime
  <2> QED
    BY <2>1, <2>2
<1> QED
  BY <1>1, <1>5, <1>6, <1>7, <1>8 DEF ContentInv, ForwardUnlessCrossed

(* A stream's writes are in order when its snapshots are taken one by one. *)
LEMMA PushUpdateContent ==
  ASSUME ContentInv, NEW s \in Streams, PushUpdate(s)
  PROVE  ContentInv'
<1> USE BoundsAssumption
<1>1. PICK p \in pulls[s] :
        /\ p.read
        /\ pulls' = [pulls EXCEPT ![s] = @ \ {p}]
        /\ out' = IF conn[s] = "open" THEN [out EXCEPT ![s] = Append(@, p.got)] ELSE out
        /\ UNCHANGED <<appVars, conn, due, errors, crossed>>
  BY DEF PushUpdate
<1>2. /\ pulls \in [Streams -> SUBSET Pull] /\ out \in [Streams -> Seq(0..MaxWrites)]
      /\ version \in [Channels -> 0..MaxWrites]
  BY DEF ContentInv, ContentTypeOK
<1>3. p.got \in 0..MaxWrites /\ p.got <= version[ChannelOf[s]]
  <2>1. version[ChannelOf[s]] \in 0..MaxWrites /\ p.got <= version[ChannelOf[s]]
    BY <1>2, StreamChannel DEF ContentInv, Versions
  <2>2. p.got \in Nat
    BY <1>2 DEF Pull
  <2> QED
    BY <2>1, <2>2
<1>4. /\ pulls'[s] = pulls[s] \ {p}
      /\ \A t \in Streams \ {s} : pulls'[t] = pulls[t] /\ out'[t] = out[t]
      /\ \A t \in Streams : pulls'[t] \subseteq pulls[t]
  BY <1>1, <1>2
<1>5. ContentTypeOK'
  <2>1. pulls' \in [Streams -> SUBSET Pull]
    BY <1>1, <1>2
  <2>2. out' \in [Streams -> Seq(0..MaxWrites)]
    <3>1. Append(out[s], p.got) \in Seq(0..MaxWrites)
      BY <1>2, <1>3
    <3> QED
      BY <1>1, <1>2, <3>1
  <2> QED
    BY <1>1, <2>1, <2>2 DEF ContentInv, ContentTypeOK, appVars
<1>6. CASE conn[s] # "open"
  <2>1. out' = out
    BY <1>1, <1>6
  <2>2. Answering'
    BY <1>1, <1>4, <1>6, <2>1 DEF ContentInv, Answering
  <2> QED
    BY <1>1, <1>4, <1>5, <2>1, <2>2
       DEF ContentInv, Versions, OneAtATime, ForwardUnlessCrossed, appVars
<1>7. CASE conn[s] = "open"
  <2> DEFINE n == Len(out[s])
  <2>1. /\ n \in Nat /\ DOMAIN out[s] = 1..n /\ DOMAIN out'[s] = 1..(n + 1)
        /\ out'[s][n + 1] = p.got
        /\ \A i \in 1..n : out'[s][i] = out[s][i] /\ out[s][i] \in 0..MaxWrites
    <3>1. out'[s] = Append(out[s], p.got) /\ out[s] \in Seq(0..MaxWrites)
      BY <1>1, <1>2, <1>7
    <3> QED
      BY <1>3, <3>1
  <2> HIDE DEF n
  <2>2. Versions'
    <3>1. \A i \in DOMAIN out'[s] : out'[s][i] <= version[ChannelOf[s]]
      <4> SUFFICES ASSUME NEW i \in 1..(n + 1)
                   PROVE  out'[s][i] <= version[ChannelOf[s]]
        BY <2>1
      <4>1. CASE i = n + 1
        BY <1>3, <2>1, <4>1
      <4>2. CASE i \in 1..n
        BY <2>1, <4>2 DEF ContentInv, Versions
      <4> QED
        BY <2>1, <4>1, <4>2
    <3> QED
      BY <1>1, <1>4, <3>1 DEF ContentInv, Versions, appVars
  <2>3. Answering'
    <3> SUFFICES ASSUME NEW t \in Streams, conn[t] = "open", errors[t] = 0, due[t] > 0
                 PROVE  \/ \E r \in pulls'[t] : r.read => r.got >= due[t]
                        \/ \E i \in DOMAIN out'[t] : out'[t][i] >= due[t]
      BY <1>1 DEF ContentInv, Answering
    <3>1. CASE t = s
      <4>1. CASE \E i \in DOMAIN out[s] : out[s][i] >= due[s]
        BY <2>1, <3>1, <4>1
      <4>2. CASE \E r \in pulls[s] : r.read => r.got >= due[s]
        <5>1. PICK r \in pulls[s] : r.read => r.got >= due[s]
          BY <4>2
        <5>2. CASE r = p
          BY <1>1, <2>1, <3>1, <5>1, <5>2
        <5>3. CASE r # p
          BY <1>4, <3>1, <5>1, <5>3
        <5> QED
          BY <5>2, <5>3
      <4> QED
        BY <3>1, <4>1, <4>2 DEF ContentInv, Answering
    <3>2. CASE t # s
      BY <1>4, <3>2 DEF ContentInv, Answering
    <3> QED
      BY <3>1, <3>2
  <2>4. s \notin crossed => pulls'[s] = {}
    BY <1>4 DEF ContentInv, OneAtATime
  <2>5. OneAtATime'
    BY <1>1, <1>4, <2>4 DEF ContentInv, OneAtATime
  <2>6. ForwardUnlessCrossed'
    <3> SUFFICES ASSUME NEW t \in Streams \ crossed,
                        NEW i \in DOMAIN out'[t], NEW j \in DOMAIN out'[t], i <= j
                 PROVE  out'[t][i] <= out'[t][j]
      BY <1>1 DEF ForwardUnlessCrossed
    <3>1. CASE t # s
      BY <1>4, <3>1 DEF ContentInv, ForwardUnlessCrossed
    <3>2. CASE t = s /\ j \in 1..n
      BY <2>1, <3>2 DEF ContentInv, ForwardUnlessCrossed
    <3>3. CASE t = s /\ j = n + 1 /\ i \in 1..n
      BY <1>1, <2>1, <3>3 DEF ContentInv, OneAtATime
    <3>4. CASE t = s /\ j = n + 1 /\ i = n + 1
      BY <1>3, <2>1, <3>4
    <3> QED
      BY <2>1, <3>1, <3>2, <3>3, <3>4
  <2> QED
    BY <1>5, <2>2, <2>3, <2>5, <2>6 DEF ContentInv
<1> QED
  BY <1>6, <1>7

(* An error event stands for the answer. *)
LEMMA PushErrorContent ==
  ASSUME ContentInv, NEW s \in Streams, PushError(s)
  PROVE  ContentInv'
<1>1. PICK p \in pulls[s] :
        /\ pulls' = [pulls EXCEPT ![s] = @ \ {p}]
        /\ errors' = [errors EXCEPT ![s] = @ + 1]
        /\ UNCHANGED <<appVars, conn, out, due, crossed>>
  BY DEF PushError
<1>2. /\ pulls \in [Streams -> SUBSET Pull] /\ errors \in [Streams -> Nat]
  BY DEF ContentInv, ContentTypeOK
<1>3. /\ \A t \in Streams : pulls'[t] \subseteq pulls[t]
      /\ \A t \in Streams \ {s} : pulls'[t] = pulls[t] /\ errors'[t] = errors[t]
      /\ errors'[s] > 0
  BY <1>1, <1>2
<1>4. ContentTypeOK'
  BY <1>1, <1>2 DEF ContentInv, ContentTypeOK, appVars
<1>5. Answering'
  BY <1>1, <1>3 DEF ContentInv, Answering
<1> QED
  BY <1>1, <1>3, <1>4, <1>5 DEF ContentInv, Versions, OneAtATime, ForwardUnlessCrossed, appVars

-----------------------------------------------------------------------------

(* At first nobody is connected and nothing written. *)
LEMMA SseStart == SseInit => SseInv
<1> SUFFICES ASSUME SseInit
             PROVE  SseInv
  OBVIOUS
<1>1. RegistryTypeOK /\ RegistryInv
  BY RegistryStart DEF SseInit
<1>2. HandlersInv
  BY <1>1, StreamChannel
     DEF SseInit, RegistryInit, RegistryInv, HandlersInv, SetsUnlessStrayed, StreamHandlers
<1>3. ContentInv
  BY BoundsAssumption, StreamChannel
     DEF SseInit, ContentInv, ContentTypeOK, Versions, Answering, OneAtATime, ForwardUnlessCrossed
<1> QED
  BY <1>2, <1>3, Halves DEF SseInit

(* Each step keeps the invariant. *)
LEMMA SseStep ==
  ASSUME SseInv, [SseNext]_sseVars
  PROVE  SseInv'
<1>1. HandlersInv /\ ContentInv /\ crashed \in BOOLEAN
  BY Halves
<1>2. ASSUME HandlersInv', ContentInv', crashed' \in BOOLEAN
      PROVE  SseInv'
  BY <1>2 DEF SseInv, HandlersInv, ContentInv, ContentTypeOK, SseTypeOK
<1>3. ASSUME NEW s \in Streams, Connect(s) \/ ControllerClose(s) \/ ClientClose(s)
      PROVE  SseInv'
  <2>1. HandlersInv'
    BY <1>1, <1>3, ConnectHandlers, EndHandlers, CloseHandlers
  <2>2. conn[s] = "new" \/ ~Connect(s)
    <3>1. Connect(s) => closure[s] = NoSet
      BY DEF Connect, Register
    <3> QED
      BY <1>1, <3>1 DEF HandlersInv, StreamHandlers
  <2>3. ContentInv'
    BY <1>1, <1>3, <2>2, ConnectionContent DEF Connect, ControllerClose, ClientClose, HandlersInv
  <2>4. crashed' = crashed
    BY <1>3 DEF Connect, ControllerClose, ClientClose
  <2> QED
    BY <1>1, <1>2, <2>1, <2>3, <2>4
<1>4. ASSUME NEW s \in Streams, Read(s) \/ PushUpdate(s) \/ PushError(s)
      PROVE  SseInv'
  <2>1. HandlersInv'
    BY <1>1, <1>4, SameHandlers DEF Read, PushUpdate, PushError
  <2>2. ContentInv'
    BY <1>1, <1>4, ReadContent, PushUpdateContent, PushErrorContent
  <2>3. crashed' \in BOOLEAN
    BY <1>1, <1>4 DEF Read, PushUpdate, PushError, WriteThrows
  <2> QED
    BY <1>2, <2>1, <2>2, <2>3
<1>5. ASSUME NEW s \in Streams, Heartbeat(s)
      PROVE  SseInv'
  <2>1. HandlersInv' /\ ContentInv'
    BY <1>1, <1>5, SameHandlers, SameContent DEF Heartbeat, streamVars
  <2> QED
    BY <1>2, <1>5, <2>1 DEF Heartbeat
<1>6. ASSUME NEW c \in Channels, Write(c) \/ Notify(c)
      PROVE  SseInv'
  <2>1. HandlersInv' /\ crashed' = crashed
    BY <1>1, <1>6, SameHandlers DEF Write, Notify, streamVars
  <2>2. ContentInv'
    BY <1>1, <1>6, WriteContent, NotifyContent
  <2> QED
    BY <1>1, <1>2, <2>1, <2>2
<1>7. ASSUME NEW s \in Subs \ Streams, AppSubscribe(s) \/ AppUnsubscribe(s)
      PROVE  SseInv'
  <2>1. HandlersInv'
    BY <1>1, <1>7, AppHandlers
  <2>2. ContentInv' /\ crashed' = crashed
    BY <1>1, <1>7, SameContent DEF AppSubscribe, AppUnsubscribe
  <2> QED
    BY <1>1, <1>2, <2>1, <2>2
<1>8. CASE UNCHANGED sseVars
  BY <1>1, <1>2, <1>8, SameHandlers, SameContent DEF sseVars, streamVars
<1> QED
  BY <1>3, <1>4, <1>5, <1>6, <1>7, <1>8 DEF SseNext

(***************************************************************************)
(* The invariant of the streams, for any number of them.                   *)
(***************************************************************************)
THEOREM SseInvariant == SseSpec => []SseInv
BY SseStart, SseStep, PTL DEF SseSpec

(* The types of the streams' state. *)
THEOREM SseTyped == SseSpec => []SseTypeOK
<1>1. SseInv => SseTypeOK
  BY DEF SseInv
<1> QED
  BY <1>1, SseInvariant, PTL

(***************************************************************************)
(* A stream or handler that nobody cancelled is found by the next          *)
(* notification, unless a handle of its channel was used twice.            *)
(***************************************************************************)
THEOREM SseReachesTheLive == SseSpec => []ReachableUnlessStrayed
<1>1. SseInv => ReachableUnlessStrayed
  <2> SUFFICES ASSUME SseInv, NEW s \in live, ChannelOf[s] \notin strayed
               PROVE  s \in Reach(ChannelOf[s])
    BY DEF ReachableUnlessStrayed
  <2>1. s \in Subs /\ ChannelOf[s] \in Channels /\ OneSet(ChannelOf[s])
    BY ChannelAssumption DEF SseInv, SseTypeOK, RegistryTypeOK, SetsUnlessStrayed
  <2> QED
    BY <2>1, ReachIsLive DEF SseInv, SseTypeOK
<1> QED
  BY <1>1, SseInvariant, PTL

(***************************************************************************)
(* No notification is swallowed: an open stream without a snapshot under   *)
(* way and without an error has been told of every one it received.        *)
(***************************************************************************)
THEOREM SseAnswersNotifications == SseSpec => []NotificationsAnswered
<1>1. SseInv => NotificationsAnswered
  BY DEF SseInv, Answering, NotificationsAnswered
<1> QED
  BY <1>1, SseInvariant, PTL

(***************************************************************************)
(* What a stream is told goes forward, unless its snapshots overlapped.    *)
(***************************************************************************)
THEOREM SseGoesForward == SseSpec => []ForwardUnlessCrossed
<1>1. SseInv => ForwardUnlessCrossed
  BY DEF SseInv
<1> QED
  BY <1>1, SseInvariant, PTL

(***************************************************************************)
(* A client that left is in no Set of the store, strays or not.            *)
(***************************************************************************)
THEOREM SseForgetsLeavers == SseSpec => []LeaversAreUnregistered
<1>1. SseInv => LeaversAreUnregistered
  <2> SUFFICES ASSUME SseInv, NEW s \in Streams, conn[s] = "closed", NEW c \in Channels
               PROVE  s \notin Reach(c)
    BY DEF LeaversAreUnregistered
  <2>1. s \notin live
    BY DEF SseInv, StreamHandlers
  <2> QED
    BY <2>1, ReachIsOfChannel DEF SseInv, SseTypeOK
<1> QED
  BY <1>1, SseInvariant, PTL

=============================================================================
