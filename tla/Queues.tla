------------------------------- MODULE Queues -------------------------------
(***************************************************************************)
(* What the invariants of RedisPubSub and PostgresPubSub say of their      *)
(* queues: of callbacks and commands that switch a channel on and off, and *)
(* of messages on their way to the handlers.                               *)
(***************************************************************************)
EXTENDS HandlerRegistry, Naturals, Sequences

(***************************************************************************)
(* Switches.  `start` switches a channel on, `stop` switches it off, and   *)
(* `on` says what it is before the queue is worked off.                    *)
(***************************************************************************)
Switched(e, start, stop, on) == e = start \/ (on /\ e # stop)

(* Once the queue has been worked off, the channel is off. *)
EndsOff(Q, start, stop, on) ==
  /\ \A i \in 1..Len(Q) : Q[i] = start => \E j \in 1..Len(Q) : i < j /\ Q[j] = stop
  /\ on => \E j \in 1..Len(Q) : Q[j] = stop

(* Nothing switches the channel on while it is on. *)
StartsOnce(Q, start, stop, on) ==
  /\ \A i \in 1..Len(Q) : on /\ Q[i] = start => \E j \in 1..Len(Q) : j < i /\ Q[j] = stop
  /\ \A i, k \in 1..Len(Q) : i < k /\ Q[i] = start /\ Q[k] = start =>
        \E j \in 1..Len(Q) : i < j /\ j < k /\ Q[j] = stop

(***************************************************************************)
(* Messages.  Those of type T on their way are in the order they were      *)
(* published in, were published, and are newer than what the handlers in   *)
(* `to` have seen.                                                         *)
(***************************************************************************)
Pending(Q, T, published, seenBy, to) ==
  /\ \A i, j \in 1..Len(Q) :
       i < j /\ Q[i].type = T /\ Q[j].type = T /\ Q[i].ch = Q[j].ch => Q[i].n < Q[j].n
  /\ \A i \in 1..Len(Q) : Q[i].type = T =>
       /\ Q[i].n \in 1..published[Q[i].ch]
       /\ \A s \in to : ChannelOf[s] = Q[i].ch => seenBy[s] < Q[i].n

(* Nobody has seen what was not published, or anything before subscribing. *)
SeenPublished(published, seenBy) ==
  \A s \in Subs :
    /\ seenBy[s] <= published[ChannelOf[s]]
    /\ closure[s] = NoSet => seenBy[s] = 0

=============================================================================
