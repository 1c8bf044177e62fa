---------------------------- MODULE MarkerConsumers ----------------------------
(***************************************************************************)
(* What the readers of a visualization_msgs/MarkerArray keep of it.  The    *)
(* three readers of obstacle markers do three different things: the         *)
(* controller takes the ADDed markers of one message for all there is, the  *)
(* trace logger keeps a store that messages edit, and RViz (external) keeps *)
(* such a store and drops a marker when its lifetime ends.                  *)
(***************************************************************************)
EXTENDS Naturals, Sequences, SequencesExt

\* A marker: its action, its key (namespace and id) and the age of its data.
Marker(action, key, age) == [act |-> action, key |-> key, age |-> age]
Add(key, age) == Marker("ADD", key, age)
Delete(key) == Marker("DELETE", key, 0)
DeleteAll == Marker("DELETEALL", <<"all", 0>>, 0)

Added(msg) == {marker \in ToSet(msg) : marker.act = "ADD"}
Ageless(msg) == [i \in DOMAIN msg |-> [msg[i] EXCEPT !.age = 0]]
KeysOf(markers) == {marker.key : marker \in markers}

TakesById(marker, kept) == marker.act = "DELETEALL" \/ marker.key[2] = kept.key[2]

\* A store is keyed by namespace and id: every marker takes what has its key.
Takes(marker, kept) == marker.act = "DELETEALL" \/ marker.key = kept.key

\* One marker of a message, as a keyed store takes it.
Edit(store, marker) ==
    {kept \in store : ~Takes(marker, kept)} \cup (IF marker.act = "ADD" THEN {marker} ELSE {})

\* All of them in their order: what is kept is taken by none that follows it.
Lasts(msg, kept, after) == \A i \in DOMAIN msg : i > after => ~Takes(msg[i], kept)
Edited(store, msg) ==
    {kept \in store : Lasts(msg, kept, 0)}
      \cup {msg[i] : i \in {k \in DOMAIN msg : msg[k].act = "ADD" /\ Lasts(msg, msg[k], k)}}

OnObstaclesEdits(held, msg) == Edited(held, msg)

\* on_obstacles of the controller: the message replaces the obstacle list; only
\* ADD counts.  (It puts one default sphere in an empty list: not an obstacle.)
OnObstacles(held, msg) == Added(msg)

\* _on_obstacles of the trace logger.
LogObstacles(store, msg) == Edited(store, msg)

\* RViz: the same, and a marker is gone when its lifetime ends (0: never).
Shown(store, msg) == Edited(store, Ageless(msg))
Expire(store, lifetime) ==
    IF lifetime = 0 THEN store
    ELSE {[kept EXCEPT !.age = @ + 1] : kept \in {k \in store : k.age < lifetime}}

================================================================================
