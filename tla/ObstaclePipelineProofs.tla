------------------------- MODULE ObstaclePipelineProofs -------------------------
(***************************************************************************)
(* The safety of the obstacle pipeline, for every set of sensors, clouds,   *)
(* images and setups.  The invariant follows a marker from the bridges to   *)
(* the array on its way and to the controller: a property of the            *)
(* controller's obstacles holds because the array that brought them had it, *)
(* and because a timer that publishes nothing finds the controller empty.   *)
(***************************************************************************)
EXTENDS ObstaclePipeline, TLAPS, SequenceTheorems, FiniteSetTheorems, WellFoundedInduction

InFlight == IF obstacles = <<>> THEN {} ELSE Added(Head(obstacles))

\* The timer has fired and its array, if there was one, is with the controller.
Served == fired /\ obstacles = <<>>

Shaped(markers) ==
    \A marker \in markers : marker = Marker(marker.act, marker.key, marker.age)

\* An array of markers.
Whole(msg) == msg \in Seq(ToSet(msg)) /\ Shaped(ToSet(msg))

\* What the proximity bridge sends: markers of its own and DELETEALLs.
FromSensors(msg) ==
    /\ msg \in Seq(ToSet(msg))
    /\ \A marker \in ToSet(msg) :
          marker = Marker(marker.act, marker.key, 0) /\ marker.key[1] \in {"prox", "all"}

\* A message no marker of which undoes another of it.
Coherent(msg) ==
    \A marker, other \in ToSet(msg) :
        marker.act # "DELETEALL" /\ (marker.key = other.key => marker.act = other.act)

Proximity(markers) == \E marker \in markers : marker.act = "ADD" /\ marker.key[1] = "prox"

LinkInv ==
    /\ setup \in Setups /\ {fired, rmpActive, hadCollision} \subseteq BOOLEAN
    /\ cloud \in Nat /\ cloudAge \in Ages /\ extraAge \in Ages /\ sinceDown \in Nat
    /\ FromSensors(extra)
    /\ raw # <<>> => FromSensors(Head(raw))
    /\ obstacles # <<>> => Whole(Head(obstacles))
    /\ Shaped(controller) /\ \A held \in controller : held.act = "ADD"
    /\ InMerge /\ ~fired => obstacles = <<>>

\* Ages, and that a bridge that remembers no markers has left the controller none.
FreshInv == InMerge =>
    /\ \A marker \in InFlight : marker.age \in 0 .. Stale
    /\ \A held \in controller : held.age \in 0 .. Stale + 1
    /\ Served => \A held \in controller : held.age \in 0 .. Stale
    /\ ~hadCollision => InFlight = {} /\ (obstacles = <<>> => controller = {})

\* The fresh cloud is in the array on its way, or the controller has it.
CloudInv == InMerge /\ fired /\ cloudAge \in 1 .. Stale =>
    \A i \in 1 .. cloud :
        <<"cloud", i>> \in KeysOf(IF obstacles = <<>> THEN controller ELSE InFlight)

\* Since the flag fell every place that still has a proximity obstacle has it for
\* long enough: the bridge's copy is as old as the fall.
GateInv ==
    /\ rmpActive \/ ~setup.gate => sinceDown = 0
    /\ raw # <<>> /\ Proximity(ToSet(Head(raw))) => sinceDown = 0
    /\ Proximity(ToSet(extra)) => extraAge >= sinceDown \/ extraAge = Old
    /\ Proximity(InFlight) => InMerge /\ sinceDown <= Stale
    /\ Proximity(controller) => InMerge /\ sinceDown <= Stale + 1
    /\ Proximity(controller) /\ Served => sinceDown <= Stale

\* What the image nodes remember to clear covers what their readers have.
GhostInv ==
    /\ In("feature") =>
          /\ Shaped(viewer)
          /\ processed = "obstacle" <=> lastCollision
          /\ ~lastCollision => InFlight = {} /\ (obstacles = <<>> => controller = {})
          /\ NearestKey \in KeysOf(viewer) => lastDetection
          /\ BodyKey \in KeysOf(viewer) => lastBody
          /\ KeysOf(viewer) \subseteq {NearestKey, BodyKey}
          /\ processed = "none" => ~lastDetection /\ ~lastBody
          /\ processed = "point" => ~lastBody
    /\ In("pose") =>
          /\ processed = "none" => ~hadMarkers
          /\ ~hadMarkers => viewer = {}

\* Without the gate no message undoes its own markers.
CoverInv == ~setup.gate =>
    /\ Coherent(extra)
    /\ raw # <<>> => Coherent(Head(raw))
    /\ obstacles # <<>> => Coherent(Head(obstacles))
    /\ setup.observed => KeysOf(controller) \subseteq KeysOf(activeObstacles)

RowInv == logging /\ latest \subseteq Arrays /\ tcpMarker \in {"none", "point", "arrow"}

PipelineInv ==
    LinkInv /\ FreshInv /\ CloudInv /\ GateInv /\ GhostInv /\ CoverInv /\ RowInv

-----------------------------------------------------------------------------
(* Sequences of markers *)

\* Min of two numbers, as the ages are capped.
LEMMA MinOfTwo ==
  ASSUME NEW a \in Nat, NEW b \in Nat
  PROVE  Min({a, b}) = IF a <= b THEN a ELSE b
  <1>1. \A x \in {a, b} : (\A y \in {a, b} : x <= y) <=> x = IF a <= b THEN a ELSE b
    OBVIOUS
  <1>2. \E x \in {a, b} : \A y \in {a, b} : x <= y
    BY <1>1
  <1> QED
    BY <1>1, <1>2 DEF Min

\* A sequence is given by its length and elements.
LEMMA Elements ==
  ASSUME NEW n \in Nat, NEW s, DOMAIN s = 1 .. n, s = [i \in 1 .. n |-> s[i]]
  PROVE  s \in Seq(ToSet(s)) /\ ToSet(s) = {s[i] : i \in 1 .. n}
  <1>1. s \in [1 .. n -> ToSet(s)]
    BY DEF ToSet
  <1> QED
    BY <1>1 DEF ToSet

\* The markers of an array that is put together from two.
LEMMA ConcatElements ==
  ASSUME NEW s, NEW t, s \in Seq(ToSet(s)), t \in Seq(ToSet(t))
  PROVE  s \o t \in Seq(ToSet(s \o t)) /\ ToSet(s \o t) = ToSet(s) \cup ToSet(t)
  <1> DEFINE A == ToSet(s) \cup ToSet(t)
  <1>1. s \in Seq(A) /\ t \in Seq(A)
    BY SeqMonotonic
  <1> HIDE DEF A
  <1>2. /\ s \o t \in Seq(A) /\ Len(s \o t) = Len(s) + Len(t)
        /\ \A i \in 1 .. Len(s) + Len(t) :
              (s \o t)[i] = IF i <= Len(s) THEN s[i] ELSE t[i - Len(s)]
        /\ Len(s) \in Nat /\ DOMAIN s = 1 .. Len(s)
        /\ Len(t) \in Nat /\ DOMAIN t = 1 .. Len(t)
        /\ DOMAIN (s \o t) = 1 .. Len(s) + Len(t)
    <2>1. /\ s \o t \in Seq(A) /\ Len(s \o t) = Len(s) + Len(t)
          /\ \A i \in 1 .. Len(s) + Len(t) :
                (s \o t)[i] = IF i <= Len(s) THEN s[i] ELSE t[i - Len(s)]
      BY <1>1, ConcatProperties
    <2> QED
      BY <2>1, <1>1, LenProperties
  <1>3. \A i \in 1 .. Len(s) : s[i] = (s \o t)[i] /\ i \in 1 .. Len(s) + Len(t)
    BY <1>2
  <1>4. \A i \in 1 .. Len(t) :
           t[i] = (s \o t)[i + Len(s)] /\ i + Len(s) \in 1 .. Len(s) + Len(t)
    BY <1>2
  <1>5. \A i \in 1 .. Len(s) + Len(t) : (s \o t)[i] \in ToSet(s) \cup ToSet(t)
    <2> TAKE i \in 1 .. Len(s) + Len(t)
    <2>1. CASE i <= Len(s)
      BY <2>1, <1>2 DEF ToSet
    <2>2. CASE ~(i <= Len(s))
      <3>1. i - Len(s) \in 1 .. Len(t)
        BY <2>2, <1>2
      <3> QED
        BY <3>1, <2>2, <1>2 DEF ToSet
    <2> QED
      BY <2>1, <2>2
  <1>6. ToSet(s \o t) = ToSet(s) \cup ToSet(t)
    <2>0. /\ DOMAIN s = 1 .. Len(s) /\ DOMAIN t = 1 .. Len(t)
          /\ DOMAIN (s \o t) = 1 .. Len(s) + Len(t)
      BY <1>2
    <2> DEFINE both == s \o t
               total == Len(s) + Len(t)
    <2>1. ToSet(s) \subseteq ToSet(both)
      <3>1. \A i \in DOMAIN s : s[i] = both[i] /\ i \in DOMAIN both
        BY <1>3, <2>0
      <3> HIDE DEF both
      <3> QED
        BY <3>1 DEF ToSet
    <2>2. ToSet(t) \subseteq ToSet(both)
      <3>1. \A i \in DOMAIN t : \E j \in DOMAIN both : t[i] = both[j]
        BY <1>4, <2>0
      <3> HIDE DEF both
      <3> QED
        BY <3>1 DEF ToSet
    <2>3. ToSet(s \o t) \subseteq ToSet(s) \cup ToSet(t)
      <3>1. \A x \in ToSet(s \o t) : \E i \in 1 .. Len(s) + Len(t) : x = (s \o t)[i]
        <4>1. DOMAIN both = 1 .. total
          BY <2>0
        <4> HIDE DEF both, total
        <4>2. \A x \in ToSet(both) : \E i \in 1 .. total : x = both[i]
          BY <4>1 DEF ToSet
        <4> QED
          BY <4>2 DEF both, total
      <3> QED
        BY <3>1, <1>5
    <2> QED
      BY <2>1, <2>2, <2>3
  <1> QED
    BY <1>2, <1>6 DEF A

\* The empty array has no marker.
LEMMA NoElements == <<>> \in Seq(ToSet(<<>>)) /\ ToSet(<<>>) = {}
  BY DEF ToSet

\* An array of one marker.
LEMMA OneElement ==
  ASSUME NEW marker
  PROVE  <<marker>> \in Seq(ToSet(<<marker>>)) /\ ToSet(<<marker>>) = {marker}
  <1>1. ToSet(<<marker>>) = {marker}
    BY DEF ToSet
  <1> QED
    BY <1>1

\* The spheres of a namespace.
LEMMA SphereElements ==
  ASSUME NEW namespace, NEW count \in Nat, NEW age
  PROVE  /\ Spheres(namespace, count, age) \in Seq(ToSet(Spheres(namespace, count, age)))
         /\ \A marker : marker \in ToSet(Spheres(namespace, count, age))
              <=> \E i \in 1 .. count : marker = Add(<<namespace, i>>, age)
  <1> DEFINE spheres == Spheres(namespace, count, age)
  <1>1. DOMAIN spheres = 1 .. count /\ spheres = [i \in 1 .. count |-> spheres[i]]
    BY DEF Spheres
  <1>2. \A i \in 1 .. count : spheres[i] = Add(<<namespace, i>>, age)
    BY DEF Spheres
  <1> HIDE DEF spheres
  <1>3. spheres \in Seq(ToSet(spheres)) /\ ToSet(spheres) = {spheres[i] : i \in 1 .. count}
    BY <1>1, Elements
  <1>4. \A marker : marker \in {spheres[i] : i \in 1 .. count}
              <=> \E i \in 1 .. count : marker = Add(<<namespace, i>>, age)
    BY <1>2
  <1> QED
    BY <1>3, <1>4 DEF spheres

\* A message whose markers have been given another age.
LEMMA RestampedElements ==
  ASSUME NEW msg, FromSensors(msg), NEW age
  PROVE  LET stamped == [i \in DOMAIN msg |-> [msg[i] EXCEPT !.age = age]]
         IN /\ stamped \in Seq(ToSet(stamped))
            /\ \A marker : marker \in ToSet(stamped)
                 <=> \E of \in ToSet(msg) : marker = Marker(of.act, of.key, age)
  <1> DEFINE stamped == [i \in DOMAIN msg |-> [msg[i] EXCEPT !.age = age]]
  <1>1. Len(msg) \in Nat /\ DOMAIN msg = 1 .. Len(msg)
    BY LenProperties DEF FromSensors
  <1>2. \A i \in DOMAIN msg : stamped[i] = Marker(msg[i].act, msg[i].key, age)
    <2> TAKE i \in DOMAIN msg
    <2>1. msg[i] = Marker(msg[i].act, msg[i].key, 0)
      BY DEF FromSensors, ToSet
    <2>2. [msg[i] EXCEPT !.age = age] = Marker(msg[i].act, msg[i].key, age)
      BY <2>1 DEF Marker
    <2> QED
      BY <2>2
  <1>3. DOMAIN stamped = 1 .. Len(msg) /\ stamped = [i \in 1 .. Len(msg) |-> stamped[i]]
    BY <1>1
  <1> HIDE DEF stamped
  <1>4. stamped \in Seq(ToSet(stamped)) /\ ToSet(stamped) = {stamped[i] : i \in 1 .. Len(msg)}
    BY <1>1, <1>3, Elements
  <1>5. ToSet(msg) = {msg[i] : i \in 1 .. Len(msg)}
    BY <1>1 DEF ToSet
  <1>6. \A marker : marker \in {stamped[i] : i \in 1 .. Len(msg)}
                 <=> \E of \in ToSet(msg) : marker = Marker(of.act, of.key, age)
    BY <1>1, <1>2, <1>5
  <1> QED
    BY <1>4, <1>6 DEF stamped

\* The array of the cloud bridge: the fresh cloud, then the fresh markers of the other topic.
LEMMA CollisionElements ==
  ASSUME LinkInv
  PROVE  /\ CollisionMarkers \in Seq(ToSet(CollisionMarkers))
         /\ \A marker : marker \in ToSet(CollisionMarkers)
              <=> \/ Fresh(cloudAge) /\ \E i \in 1 .. cloud : marker = Add(<<"cloud", i>>, cloudAge)
                  \/ /\ Fresh(extraAge)
                     /\ \E of \in ToSet(extra) : marker = Marker(of.act, of.key, extraAge)
  <1> DEFINE spheres == IF Fresh(cloudAge) THEN Spheres("cloud", cloud, cloudAge) ELSE <<>>
             stamped == [i \in DOMAIN extra |-> [extra[i] EXCEPT !.age = extraAge]]
             others == IF Fresh(extraAge) THEN stamped ELSE <<>>
  <1>1. /\ spheres \in Seq(ToSet(spheres))
        /\ \A marker : marker \in ToSet(spheres)
             <=> Fresh(cloudAge) /\ \E i \in 1 .. cloud : marker = Add(<<"cloud", i>>, cloudAge)
    <2>1. /\ Spheres("cloud", cloud, cloudAge) \in Seq(ToSet(Spheres("cloud", cloud, cloudAge)))
          /\ \A marker : marker \in ToSet(Spheres("cloud", cloud, cloudAge))
               <=> \E i \in 1 .. cloud : marker = Add(<<"cloud", i>>, cloudAge)
      <3>1. cloud \in Nat
        BY DEF LinkInv
      <3> QED
        BY <3>1, SphereElements
    <2>2. CASE Fresh(cloudAge)
      <3>1. spheres = Spheres("cloud", cloud, cloudAge)
        BY <2>2
      <3> QED
        BY <2>1, <2>2, <3>1
    <2>3. CASE ~Fresh(cloudAge)
      BY <2>3, NoElements
    <2> QED
      BY <2>2, <2>3
  <1>2. /\ others \in Seq(ToSet(others))
        /\ \A marker : marker \in ToSet(others)
             <=> /\ Fresh(extraAge)
                 /\ \E of \in ToSet(extra) : marker = Marker(of.act, of.key, extraAge)
    <2>1. /\ stamped \in Seq(ToSet(stamped))
          /\ \A marker : marker \in ToSet(stamped)
               <=> \E of \in ToSet(extra) : marker = Marker(of.act, of.key, extraAge)
      BY RestampedElements DEF LinkInv
    <2> HIDE DEF stamped
    <2>2. CASE Fresh(extraAge)
      BY <2>1, <2>2
    <2>3. CASE ~Fresh(extraAge)
      BY <2>3, NoElements
    <2> QED
      BY <2>2, <2>3
  <1>3. CollisionMarkers = spheres \o others
    BY DEF CollisionMarkers
  <1> HIDE DEF spheres, others
  <1>4. spheres \o others \in Seq(ToSet(spheres \o others))
        /\ ToSet(spheres \o others) = ToSet(spheres) \cup ToSet(others)
    BY <1>1, <1>2, ConcatElements
  <1> QED
    BY <1>1, <1>2, <1>3, <1>4

\* Actions and keys of markers as they are made.
LEMMA MarkerFields ==
  /\ \A act, key, age : /\ Marker(act, key, age).act = act
                        /\ Marker(act, key, age).key = key
                        /\ Marker(act, key, age).age = age
  /\ \A key, age : Add(key, age) = Marker("ADD", key, age)
  /\ \A key : Delete(key) = Marker("DELETE", key, 0)
  /\ DeleteAll = Marker("DELETEALL", <<"all", 0>>, 0)
  BY DEF Marker, Add, Delete, DeleteAll

\* What the proximity bridge sends; without the gate it never deletes all.
LEMMA SensorMessage ==
  ASSUME LinkInv, NEW ignored \in SUBSET Sensors, NEW lost \in SUBSET Sensors,
         ObstacleMessages(setup.gate, ignored, lost) # <<>>
  PROVE  LET msg == Head(ObstacleMessages(setup.gate, ignored, lost))
         IN /\ FromSensors(msg)
            /\ Proximity(ToSet(msg)) => rmpActive \/ ~setup.gate
            /\ ~setup.gate => Coherent(msg)
  <1> DEFINE sending == Sending(ignored, lost)
             n == Cardinality(sending)
             each == [i \in 1 .. n |-> SensorMarker(Nth(sending, i), ignored)]
             all == <<DeleteAll>>
  <1>1. n \in Nat
    BY ProximityAssumption, FS_Subset, FS_CardinalityType DEF Sending
  <1>2. /\ FromSensors(all) /\ ~Proximity(ToSet(all))
    <2>1. ToSet(all) = {DeleteAll}
      BY DEF ToSet
    <2>2. all \in Seq(ToSet(all))
      BY <2>1
    <2> QED
      BY <2>1, <2>2, MarkerFields DEF FromSensors, Proximity
  <1>3. FromSensors(each) /\ Coherent(each)
    <2> HIDE DEF sending, n
    <2>1. each \in Seq(ToSet(each)) /\ ToSet(each) = {each[i] : i \in 1 .. n}
      BY <1>1, Elements
    <2>2. \A s : \/ SensorMarker(s, ignored) = Marker("ADD", <<"prox", s>>, 0)
                 \/ SensorMarker(s, ignored) = Marker("DELETE", <<"prox", s>>, 0)
      BY MarkerFields DEF SensorMarker
    <2>3. \A marker \in ToSet(each) : \E s : marker = SensorMarker(s, ignored)
      BY <2>1
    <2> HIDE DEF each
    <2>4. FromSensors(each)
      <3>1. ASSUME NEW marker \in ToSet(each)
            PROVE  marker = Marker(marker.act, marker.key, 0) /\ marker.key[1] \in {"prox", "all"}
        <4>1. PICK s : marker = SensorMarker(s, ignored)
          BY <2>3
        <4> QED
          BY <4>1, <2>2 DEF Marker
      <3> QED
        BY <2>1, <3>1 DEF FromSensors
    <2>5. Coherent(each)
      <3>1. ASSUME NEW marker \in ToSet(each), NEW other \in ToSet(each)
            PROVE  /\ marker.act # "DELETEALL"
                   /\ marker.key = other.key => marker.act = other.act
        <4>1. PICK s : marker = SensorMarker(s, ignored)
          BY <2>3
        <4>2. PICK t : other = SensorMarker(t, ignored)
          BY <2>3
        <4>3. /\ marker.act \in {"ADD", "DELETE"} /\ marker.key = <<"prox", s>>
              /\ other.key = <<"prox", t>>
          BY <4>1, <4>2, <2>2 DEF Marker
        <4>4. marker.key = other.key => s = t
          BY <4>3
        <4> QED
          BY <4>1, <4>2, <4>3, <4>4
      <3> QED
        BY <3>1 DEF Coherent
    <2> QED
      BY <2>4, <2>5
  <1>4. \/ /\ setup.gate /\ ~rmpActive
           /\ ObstacleMessages(setup.gate, ignored, lost) = <<all>>
        \/ /\ rmpActive \/ ~setup.gate
           /\ ObstacleMessages(setup.gate, ignored, lost) = <<each>>
    BY DEF ObstacleMessages
  <1> HIDE DEF each, all
  <1> QED
    BY <1>2, <1>3, <1>4

\* Some index of a nonempty set of indices is the last.
LEMMA LastIndex ==
  ASSUME NEW n \in Nat, NEW indices, indices \subseteq 1 .. n, indices # {}
  PROVE  \E i \in indices : \A k \in indices : k <= i
  <1> DEFINE fromEnd == {n - i : i \in indices}
             less == {pair \in Nat \X Nat : pair[1] < pair[2]}
  <1>1. fromEnd \subseteq Nat /\ fromEnd # {}
    <2>1. PICK i \in indices : TRUE
      OBVIOUS
    <2>2. n - i \in fromEnd
      BY <2>1
    <2>3. \A m \in fromEnd : m \in Nat
      <3>1. \A k \in 1 .. n : n - k \in Nat
        OBVIOUS
      <3> QED
        BY <3>1
    <2> QED
      BY <2>2, <2>3
  <1>2. PICK m \in fromEnd : \A k \in fromEnd : m <= k
    <2>1. IsWellFoundedOn(less, Nat)
      BY NatLessThanWellFounded DEF OpToRel
    <2>2. \A k, m \in Nat : <<k, m>> \notin less => m <= k
      OBVIOUS
    <2> HIDE DEF fromEnd, less
    <2>3. \E m \in fromEnd : \A k \in fromEnd : <<k, m>> \notin less
      BY <1>1, <2>1, WFMin
    <2> QED
      BY <1>1, <2>2, <2>3
  <1>3. PICK i \in indices : m = n - i
    BY <1>2
  <1>4. \A k \in indices : n - i <= n - k
    BY <1>2, <1>3
  <1>5. \A j, k \in 1 .. n : n - j <= n - k => k <= j
    OBVIOUS
  <1> HIDE DEF fromEnd, less
  <1>6. \A k \in indices : k <= i
    BY <1>4, <1>5
  <1> QED
    BY <1>6

\* A message that does not undo itself leaves all it adds in a store: the last
\* marker with a key is an ADD like the others, and no marker follows that takes it.
LEMMA EditedCovers ==
  ASSUME NEW store, NEW msg, Whole(msg), Coherent(msg)
  PROVE  KeysOf(Added(msg)) \subseteq KeysOf(Edited(store, Ageless(msg)))
  <1>1. Len(msg) \in Nat /\ DOMAIN msg = 1 .. Len(msg)
    BY LenProperties DEF Whole
  <1>2. \A i \in DOMAIN msg : msg[i] \in ToSet(msg)
    BY DEF ToSet
  <1>3. /\ DOMAIN Ageless(msg) = DOMAIN msg
        /\ \A i \in DOMAIN msg : Ageless(msg)[i] = Marker(msg[i].act, msg[i].key, 0)
    <2>1. \A i \in DOMAIN msg : msg[i] = Marker(msg[i].act, msg[i].key, msg[i].age)
      BY <1>2 DEF Whole, Shaped
    <2>2. \A i \in DOMAIN msg : [msg[i] EXCEPT !.age = 0] = Marker(msg[i].act, msg[i].key, 0)
      BY <2>1 DEF Marker
    <2> QED
      BY <2>2 DEF Ageless
  <1>4. \A i \in DOMAIN msg : Ageless(msg)[i].act = msg[i].act /\ Ageless(msg)[i].key = msg[i].key
    BY <1>3 DEF Marker
  <1> SUFFICES ASSUME NEW marker \in Added(msg)
               PROVE  \E kept \in Edited(store, Ageless(msg)) : kept.key = marker.key
    BY DEF KeysOf
  <1> DEFINE same == {i \in DOMAIN msg : msg[i].key = marker.key}
  <1>5. PICK last \in same : \A k \in same : k <= last
    <2>1. same # {}
      BY DEF Added, ToSet
    <2>2. same \subseteq 1 .. Len(msg)
      BY <1>1
    <2> HIDE DEF same
    <2> QED
      BY <1>1, <2>1, <2>2, LastIndex
  <1>6. msg[last].act = "ADD"
    BY <1>2 DEF Coherent, Added
  <1>7. Lasts(Ageless(msg), Ageless(msg)[last], last)
    <2>1. ASSUME NEW i \in DOMAIN msg, i > last
          PROVE  ~Takes(Ageless(msg)[i], Ageless(msg)[last])
      <3>1. msg[i].act # "DELETEALL"
        BY <1>2 DEF Coherent
      <3>2. msg[i].key # msg[last].key
        BY <1>1, <1>5, <2>1
      <3> QED
        BY <1>4, <3>1, <3>2 DEF Takes
    <2> QED
      BY <1>3, <2>1 DEF Lasts
  <1>8. Ageless(msg)[last] \in Edited(store, Ageless(msg))
    BY <1>3, <1>4, <1>6, <1>7 DEF Edited
  <1> QED
    BY <1>4, <1>8

-----------------------------------------------------------------------------
(* What the steps do to the places a marker can be in *)

\* The bounds of the ages.
LEMMA Bounds == Stale \in Nat /\ Old = Stale + 1 /\ Old \in Nat
  BY CloudAssumption DEF Old

\* An age grows by one up to Old.
LEMMA OlderAge ==
  ASSUME NEW age \in Ages
  PROVE  Older(age) \in Ages /\ Older(age) = IF age = Old THEN Old ELSE age + 1
  <1>1. age \in Nat /\ age <= Old
    BY Bounds DEF Ages
  <1>2. Min({age + 1, Old}) = IF age + 1 <= Old THEN age + 1 ELSE Old
    BY <1>1, Bounds, MinOfTwo
  <1> QED
    BY <1>1, <1>2, Bounds DEF Older, Ages

\* A cloud gives a number of markers.
LEMMA CloudCount ==
  ASSUME NEW msg \in Clouds
  PROVE  CloudToMarkers(msg.points) \in Nat
  <1> DEFINE made == {i \in DOMAIN msg.points :
                        msg.points[i] = "finite" /\ IndexOf(msg.points, i) % Stride = 0}
  <1>1. msg.points \in Seq({"finite", "nan", "infinite"})
    BY PipelineAssumption
  <1>2. Len(msg.points) \in Nat /\ DOMAIN msg.points = 1 .. Len(msg.points)
    BY <1>1, LenProperties
  <1>3. IsFiniteSet(1 .. Len(msg.points))
    BY <1>2, FS_Interval
  <1>4. made \subseteq 1 .. Len(msg.points)
    BY <1>2
  <1> HIDE DEF made
  <1>5. Cardinality(made) \in Nat
    BY <1>3, <1>4, FS_Subset, FS_CardinalityType
  <1>6. Min({MaxSpheres, Cardinality(made)}) \in Nat
    BY <1>5, CloudAssumption, MinOfTwo
  <1> QED
    BY <1>6 DEF CloudToMarkers, made

\* The steps that touch no marker, no flag and no memory of a publisher.
Quiet ==
    SensorsSend \/ Reconfigure \/ SourcesStop \/ CameraSetup \/ LoggerHears \/ LoggerTimer
    \/ UNCHANGED vars

\* They leave what the invariant speaks of alone, but for the logger's rows.
LEMMA QuietSteps ==
  ASSUME Quiet
  PROVE  /\ UNCHANGED <<setup, fired, raw, obstacles, controller, viewer, sinceDown, processed>>
         /\ UNCHANGED <<cloud, cloudAge, extra, extraAge, hadCollision, rmpActive>>
         /\ UNCHANGED <<lastDetection, lastBody, lastCollision, hadMarkers, activeObstacles>>
  BY DEF Quiet, SensorsSend, Reconfigure, SourcesStop, CameraSetup, LoggerHears, LoggerTimer,
         OnRange, OnSetParameters, OnCameraInfo, OnPoseCameraInfo, OnPoseDepth,
         Store, OnRepulsionMetrics, OnTcpAccelMarker, WriteSnapshot,
         vars, linkVars, cloudVars, proximityVars, featureVars, poseVars, loggerVars

\* The other steps, by name.
LEMMA StepKinds ==
  ASSUME [Next]_vars
  PROVE  \/ Quiet \/ CameraSends \/ FlagArrives \/ PublishObstacles \/ RawArrives
         \/ BridgeTimer \/ ObstaclesArrive \/ Tick \/ DepthImage \/ ColorImage
  BY DEF Next, Quiet

\* Markers with the same keys.
LEMMA SameKeys ==
  ASSUME NEW some, NEW others,
         \A marker \in some : \E other \in others : marker.key = other.key,
         \A other \in others : \E marker \in some : marker.key = other.key
  PROVE  KeysOf(some) = KeysOf(others)
  BY DEF KeysOf

\* A period makes the controller's obstacles older and changes nothing else of them.
LEMMA TickAges ==
  ASSUME LinkInv, Tick
  PROVE  /\ \A held \in controller' : \E was \in controller :
               held = Marker(was.act, was.key, Min({was.age + 1, Stale + 3}))
         /\ KeysOf(controller') = KeysOf(controller)
  <1>1. controller' = {[held EXCEPT !.age = Min({@ + 1, Stale + 3})] : held \in controller}
    BY DEF Tick
  <1>2. \A held \in controller : [held EXCEPT !.age = Min({@ + 1, Stale + 3})]
              = Marker(held.act, held.key, Min({held.age + 1, Stale + 3}))
    <2> TAKE held \in controller
    <2>1. held = Marker(held.act, held.key, held.age)
      BY DEF LinkInv, Shaped
    <2> QED
      BY <2>1 DEF Marker
  <1>3. controller' = {Marker(was.act, was.key, Min({was.age + 1, Stale + 3})) : was \in controller}
    BY <1>1, <1>2
  <1>4. KeysOf(controller') = KeysOf(controller)
    <2>1. ASSUME NEW held \in controller'
          PROVE  \E was \in controller : held.key = was.key
      <3>1. PICK was \in controller :
               held = Marker(was.act, was.key, Min({was.age + 1, Stale + 3}))
        BY <1>3
      <3> QED
        BY <3>1 DEF Marker
    <2>2. \A was \in controller : \E held \in controller' : held.key = was.key
      <3> TAKE was \in controller
      <3>1. Marker(was.act, was.key, Min({was.age + 1, Stale + 3})) \in controller'
        BY <1>3
      <3> QED
        BY <3>1 DEF Marker
    <2> QED
      BY <2>1, <2>2, SameKeys
  <1> QED
    BY <1>3, <1>4

\* The array of a timer, and what it takes from which copy.
LEMMA TimerArray ==
  ASSUME LinkInv
  PROVE  /\ Whole(CollisionMarkers)
         /\ \A marker \in Added(CollisionMarkers) : marker.age \in 0 .. Stale
         /\ Proximity(Added(CollisionMarkers)) => Proximity(ToSet(extra)) /\ extraAge <= Stale
         /\ cloudAge <= Stale => \A i \in 1 .. cloud :
               <<"cloud", i>> \in KeysOf(Added(CollisionMarkers))
         /\ CollisionMarkers = <<>> => Added(CollisionMarkers) = {}
         /\ Coherent(extra) => Coherent(CollisionMarkers)
  <1> DEFINE array == CollisionMarkers
  <1>1. /\ array \in Seq(ToSet(array))
        /\ \A marker : marker \in ToSet(array)
              <=> \/ cloudAge <= Stale /\ \E i \in 1 .. cloud : marker = Marker("ADD", <<"cloud", i>>, cloudAge)
                  \/ /\ extraAge <= Stale
                     /\ \E of \in ToSet(extra) : marker = Marker(of.act, of.key, extraAge)
    BY CollisionElements DEF Fresh, Add
  <1>2. cloudAge \in Nat /\ extraAge \in Nat
    BY Bounds DEF LinkInv, Ages
  <1>3. \A of \in ToSet(extra) : of.key[1] \in {"prox", "all"}
    BY DEF LinkInv, FromSensors
  <1> HIDE DEF array
  <1>4. Whole(array)
    <2>1. \A marker \in ToSet(array) : marker = Marker(marker.act, marker.key, marker.age)
      BY <1>1 DEF Marker
    <2> QED
      BY <1>1, <2>1 DEF Whole, Shaped
  <1>5. \A marker \in Added(array) : marker.age \in 0 .. Stale
    BY <1>1, <1>2, Bounds DEF Added, Marker
  <1>6. Proximity(Added(array)) => Proximity(ToSet(extra)) /\ extraAge <= Stale
    <2> SUFFICES ASSUME NEW marker \in Added(array), marker.act = "ADD", marker.key[1] = "prox"
                 PROVE  Proximity(ToSet(extra)) /\ extraAge <= Stale
      BY DEF Proximity
    <2>1. CASE \E i \in 1 .. cloud : marker = Marker("ADD", <<"cloud", i>>, cloudAge)
      BY <2>1 DEF Marker
    <2>2. CASE extraAge <= Stale /\ \E of \in ToSet(extra) : marker = Marker(of.act, of.key, extraAge)
      BY <2>2 DEF Marker, Proximity
    <2> QED
      BY <1>1, <2>1, <2>2 DEF Added
  <1>7. ASSUME cloudAge <= Stale, NEW i \in 1 .. cloud
        PROVE  <<"cloud", i>> \in KeysOf(Added(array))
    <2>1. Marker("ADD", <<"cloud", i>>, cloudAge) \in ToSet(array)
      BY <1>1, <1>7
    <2> QED
      BY <2>1 DEF Added, KeysOf, Marker
  <1>8. array = <<>> => Added(array) = {}
    BY DEF Added, ToSet
  <1>9. ASSUME Coherent(extra)
        PROVE  Coherent(array)
    <2>1. ASSUME NEW marker \in ToSet(array), NEW other \in ToSet(array)
          PROVE  /\ marker.act # "DELETEALL"
                 /\ marker.key = other.key => marker.act = other.act
      <3>1. CASE marker.key[1] = "cloud"
        BY <1>1, <1>3, <3>1 DEF Marker
      <3>2. CASE marker.key[1] # "cloud"
        <4>1. PICK of \in ToSet(extra) : marker = Marker(of.act, of.key, extraAge)
          BY <1>1, <3>2 DEF Marker
        <4>2. marker.act # "DELETEALL"
          BY <1>9, <4>1 DEF Coherent, Marker
        <4>3. ASSUME marker.key = other.key
              PROVE  marker.act = other.act
          <5>1. PICK also \in ToSet(extra) : other = Marker(also.act, also.key, extraAge)
            BY <1>1, <3>2, <4>3 DEF Marker
          <5>2. of.key = also.key /\ marker.act = of.act /\ other.act = also.act
            BY <4>1, <4>3, <5>1 DEF Marker
          <5> QED
            BY <1>9, <5>2 DEF Coherent
        <4> QED
          BY <4>2, <4>3
      <3> QED
        BY <3>1, <3>2
    <2> QED
      BY <2>1 DEF Coherent
  <1> QED
    BY <1>4, <1>5, <1>6, <1>7, <1>8, <1>9 DEF array

\* A timer sends its array or, when it is empty and the last was too, nothing.
LEMMA TimerEffect ==
  ASSUME LinkInv, BridgeTimer
  PROVE  /\ InMerge /\ obstacles = <<>>
         /\ \/ obstacles' = <<CollisionMarkers>> /\ hadCollision' = (CollisionMarkers # <<>>)
            \/ /\ CollisionMarkers = <<>> /\ ~hadCollision
               /\ obstacles' = <<>> /\ hadCollision' = hadCollision
         /\ fired' = TRUE /\ extra' \in {extra, <<>>}
         /\ UNCHANGED <<setup, raw, controller, sinceDown, processed, cloud, cloudAge, extraAge>>
         /\ UNCHANGED <<rmpActive, lastDetection, lastBody, lastCollision, hadMarkers,
                        activeObstacles, logging, latest, tcpMarker>>
  <1>1. InMerge /\ obstacles = <<>> /\ hadCollision \in BOOLEAN
    BY DEF LinkInv, BridgeTimer
  <1>2. CASE Publishes(setup.publishEmpty)
    BY <1>1, <1>2 DEF BridgeTimer, PublishOutputs, proximityVars, featureVars, poseVars, loggerVars
  <1>3. CASE ~Publishes(setup.publishEmpty)
    <2>1. CollisionMarkers = <<>> /\ ~hadCollision
      BY <1>3 DEF Publishes
    <2> QED
      BY <1>1, <1>3, <2>1
         DEF BridgeTimer, PublishOutputs, proximityVars, featureVars, poseVars, loggerVars
  <1> QED
    BY <1>2, <1>3

\* An array on its way becomes all the controller has.
LEMMA ArrivalEffect ==
  ASSUME ObstaclesArrive
  PROVE  /\ obstacles # <<>> /\ obstacles' = <<>> /\ controller' = InFlight
         /\ UNCHANGED <<setup, fired, raw, viewer, sinceDown, processed>>
         /\ UNCHANGED <<cloud, cloudAge, extra, extraAge, hadCollision, rmpActive>>
         /\ UNCHANGED <<lastDetection, lastBody, lastCollision, hadMarkers>>
  BY DEF ObstaclesArrive, OnObstacles, InFlight, cloudVars, proximityVars, featureVars, poseVars

\* The steps that leave the controller and the way to it alone.
Upstream == Quiet \/ ColorImage \/ CameraSends \/ FlagArrives \/ PublishObstacles \/ RawArrives

\* They leave the timer's memory, the images' and the log alone too.
LEMMA UpstreamSteps ==
  ASSUME Upstream
  PROVE  /\ UNCHANGED <<setup, fired, obstacles, controller, hadCollision>>
         /\ UNCHANGED <<lastDetection, lastBody, lastCollision>>
         /\ UNCHANGED <<activeObstacles>>
  <1>1. CASE Quiet
    BY <1>1, QuietSteps
  <1>2. CASE ~Quiet
    BY <1>2 DEF Upstream, ColorImage, CameraSends, FlagArrives, PublishObstacles, RawArrives,
                OnCloud, OnCameraRvizMarkers, OnAdditionalMarkers,
                linkVars, cloudVars, featureVars, loggerVars
  <1> QED
    BY <1>1, <1>2

\* What RViz shows after a depth image: the markers of what was found, no others.
LEMMA ShownAfterImage ==
  ASSUME NEW detection \in {"none", "point", "body"}, Shaped(viewer),
         NearestKey \in KeysOf(viewer) => lastDetection,
         BodyKey \in KeysOf(viewer) => lastBody,
         KeysOf(viewer) \subseteq {NearestKey, BodyKey}
  PROVE  LET shown == Shown(viewer, NearestMarkers(detection) \o BodyMarkers(detection))
         IN /\ Shaped(shown)
            /\ NearestKey \in KeysOf(shown) => detection # "none"
            /\ BodyKey \in KeysOf(shown) => detection = "body"
            /\ KeysOf(shown) \subseteq {NearestKey, BodyKey}
  <1> DEFINE near == NearestMarkers(detection)
             body == BodyMarkers(detection)
             msg == near \o body
             shown == Shown(viewer, msg)
  <1>1. /\ near \in Seq(ToSet(near)) /\ body \in Seq(ToSet(body))
        /\ ToSet(near) \subseteq {IF detection = "none" THEN Delete(NearestKey) ELSE Add(NearestKey, 0)}
        /\ ToSet(body) \subseteq {IF detection = "body" THEN Add(BodyKey, 0) ELSE Delete(BodyKey)}
        /\ detection = "none" /\ lastDetection => ToSet(near) = {Delete(NearestKey)}
        /\ detection # "body" /\ lastBody => ToSet(body) = {Delete(BodyKey)}
    <2>1. \/ near = <<Add(NearestKey, 0)>> /\ detection # "none"
          \/ near = <<Delete(NearestKey)>> /\ detection = "none"
          \/ near = <<>> /\ detection = "none" /\ ~lastDetection
      BY DEF NearestMarkers
    <2>2. \/ body = <<Add(BodyKey, 0)>> /\ detection = "body"
          \/ body = <<Delete(BodyKey)>> /\ detection # "body"
          \/ body = <<>> /\ detection # "body" /\ ~lastBody
      BY DEF BodyMarkers
    <2> HIDE DEF near, body
    <2> QED
      BY <2>1, <2>2, NoElements, OneElement
  <1>2. msg \in Seq(ToSet(msg)) /\ ToSet(msg) = ToSet(near) \cup ToSet(body)
    BY <1>1, ConcatElements
  <1> HIDE DEF near, body
  <1>3. \A i \in DOMAIN msg : msg[i] \in ToSet(msg) /\ i \in Nat /\ i > 0
    <2>1. DOMAIN msg = 1 .. Len(msg) /\ Len(msg) \in Nat
      BY <1>2, LenProperties
    <2> QED
      BY <2>1 DEF ToSet
  <1>4. \A marker \in ToSet(msg) : \E i \in DOMAIN msg : marker = msg[i]
    BY DEF ToSet
  <1> HIDE DEF msg
  <1>5. \A i \in DOMAIN msg :
           \/ Ageless(msg)[i] = Marker("ADD", NearestKey, 0) /\ detection # "none"
           \/ Ageless(msg)[i] = Marker("ADD", BodyKey, 0) /\ detection = "body"
           \/ Ageless(msg)[i] = Marker("DELETE", NearestKey, 0)
           \/ Ageless(msg)[i] = Marker("DELETE", BodyKey, 0)
    BY <1>1, <1>2, <1>3 DEF Ageless, Add, Delete, Marker
  <1>6. /\ DOMAIN Ageless(msg) = DOMAIN msg
        /\ \A i \in DOMAIN msg : Ageless(msg)[i].key = msg[i].key
    BY <1>1, <1>2, <1>3 DEF Ageless, Add, Delete, Marker
  <1>7. ASSUME NEW marker \in shown
        PROVE  \/ /\ marker \in viewer
                  /\ detection = "none" => marker.key # NearestKey
                  /\ detection # "body" => marker.key # BodyKey
               \/ marker = Marker("ADD", NearestKey, 0) /\ detection # "none"
               \/ marker = Marker("ADD", BodyKey, 0) /\ detection = "body"
    <2>1. CASE marker \in viewer /\ Lasts(Ageless(msg), marker, 0)
      <3>1. \A sent \in ToSet(msg) : sent.key # marker.key
        BY <1>3, <1>4, <1>6, <2>1 DEF Lasts, Takes
      <3>2. ASSUME detection = "none"
            PROVE  marker.key # NearestKey
        <4>1. ASSUME lastDetection
              PROVE  marker.key # NearestKey
          BY <1>1, <1>2, <3>1, <3>2, <4>1 DEF Delete, Marker
        <4> QED
          BY <2>1, <4>1 DEF KeysOf
      <3>3. ASSUME detection # "body"
            PROVE  marker.key # BodyKey
        <4>1. ASSUME lastBody
              PROVE  marker.key # BodyKey
          <5>1. Delete(BodyKey) \in ToSet(msg)
            BY <1>1, <1>2, <3>3, <4>1
          <5> QED
            BY <3>1, <5>1 DEF Delete, Marker
        <4> QED
          BY <2>1, <4>1 DEF KeysOf
      <3> QED
        BY <2>1, <3>2, <3>3
    <2>2. CASE \E i \in DOMAIN msg : marker = Ageless(msg)[i] /\ marker.act = "ADD"
      <3>1. PICK i \in DOMAIN msg : marker = Ageless(msg)[i] /\ marker.act = "ADD"
        BY <2>2
      <3>2. \A key : Marker("DELETE", key, 0).act # "ADD"
        BY DEF Marker
      <3> QED
        BY <1>5, <3>1, <3>2
    <2> QED
      BY <1>6, <2>1, <2>2 DEF Shown, Edited
  <1>8. Shaped(shown)
    BY <1>7 DEF Shaped, Marker
  <1>9. NearestKey # BodyKey
    BY DEF NearestKey, BodyKey
  <1> HIDE DEF shown
  <1>10. /\ NearestKey \in KeysOf(shown) => detection # "none"
         /\ BodyKey \in KeysOf(shown) => detection = "body"
         /\ KeysOf(shown) \subseteq {NearestKey, BodyKey}
    BY <1>7, <1>9 DEF KeysOf, Marker
  <1> QED
    BY <1>8, <1>10 DEF shown, msg, near, body

-----------------------------------------------------------------------------
(* The columns of a row *)

\* More parts of a topic fill more columns.
LEMMA MoreParts ==
  ASSUME NEW topic, NEW parts, NEW more, parts \subseteq more
  PROVE  Filled(topic, parts) \subseteq Filled(topic, more)
  BY DEF Filled

\* What the header has for each topic.
LEMMA HeaderParts ==
  /\ Filled("rmp", {"age", "active", "schema", "prefix", "risk", "candidates"}) \subseteq CsvHeader
  /\ Filled("leaf", {"age", "head"} \cup Range(Groups)) \subseteq CsvHeader
  /\ Filled("certificate", {"age", "fields"}) \subseteq CsvHeader
  /\ Filled("joint_state", {"age", "name", "position", "velocity", "norm"}) \subseteq CsvHeader
  /\ Filled("dual", {"age", "active", "values"}) \subseteq CsvHeader
  /\ Filled("geometry", {"age", "active", "values", "sensor"}) \subseteq CsvHeader
  /\ Filled("target_metric", {"age", "values", "trace"}) \subseteq CsvHeader
  /\ Filled("debug_state", {"age", "values"}) \subseteq CsvHeader
  /\ Filled("markers", {"counts", "closest", "metrics", "tcp", "direction"}) \subseteq CsvHeader
  /\ Filled("controller_goal", {"stamp"}) \subseteq CsvHeader
  /\ \A topic \in PoseTopics : Filled(topic, {"age", "pose"}) \subseteq CsvHeader
  /\ \A topic \in VectorTopics : Filled(topic, {"age", "values", "norm"}) \subseteq CsvHeader
  /\ \A topic \in RangeTopics : Filled(topic, {"age", "values"}) \subseteq CsvHeader
  <1>1. /\ StateHeader \subseteq CsvHeader /\ TangentHeader \subseteq CsvHeader
        /\ CertificateHeader \subseteq CsvHeader /\ DualSolveHeader \subseteq CsvHeader
        /\ LeafHeader \subseteq CsvHeader /\ GeometryHeader \subseteq CsvHeader
        /\ MetricHeader \subseteq CsvHeader /\ MarkerHeader \subseteq CsvHeader
    BY Zenon DEF CsvHeader
  <1>2. /\ Filled("rmp", {"age", "active", "schema", "prefix", "risk", "candidates"}) \subseteq CsvHeader
        /\ Filled("leaf", {"age", "head"} \cup Range(Groups)) \subseteq CsvHeader
        /\ Filled("certificate", {"age", "fields"}) \subseteq CsvHeader
        /\ Filled("dual", {"age", "active", "values"}) \subseteq CsvHeader
        /\ Filled("geometry", {"age", "active", "values", "sensor"}) \subseteq CsvHeader
    BY <1>1 DEF TangentHeader, CertificateHeader, DualSolveHeader, LeafHeader, GeometryHeader
  <1>3. /\ Filled("target_metric", {"age", "values", "trace"}) \subseteq CsvHeader
        /\ Filled("debug_state", {"age", "values"}) \subseteq CsvHeader
    BY <1>1, Zenon DEF MetricHeader
  <1>4. /\ Filled("joint_state", {"age", "name", "position", "velocity", "norm"}) \subseteq StateHeader
        /\ Filled("controller_goal", {"stamp"}) \subseteq StateHeader
    BY Zenon DEF StateHeader
  <1>5. \A topic \in PoseTopics : Filled(topic, {"age", "pose"}) \subseteq StateHeader
    BY Zenon DEF StateHeader
  <1>6. \A topic \in VectorTopics : Filled(topic, {"age", "values", "norm"}) \subseteq StateHeader
    <2> DEFINE vectors == UNION {Filled(topic, {"age", "values", "norm"}) : topic \in VectorTopics}
    <2>1. \A topic \in VectorTopics : Filled(topic, {"age", "values", "norm"}) \subseteq vectors
      BY Zenon
    <2>2. vectors \subseteq StateHeader
      BY Zenon DEF StateHeader
    <2> HIDE DEF vectors
    <2> QED
      BY <2>1, <2>2, Zenon
  <1>7. /\ Filled("markers", {"counts", "closest", "metrics", "tcp", "direction"}) \subseteq MarkerHeader
        /\ \A topic \in RangeTopics : Filled(topic, {"age", "values"}) \subseteq MarkerHeader
    BY Zenon DEF MarkerHeader
  <1>8. \A parts : parts \subseteq StateHeader \/ parts \subseteq MarkerHeader => parts \subseteq CsvHeader
    BY <1>1, Zenon
  <1> QED
    BY <1>2, <1>3, <1>4, <1>5, <1>6, <1>7, <1>8, Zenon

\* No array fills a column without a place in the header.
LEMMA ColumnsInHeader ==
  ASSUME NEW array \in Arrays
  PROVE  ArrayColumns(array) \subseteq CsvHeader
  <1>1. array.topic \in Topics
    BY LoggerAssumption
  <1>2. CASE array.topic = "rmp"
    <2>1. array.schema \in {"idle", "unknown", "canonical", "risk"}
      BY <1>2, LoggerAssumption
    <2>2. TangentColumns(array)
            \subseteq Filled("rmp", {"age", "active", "schema", "prefix", "risk", "candidates"})
      BY <2>1 DEF TangentColumns, Filled
    <2>3. ArrayColumns(array) = TangentColumns(array)
      BY <1>2 DEF ArrayColumns, PoseTopics, VectorTopics, RangeTopics
    <2> QED
      BY <2>2, <2>3, HeaderParts, Zenon
  <1>3. CASE array.topic = "leaf"
    <2>1. \A id : GroupName(id) \in Range(Groups)
      BY LoggerAssumption DEF GroupName, Range
    <2>2. LeafColumns(array) \subseteq Filled("leaf", {"age", "head"} \cup Range(Groups))
      BY <2>1 DEF LeafColumns, Filled
    <2>3. ArrayColumns(array) = LeafColumns(array)
      BY <1>3 DEF ArrayColumns, PoseTopics, VectorTopics, RangeTopics
    <2> QED
      BY <2>2, <2>3, HeaderParts, Zenon
  <1>4. CASE array.topic = "certificate"
    <2>1. CertificateColumns(array) \subseteq Filled("certificate", {"age", "fields"})
      BY DEF CertificateColumns, Filled
    <2>2. ArrayColumns(array) = CertificateColumns(array)
      BY <1>4 DEF ArrayColumns, PoseTopics, VectorTopics, RangeTopics
    <2> QED
      BY <2>1, <2>2, HeaderParts, Zenon
  <1>5. CASE array.topic \in PoseTopics
    <2>1. \/ PoseColumns(array) = Filled(array.topic, {"age", "pose"})
          \/ /\ PoseColumns(array) = Filled(array.topic, {"age", "pose", "stamp"})
             /\ array.topic = "controller_goal"
      <3>1. {"age", "pose"} \cup {"stamp"} = {"age", "pose", "stamp"} /\ {"age", "pose"} \cup {} = {"age", "pose"}
        OBVIOUS
      <3> QED
        BY <3>1 DEF PoseColumns
    <2>2. ArrayColumns(array) = PoseColumns(array)
      BY <1>5 DEF ArrayColumns, PoseTopics, VectorTopics, RangeTopics
    <2>3. Filled(array.topic, {"age", "pose", "stamp"})
            \subseteq Filled(array.topic, {"age", "pose"}) \cup Filled(array.topic, {"stamp"})
      BY DEF Filled
    <2>4. Filled(array.topic, {"age", "pose"}) \subseteq CsvHeader
      BY <1>5, HeaderParts, Zenon
    <2>5. array.topic = "controller_goal" => Filled(array.topic, {"stamp"}) \subseteq CsvHeader
      BY HeaderParts, Zenon
    <2> QED
      BY <2>1, <2>2, <2>3, <2>4, <2>5, Zenon
  <1>6. CASE array.topic = "joint_state"
    <2>1. array.fields \subseteq {"name", "position", "velocity"}
      BY <1>6, LoggerAssumption
    <2>2. JointStateColumns(array)
            \subseteq Filled("joint_state", {"age", "name", "position", "velocity", "norm"})
      BY <2>1 DEF JointStateColumns, Filled
    <2>3. ArrayColumns(array) = JointStateColumns(array)
      BY <1>6 DEF ArrayColumns, PoseTopics, VectorTopics, RangeTopics
    <2> QED
      BY <2>2, <2>3, HeaderParts, Zenon
  <1>7. CASE array.topic \in VectorTopics
    <2>1. VectorColumns(array) \subseteq Filled(array.topic, {"age", "values", "norm"})
      BY DEF VectorColumns, Filled
    <2>2. ArrayColumns(array) = VectorColumns(array)
      BY <1>7 DEF ArrayColumns, PoseTopics, VectorTopics, RangeTopics
    <2> QED
      BY <1>7, <2>1, <2>2, HeaderParts, Zenon
  <1>8. CASE array.topic \in {"dual", "geometry", "target_metric", "debug_state"}
    <2>1. DualSolveColumns(array) \subseteq Filled("dual", {"age", "active", "values"})
      BY DEF DualSolveColumns, Filled
    <2>2. GeometryColumns(array) \subseteq Filled("geometry", {"age", "active", "values", "sensor"})
      BY DEF GeometryColumns, Filled
    <2>3. MetricColumns(array) \subseteq Filled("target_metric", {"age", "values", "trace"})
      BY DEF MetricColumns, Filled
    <2>4. DebugColumns(array) \subseteq Filled("debug_state", {"age", "values"})
      BY DEF DebugColumns, Filled
    <2>5. ArrayColumns(array) \in {DualSolveColumns(array), GeometryColumns(array),
                                   MetricColumns(array), DebugColumns(array)}
      BY <1>8 DEF ArrayColumns, PoseTopics, VectorTopics, RangeTopics
    <2> QED
      BY <2>1, <2>2, <2>3, <2>4, <2>5, HeaderParts, Zenon
  <1>9. CASE array.topic \in RangeTopics
    <2>1. ArrayColumns(array) = RangeColumns(array)
      BY <1>9 DEF ArrayColumns, PoseTopics, VectorTopics, RangeTopics
    <2> QED
      BY <1>9, <2>1, HeaderParts, Zenon DEF RangeColumns
  <1> QED
    BY <1>1, <1>2, <1>3, <1>4, <1>5, <1>6, <1>7, <1>8, <1>9 DEF Topics

\* No row has a column without a place in the header.
LEMMA RowInHeader ==
  ASSUME RowInv
  PROVE  SnapshotRow \subseteq CsvHeader
  <1>1. \A array \in latest : ArrayColumns(array) \subseteq CsvHeader
    BY ColumnsInHeader DEF RowInv
  <1>2. MarkerColumns \subseteq Filled("markers", {"counts", "closest", "metrics", "tcp", "direction"})
    <2>1. tcpMarker \in {"none", "point", "arrow"}
      BY DEF RowInv
    <2> QED
      BY <2>1 DEF MarkerColumns, Filled
  <1>3. MarkerColumns \subseteq CsvHeader
    BY <1>2, HeaderParts, Zenon
  <1> QED
    BY <1>1, <1>3, Zenon DEF SnapshotRow

-----------------------------------------------------------------------------
(* The invariant, part by part *)

\* Nothing has been sent, and nobody holds a marker.
LEMMA InitInv == Init => PipelineInv
  <1> SUFFICES ASSUME Init
               PROVE  PipelineInv
    OBVIOUS
  <1>1. /\ raw = <<>> /\ obstacles = <<>> /\ extra = <<>> /\ controller = {} /\ viewer = {}
        /\ setup \in Setups /\ fired = FALSE /\ sinceDown = 0 /\ processed = "none"
        /\ cloud = 0 /\ cloudAge = Old /\ extraAge = Old /\ hadCollision = FALSE
        /\ rmpActive = FALSE /\ hadMarkers = FALSE
        /\ lastDetection = FALSE /\ lastBody = FALSE /\ lastCollision = FALSE
        /\ logging = TRUE /\ latest = {} /\ tcpMarker = "none"
    BY DEF Init, CloudInit, ProximityInit, FeatureInit, PoseInit, LoggerInit
  <1>2. ToSet(extra) = {} /\ extra \in Seq(ToSet(extra))
    BY <1>1, NoElements
  <1>3. LinkInv
    <2>1. FromSensors(extra) /\ Shaped(controller)
      BY <1>1, <1>2 DEF FromSensors, Shaped
    <2>2. Old \in Ages
      BY Bounds DEF Ages
    <2> QED
      BY <1>1, <2>1, <2>2 DEF LinkInv
  <1>4. FreshInv /\ CloudInv
    BY <1>1 DEF FreshInv, CloudInv, InFlight, Served
  <1>5. GateInv
    BY <1>1, <1>2 DEF GateInv, Proximity, InFlight
  <1>6. GhostInv
    BY <1>1 DEF GhostInv, InFlight, Shaped, KeysOf
  <1>7. CoverInv /\ RowInv
    BY <1>1, <1>2 DEF CoverInv, RowInv, Coherent, KeysOf
  <1> QED
    BY <1>3, <1>4, <1>5, <1>6, <1>7 DEF PipelineInv

\* Arrays and copies are made of markers, and only a timer fills the way to the controller.
LEMMA LinkStep == PipelineInv /\ [Next]_vars => LinkInv'
  <1> SUFFICES ASSUME PipelineInv, [Next]_vars
               PROVE  LinkInv'
    OBVIOUS
  <1>0. LinkInv
    BY DEF PipelineInv
  <1> USE DEF LinkInv
  <1>1. CASE Quiet \/ ColorImage
    <2>1. UNCHANGED <<setup, fired, raw, obstacles, controller, sinceDown, cloud, cloudAge,
                      extra, extraAge, hadCollision, rmpActive>>
      BY <1>1, QuietSteps DEF ColorImage, cloudVars, proximityVars
    <2> QED
      BY <1>0, <2>1 DEF FromSensors, Whole, Shaped, InMerge
  <1>2. CASE CameraSends
    <2>1. /\ cloud' \in Nat /\ cloudAge' \in Ages
          /\ UNCHANGED <<setup, fired, raw, obstacles, controller, sinceDown, extra, extraAge,
                         hadCollision, rmpActive>>
      BY <1>0, <1>2, CloudCount, Bounds
         DEF CameraSends, OnCloud, OnCameraRvizMarkers, linkVars, proximityVars, Ages
    <2> QED
      BY <1>0, <2>1 DEF FromSensors, Whole, Shaped, InMerge
  <1>3. CASE FlagArrives
    <2>1. /\ sinceDown' \in Nat /\ rmpActive' \in BOOLEAN
          /\ UNCHANGED <<setup, fired, raw, obstacles, controller, cloud, cloudAge,
                         extra, extraAge, hadCollision>>
      BY <1>0, <1>3 DEF FlagArrives, OnRmpFlag, cloudVars
    <2> QED
      BY <1>0, <2>1 DEF FromSensors, Whole, Shaped, InMerge
  <1>4. CASE PublishObstacles
    <2>1. PICK ignored \in SUBSET Sensors, lost \in SUBSET Sensors :
             LET sent == ObstacleMessages(setup.gate, ignored, lost)
             IN raw' \in {raw, IF sent = <<>> THEN raw ELSE sent}
      BY <1>4 DEF PublishObstacles
    <2>2. raw' # <<>> => FromSensors(Head(raw'))
      BY <1>0, <2>1, SensorMessage
    <2>3. UNCHANGED <<setup, fired, obstacles, controller, sinceDown, cloud, cloudAge,
                      extra, extraAge, hadCollision, rmpActive>>
      BY <1>4 DEF PublishObstacles, cloudVars
    <2> QED
      BY <1>0, <2>2, <2>3 DEF FromSensors, Whole, Shaped, InMerge
  <1>5. CASE RawArrives
    <2>1. /\ FromSensors(extra') /\ extraAge' \in Ages /\ raw' = <<>>
          /\ UNCHANGED <<setup, fired, obstacles, controller, sinceDown, cloud, cloudAge,
                         hadCollision, rmpActive>>
      BY <1>0, <1>5, Bounds DEF RawArrives, OnAdditionalMarkers, proximityVars, Ages
    <2> QED
      BY <1>0, <2>1 DEF FromSensors, Whole, Shaped, InMerge
  <1>6. CASE BridgeTimer
    <2>1. FromSensors(extra')
      BY <1>0, <1>6, NoElements DEF BridgeTimer, PublishOutputs, FromSensors
    <2>2. /\ obstacles' # <<>> => obstacles' = <<CollisionMarkers>> \/ obstacles' = obstacles
          /\ fired' = TRUE /\ hadCollision' \in BOOLEAN
          /\ UNCHANGED <<setup, raw, controller, sinceDown, cloud, cloudAge, extraAge, rmpActive>>
      BY <1>0, <1>6 DEF BridgeTimer, PublishOutputs, proximityVars
    <2>3. obstacles' # <<>> => Whole(Head(obstacles'))
      BY <1>0, <2>2, TimerArray
    <2> QED
      BY <1>0, <2>1, <2>2, <2>3 DEF FromSensors, Whole, Shaped, InMerge
  <1>7. CASE ObstaclesArrive
    <2>1. Shaped(controller') /\ \A held \in controller' : held.act = "ADD"
      BY <1>0, <1>7 DEF ObstaclesArrive, OnObstacles, Whole, Shaped, Added
    <2>2. /\ obstacles' = <<>>
          /\ UNCHANGED <<setup, fired, raw, sinceDown, cloud, cloudAge, extra, extraAge,
                         hadCollision, rmpActive>>
      BY <1>7 DEF ObstaclesArrive, cloudVars, proximityVars
    <2> QED
      BY <1>0, <2>1, <2>2 DEF FromSensors
  <1>8. CASE Tick
    <2>1. Shaped(controller') /\ \A held \in controller' : held.act = "ADD"
      <3>1. ASSUME NEW held \in controller'
            PROVE  held = Marker(held.act, held.key, held.age) /\ held.act = "ADD"
        <4>1. PICK was \in controller :
                 held = Marker(was.act, was.key, Min({was.age + 1, Stale + 3}))
          BY <1>0, <1>8, TickAges
        <4> QED
          BY <1>0, <4>1 DEF Marker
      <3> QED
        BY <3>1 DEF Shaped
    <2>2. cloudAge' \in Ages /\ extraAge' \in Ages
      BY <1>0, <1>8, OlderAge DEF Tick, CloudTick
    <2>3. sinceDown' \in Nat
      <3>1. Min({sinceDown + 1, Stale + 2}) \in Nat
        BY <1>0, Bounds, MinOfTwo
      <3> QED
        BY <1>8, <3>1 DEF Tick
    <2>4. /\ raw = <<>> /\ obstacles = <<>> /\ fired' = FALSE
          /\ UNCHANGED <<setup, raw, obstacles, cloud, extra, hadCollision, rmpActive>>
      BY <1>8 DEF Tick, CloudTick, proximityVars
    <2> QED
      BY <1>0, <2>1, <2>2, <2>3, <2>4 DEF FromSensors
  <1>9. CASE DepthImage
    <2>1. /\ setup.kind = "feature"
          /\ obstacles' # <<>> => Head(obstacles') \in {<<>>, <<Add(BodyKey, 0)>>}
          /\ UNCHANGED <<setup, fired, raw, controller, sinceDown, cloud, cloudAge,
                         extra, extraAge, hadCollision, rmpActive>>
      BY <1>9 DEF DepthImage, CollisionMessages, In, cloudVars, proximityVars
    <2>2. Whole(<<>>) /\ Whole(<<Add(BodyKey, 0)>>)
      BY NoElements DEF Whole, Shaped, Add, Marker, ToSet
    <2>3. obstacles' # <<>> => Whole(Head(obstacles'))
      BY <2>1, <2>2
    <2> QED
      BY <1>0, <2>1, <2>3 DEF FromSensors, Shaped, InMerge
  <1> QED
    BY StepKinds, <1>1, <1>2, <1>3, <1>4, <1>5, <1>6, <1>7, <1>8, <1>9

\* A timer that sends nothing finds the controller empty, so no obstacle waits for a
\* second period.
LEMMA FreshStep == PipelineInv /\ [Next]_vars => FreshInv'
  <1> SUFFICES ASSUME PipelineInv, [Next]_vars
               PROVE  FreshInv'
    OBVIOUS
  <1>0. LinkInv /\ FreshInv
    BY DEF PipelineInv
  <1>1. CASE Upstream
    <2>1. UNCHANGED <<setup, fired, obstacles, controller, hadCollision>>
      BY <1>1, UpstreamSteps
    <2> QED
      BY <1>0, <2>1 DEF FreshInv, InMerge, InFlight, Served
  <1>2. CASE BridgeTimer
    <2>1. /\ InMerge /\ fired' = TRUE /\ setup' = setup /\ controller' = controller
          /\ \A held \in controller : held.age \in 0 .. Stale + 1
          /\ obstacles = <<>>
      BY <1>0, <1>2, TimerEffect DEF FreshInv
    <2>2. CASE obstacles' = <<CollisionMarkers>> /\ hadCollision' = (CollisionMarkers # <<>>)
      <3>1. InFlight' = Added(CollisionMarkers) /\ obstacles' # <<>>
        BY <2>2 DEF InFlight
      <3>2. \A marker \in InFlight' : marker.age \in 0 .. Stale
        BY <1>0, <3>1, TimerArray
      <3>3. ~hadCollision' => InFlight' = {}
        BY <1>0, <2>2, <3>1, TimerArray
      <3> QED
        BY <2>1, <3>1, <3>2, <3>3 DEF FreshInv, InMerge, Served
    <2>3. CASE ~hadCollision /\ obstacles' = <<>> /\ hadCollision' = hadCollision
      <3>1. controller = {} /\ InFlight' = {}
        BY <1>0, <2>1, <2>3 DEF FreshInv, InFlight
      <3> QED
        BY <2>1, <2>3, <3>1 DEF FreshInv, InMerge
    <2> QED
      BY <1>0, <1>2, <2>2, <2>3, TimerEffect
  <1>3. CASE ObstaclesArrive
    <2>1. /\ obstacles # <<>> /\ obstacles' = <<>> /\ controller' = InFlight /\ InFlight' = {}
          /\ UNCHANGED <<setup, fired, hadCollision>>
      BY <1>3, ArrivalEffect DEF InFlight
    <2>2. ASSUME InMerge
          PROVE  \A held \in controller' : held.age \in 0 .. Stale /\ held.age \in 0 .. Stale + 1
      BY <1>0, <2>1, <2>2, Bounds DEF FreshInv
    <2> QED
      BY <1>0, <2>1, <2>2 DEF FreshInv, InMerge
  <1>4. CASE Tick
    <2>1. /\ obstacles = <<>> /\ InFlight' = {} /\ fired' = FALSE
          /\ InMerge => Served
          /\ UNCHANGED <<setup, obstacles, hadCollision>>
      BY <1>4 DEF Tick, CloudTick, InFlight, Served
    <2>2. ASSUME InMerge, NEW held \in controller'
          PROVE  held.age \in 0 .. Stale + 1
      <3>1. PICK was \in controller :
               held = Marker(was.act, was.key, Min({was.age + 1, Stale + 3}))
        BY <1>0, <1>4, TickAges
      <3>2. was.age \in Nat /\ was.age <= Stale
        BY <1>0, <2>1, <2>2, Bounds DEF FreshInv
      <3>3. Min({was.age + 1, Stale + 3}) = was.age + 1
        BY <3>2, Bounds, MinOfTwo
      <3> QED
        BY <3>1, <3>2, <3>3, Bounds DEF Marker
    <2>3. controller = {} => controller' = {}
      BY <1>0, <1>4, TickAges
    <2> QED
      BY <1>0, <2>1, <2>2, <2>3 DEF FreshInv, InMerge, Served
  <1>5. CASE DepthImage
    BY <1>5 DEF DepthImage, In, FreshInv, InMerge
  <1> QED
    BY StepKinds, <1>1, <1>2, <1>3, <1>4, <1>5 DEF Upstream

\* A timer that has seen the cloud fresh has sent it.
LEMMA CloudStep == PipelineInv /\ [Next]_vars => CloudInv'
  <1> SUFFICES ASSUME PipelineInv, [Next]_vars
               PROVE  CloudInv'
    OBVIOUS
  <1>0. LinkInv /\ CloudInv
    BY DEF PipelineInv
  <1>1. CASE Upstream
    <2>1. UNCHANGED <<setup, fired, obstacles, controller>>
      BY <1>1, UpstreamSteps
    <2>2. cloudAge' = 0 \/ UNCHANGED <<cloud, cloudAge>>
      <3>1. CASE Quiet
        BY <3>1, QuietSteps
      <3>2. CASE ~Quiet
        BY <1>1, <3>2 DEF Upstream, ColorImage, CameraSends, FlagArrives, PublishObstacles,
              RawArrives, OnCloud, OnCameraRvizMarkers, OnAdditionalMarkers, cloudVars
      <3> QED
        BY <3>1, <3>2
    <2>3. CASE cloudAge' = 0
      BY <2>3, Bounds DEF CloudInv
    <2>4. CASE UNCHANGED <<cloud, cloudAge>>
      <3>1. InFlight' = InFlight
        BY <2>1 DEF InFlight
      <3> QED
        BY <1>0, <2>1, <2>4, <3>1 DEF CloudInv, InMerge
    <2> QED
      BY <2>2, <2>3, <2>4
  <1>2. CASE BridgeTimer
    <2> SUFFICES ASSUME cloudAge' \in 1 .. Stale, NEW i \in 1 .. cloud'
                 PROVE  <<"cloud", i>> \in KeysOf(IF obstacles' = <<>> THEN controller' ELSE InFlight')
      BY DEF CloudInv
    <2>1. <<"cloud", i>> \in KeysOf(Added(CollisionMarkers))
      BY <1>0, <1>2, TimerEffect, TimerArray, Bounds
    <2>2. CollisionMarkers # <<>>
      BY <1>0, <2>1, TimerArray DEF KeysOf
    <2>3. obstacles' = <<CollisionMarkers>>
      BY <1>0, <1>2, <2>2, TimerEffect
    <2> QED
      BY <2>1, <2>3 DEF InFlight
  <1>3. CASE ObstaclesArrive
    BY <1>0, <1>3, ArrivalEffect DEF CloudInv, InMerge
  <1>4. CASE Tick
    BY <1>4 DEF Tick, CloudInv
  <1>5. CASE DepthImage
    BY <1>5 DEF DepthImage, In, CloudInv, InMerge
  <1> QED
    BY StepKinds, <1>1, <1>2, <1>3, <1>4, <1>5 DEF Upstream

\* While the flag is down no proximity obstacle enters, and each place hands on what
\* it has before the fall is too old for it.
LEMMA GateStep == PipelineInv /\ [Next]_vars => GateInv'
  <1> SUFFICES ASSUME PipelineInv, [Next]_vars
               PROVE  GateInv'
    OBVIOUS
  <1>0. LinkInv /\ FreshInv /\ GateInv /\ sinceDown \in Nat /\ extraAge \in Ages
    BY DEF PipelineInv, LinkInv
  <1>1. CASE Quiet \/ ColorImage \/ CameraSends
    <2>1. UNCHANGED <<setup, fired, raw, obstacles, controller, sinceDown, extra, extraAge, rmpActive>>
      BY <1>1, QuietSteps
         DEF ColorImage, CameraSends, OnCloud, OnCameraRvizMarkers, linkVars, cloudVars, proximityVars
    <2> QED
      BY <1>0, <2>1 DEF GateInv, InFlight, Served, InMerge
  <1>2. CASE FlagArrives
    <2>1. /\ setup.gate /\ sinceDown' \in {0, sinceDown}
          /\ rmpActive' => sinceDown' = 0
      BY <1>2 DEF FlagArrives
    <2>2. UNCHANGED <<setup, fired, raw, obstacles, controller, extra, extraAge>>
      BY <1>2 DEF FlagArrives, cloudVars
    <2> QED
      BY <1>0, <2>1, <2>2, Bounds DEF GateInv, InFlight, Served, InMerge, Ages
  <1>3. CASE PublishObstacles
    <2>1. PICK ignored \in SUBSET Sensors, lost \in SUBSET Sensors :
             LET sent == ObstacleMessages(setup.gate, ignored, lost)
             IN raw' \in {raw, IF sent = <<>> THEN raw ELSE sent}
      BY <1>3 DEF PublishObstacles
    <2>2. raw' # <<>> /\ Proximity(ToSet(Head(raw'))) => sinceDown = 0
      BY <1>0, <2>1, SensorMessage DEF GateInv
    <2>3. UNCHANGED <<setup, fired, obstacles, controller, sinceDown, extra, extraAge, rmpActive>>
      BY <1>3 DEF PublishObstacles, cloudVars
    <2> QED
      BY <1>0, <2>2, <2>3 DEF GateInv, InFlight, Served, InMerge
  <1>4. CASE RawArrives
    <2>1. /\ raw # <<>> /\ raw' = <<>> /\ extra' = Head(raw) /\ extraAge' = 0
          /\ UNCHANGED <<setup, fired, obstacles, controller, sinceDown, rmpActive>>
      BY <1>4 DEF RawArrives, OnAdditionalMarkers, proximityVars
    <2> QED
      BY <1>0, <2>1 DEF GateInv, InFlight, Served, InMerge
  <1>5. CASE BridgeTimer
    <2>1. /\ InMerge /\ obstacles = <<>> /\ extra' \in {extra, <<>>}
          /\ UNCHANGED <<setup, raw, controller, sinceDown, extraAge, rmpActive>>
      BY <1>0, <1>5, TimerEffect
    <2>2. Proximity(ToSet(extra')) => Proximity(ToSet(extra))
      BY <2>1, NoElements DEF Proximity
    <2>3. CASE obstacles' = <<CollisionMarkers>>
      <3>1. InFlight' = Added(CollisionMarkers) /\ ~Served'
        BY <2>3 DEF InFlight, Served
      <3>2. Proximity(InFlight') => sinceDown <= Stale
        <4>1. Proximity(InFlight') => Proximity(ToSet(extra)) /\ extraAge <= Stale
          BY <1>0, <3>1, TimerArray
        <4> QED
          BY <1>0, <4>1, Bounds DEF GateInv, Ages
      <3> QED
        BY <1>0, <2>1, <2>2, <3>1, <3>2 DEF GateInv, InMerge
    <2>4. CASE ~hadCollision /\ obstacles' = <<>>
      <3>1. controller = {} /\ InFlight' = {}
        BY <1>0, <2>1, <2>4 DEF FreshInv, InFlight
      <3>2. ~Proximity(controller') /\ ~Proximity(InFlight')
        BY <2>1, <3>1 DEF Proximity
      <3> QED
        BY <1>0, <2>1, <2>2, <3>2 DEF GateInv, InMerge
    <2> QED
      BY <1>0, <1>5, <2>3, <2>4, TimerEffect
  <1>6. CASE ObstaclesArrive
    <2>1. /\ controller' = InFlight /\ InFlight' = {}
          /\ UNCHANGED <<setup, fired, raw, sinceDown, extra, extraAge, rmpActive>>
      BY <1>6, ArrivalEffect DEF InFlight
    <2>2. ~Proximity(InFlight')
      BY <2>1 DEF Proximity
    <2> QED
      BY <1>0, <2>1, <2>2, Bounds DEF GateInv, InMerge
  <1>7. CASE Tick
    <2>1. /\ raw' = <<>> /\ InFlight' = {} /\ ~Served'
          /\ InMerge => Served
          /\ UNCHANGED <<setup, extra, rmpActive>>
      BY <1>7 DEF Tick, CloudTick, proximityVars, InFlight, Served
    <2>2. ~Proximity(InFlight')
      BY <2>1 DEF Proximity
    <2>3. Proximity(controller') => Proximity(controller)
      <3> SUFFICES ASSUME NEW held \in controller', held.act = "ADD", held.key[1] = "prox"
                   PROVE  Proximity(controller)
        BY DEF Proximity
      <3>1. PICK was \in controller :
               held = Marker(was.act, was.key, Min({was.age + 1, Stale + 3}))
        BY <1>0, <1>7, TickAges
      <3> QED
        BY <3>1 DEF Marker, Proximity
    <2>4. extraAge' = IF extraAge = Old THEN Old ELSE extraAge + 1
      BY <1>0, <1>7, OlderAge DEF Tick, CloudTick
    <2>5. /\ sinceDown' \in Nat /\ sinceDown' <= sinceDown + 1
          /\ rmpActive \/ ~setup.gate => sinceDown' = 0
      <3>1. Min({sinceDown + 1, Stale + 2}) =
              IF sinceDown + 1 <= Stale + 2 THEN sinceDown + 1 ELSE Stale + 2
        BY <1>0, Bounds, MinOfTwo
      <3> QED
        BY <1>0, <1>7, <3>1, Bounds DEF Tick
    <2>6. Proximity(ToSet(extra')) => extraAge' >= sinceDown' \/ extraAge' = Old
      BY <1>0, <2>1, <2>4, <2>5, Bounds DEF GateInv, Ages
    <2>7. Proximity(controller') => InMerge' /\ sinceDown' <= Stale + 1
      BY <1>0, <2>1, <2>3, <2>5, Bounds DEF GateInv, InMerge
    <2> QED
      BY <2>1, <2>2, <2>5, <2>6, <2>7 DEF GateInv
  <1>8. CASE DepthImage
    <2>1. /\ setup.kind = "feature"
          /\ obstacles' # <<>> => Head(obstacles') \in {<<>>, <<Add(BodyKey, 0)>>}
          /\ UNCHANGED <<setup, fired, raw, controller, sinceDown, extra, extraAge, rmpActive>>
      BY <1>8 DEF DepthImage, CollisionMessages, In, cloudVars, proximityVars
    <2>2. ~Proximity(Added(<<>>)) /\ ~Proximity(Added(<<Add(BodyKey, 0)>>)) /\ ~Proximity({})
      BY NoElements DEF Proximity, Added, BodyKey, Add, Marker, ToSet
    <2>3. ~Proximity(InFlight')
      BY <2>1, <2>2 DEF InFlight
    <2>4. ~Proximity(controller)
      BY <1>0, <2>1 DEF GateInv, InMerge
    <2> QED
      BY <1>0, <2>1, <2>3, <2>4 DEF GateInv
  <1> QED
    BY StepKinds, <1>1, <1>2, <1>3, <1>4, <1>5, <1>6, <1>7, <1>8

\* Every image node remembers having published what its readers still hold.
LEMMA GhostStep == PipelineInv /\ [Next]_vars => GhostInv'
  <1> SUFFICES ASSUME PipelineInv, [Next]_vars
               PROVE  GhostInv'
    OBVIOUS
  <1>0. LinkInv /\ GhostInv
    BY DEF PipelineInv
  <1>1. CASE Quiet \/ CameraSends \/ FlagArrives \/ PublishObstacles \/ RawArrives
    <2>1. UNCHANGED <<setup, obstacles, controller, viewer, processed, lastDetection, lastBody,
                      lastCollision, hadMarkers>>
      BY <1>1, QuietSteps
         DEF CameraSends, FlagArrives, PublishObstacles, RawArrives, linkVars, featureVars, poseVars
    <2> QED
      BY <1>0, <2>1 DEF GhostInv, In, InFlight, Shaped
  <1>2. CASE BridgeTimer
    BY <1>0, <1>2, TimerEffect DEF GhostInv, In, InMerge
  <1>3. CASE ObstaclesArrive
    <2>1. /\ controller' = InFlight /\ InFlight' = {} /\ obstacles # <<>>
          /\ UNCHANGED <<setup, viewer, processed, lastDetection, lastBody,
                         lastCollision, hadMarkers>>
      BY <1>3, ArrivalEffect DEF InFlight
    <2> QED
      BY <1>0, <2>1 DEF GhostInv, In, Shaped
  <1>4. CASE Tick
    <2>1. /\ obstacles = <<>> /\ InFlight' = {} /\ viewer' = Expire(viewer, Lifetime)
          /\ UNCHANGED <<setup, obstacles, processed, lastDetection, lastBody, lastCollision, hadMarkers>>
      BY <1>4 DEF Tick, InFlight, featureVars, poseVars
    <2>2. controller = {} => controller' = {}
      BY <1>0, <1>4, TickAges
    <2>3. ASSUME Shaped(viewer), NEW kept \in viewer'
          PROVE  \E was \in viewer : kept.key = was.key /\ kept = Marker(kept.act, kept.key, kept.age)
      <3>1. CASE Lifetime = 0
        BY <2>1, <2>3, <3>1 DEF Expire, Shaped
      <3>2. CASE Lifetime # 0
        <4>1. PICK was \in viewer : kept = [was EXCEPT !.age = @ + 1]
          BY <2>1, <2>3, <3>2 DEF Expire
        <4>2. was = Marker(was.act, was.key, was.age)
          BY <2>3 DEF Shaped
        <4>3. kept = Marker(was.act, was.key, was.age + 1)
          BY <4>1, <4>2 DEF Marker
        <4> QED
          BY <4>3 DEF Marker
      <3> QED
        BY <3>1, <3>2
    <2>4. Shaped(viewer) => Shaped(viewer') /\ KeysOf(viewer') \subseteq KeysOf(viewer)
      BY <2>3 DEF Shaped, KeysOf
    <2>5. viewer = {} => viewer' = {}
      BY <2>3 DEF Shaped
    <2> QED
      BY <1>0, <2>1, <2>2, <2>4, <2>5 DEF GhostInv, In
  <1>5. CASE DepthImage
    <2>1. PICK image \in Images, transformed \in BOOLEAN :
             LET detection == ExtractObstacle(image)
             IN /\ OnDepthImage(detection, image.framed, transformed)
                /\ obstacles' = CollisionMessages(detection, image.framed, transformed)
                /\ viewer' = Shown(viewer, NearestMarkers(detection) \o BodyMarkers(detection))
                /\ processed' = IF detection = "body" /\ image.framed /\ transformed
                                  THEN "obstacle" ELSE detection
      BY <1>5 DEF DepthImage
    <2> DEFINE detection == ExtractObstacle(image)
               placed == detection = "body" /\ image.framed /\ transformed
               msg == NearestMarkers(detection) \o BodyMarkers(detection)
    <2>2. /\ setup.kind = "feature" /\ obstacles = <<>>
          /\ UNCHANGED <<setup, controller>>
      BY <1>5 DEF DepthImage, In
    <2>3. detection \in {"none", "point", "body"}
      BY FeatureAssumption DEF ExtractObstacle
    <2>4. /\ lastDetection' = (detection # "none") /\ lastBody' = (detection = "body")
          /\ lastCollision' = placed
          /\ processed' = IF placed THEN "obstacle" ELSE detection
      BY <2>1 DEF OnDepthImage
    <2>5. ~placed => InFlight' = {} /\ (obstacles' = <<>> => controller' = {})
      <3>1. Added(<<>>) = {}
        BY NoElements DEF Added
      <3>2. CASE lastCollision
        BY <2>1, <3>1, <3>2 DEF CollisionMessages, InFlight
      <3>3. CASE ~lastCollision
        BY <1>0, <2>1, <2>2, <3>3 DEF CollisionMessages, InFlight, GhostInv, In
      <3> QED
        BY <3>2, <3>3
    <2>6. /\ Shaped(viewer')
          /\ NearestKey \in KeysOf(viewer') => detection # "none"
          /\ BodyKey \in KeysOf(viewer') => detection = "body"
          /\ KeysOf(viewer') \subseteq {NearestKey, BodyKey}
      BY <1>0, <2>1, <2>2, <2>3, ShownAfterImage DEF GhostInv, In
    <2> HIDE DEF detection
    <2> QED
      BY <2>2, <2>3, <2>4, <2>5, <2>6 DEF GhostInv, In
  <1>6. CASE ColorImage
    <2>1. PICK color \in Colors :
             /\ OnColorImage(color)
             /\ viewer' = IF PoseMessages(color) = <<>> THEN viewer
                          ELSE Shown(viewer, Head(PoseMessages(color)))
             /\ processed' = IF ~ProcessesColor(color) THEN processed
                             ELSE IF MarkersOf(color) = {} THEN "none" ELSE "body"
      BY <1>6 DEF ColorImage
    <2>2. setup.kind = "pose" /\ setup' = setup
      BY <1>6 DEF ColorImage, In
    <2>3. CASE ~ProcessesColor(color)
      BY <1>0, <2>1, <2>2, <2>3 DEF GhostInv, In, PoseMessages, OnColorImage
    <2>4. CASE ProcessesColor(color) /\ MarkersOf(color) # {}
      BY <2>1, <2>2, <2>4 DEF GhostInv, In, OnColorImage
    <2>5. CASE ProcessesColor(color) /\ MarkersOf(color) = {} /\ ~hadMarkers
      <3>1. viewer' = {}
        BY <1>0, <2>1, <2>2, <2>5 DEF GhostInv, In, PoseMessages, ClearMarkers
      <3>2. ~hadMarkers'
        BY <2>1, <2>5 DEF OnColorImage
      <3> QED
        BY <2>2, <3>1, <3>2 DEF GhostInv, In
    <2>6. CASE ProcessesColor(color) /\ MarkersOf(color) = {} /\ hadMarkers
      <3>1. viewer' = Shown(viewer, <<DeleteAll>>)
        BY <2>1, <2>6 DEF PoseMessages, ClearMarkers
      <3>2. Shown(viewer, <<DeleteAll>>) = {}
        BY DEF Shown, Edited, Ageless, Lasts, Takes, DeleteAll, Marker
      <3>3. ~hadMarkers'
        BY <2>1, <2>6 DEF OnColorImage
      <3> QED
        BY <2>2, <3>1, <3>2, <3>3 DEF GhostInv, In
    <2> QED
      BY <2>3, <2>4, <2>5, <2>6
  <1> QED
    BY StepKinds, <1>1, <1>2, <1>3, <1>4, <1>5, <1>6

\* No message the controller gets without the gate takes back its own markers, so
\* the log keeps them too.
LEMMA CoverStep == PipelineInv /\ [Next]_vars => CoverInv'
  <1> SUFFICES ASSUME PipelineInv, [Next]_vars
               PROVE  CoverInv'
    OBVIOUS
  <1>0. LinkInv /\ CoverInv
    BY DEF PipelineInv
  <1>1. CASE Quiet \/ ColorImage \/ CameraSends \/ FlagArrives
    <2>1. UNCHANGED <<setup, raw, obstacles, controller, extra, activeObstacles>>
      BY <1>1, QuietSteps DEF ColorImage, CameraSends, FlagArrives, OnCloud,
            OnCameraRvizMarkers, linkVars, cloudVars, loggerVars
    <2> QED
      BY <1>0, <2>1 DEF CoverInv
  <1>2. CASE PublishObstacles
    <2>1. PICK ignored \in SUBSET Sensors, lost \in SUBSET Sensors :
             LET sent == ObstacleMessages(setup.gate, ignored, lost)
             IN raw' \in {raw, IF sent = <<>> THEN raw ELSE sent}
      BY <1>2 DEF PublishObstacles
    <2>2. ~setup.gate /\ raw' # <<>> => Coherent(Head(raw'))
      BY <1>0, <2>1, SensorMessage DEF CoverInv
    <2>3. UNCHANGED <<setup, obstacles, controller, extra, activeObstacles>>
      BY <1>2 DEF PublishObstacles, cloudVars, loggerVars
    <2> QED
      BY <1>0, <2>2, <2>3 DEF CoverInv
  <1>3. CASE RawArrives
    <2>1. /\ raw # <<>> /\ raw' = <<>> /\ extra' = Head(raw)
          /\ UNCHANGED <<setup, obstacles, controller, activeObstacles>>
      BY <1>3 DEF RawArrives, OnAdditionalMarkers, loggerVars
    <2> QED
      BY <1>0, <2>1 DEF CoverInv
  <1>4. CASE BridgeTimer
    <2>1. /\ obstacles' \in {<<>>, <<CollisionMarkers>>} /\ extra' \in {extra, <<>>}
          /\ UNCHANGED <<setup, raw, controller, activeObstacles>>
      BY <1>0, <1>4, TimerEffect
    <2>2. ~setup.gate => Coherent(extra) /\ Coherent(CollisionMarkers) /\ Coherent(<<>>)
      BY <1>0, TimerArray, NoElements DEF CoverInv, Coherent
    <2>3. ~setup.gate => Coherent(extra') /\ (obstacles' # <<>> => Coherent(Head(obstacles')))
      BY <2>1, <2>2
    <2> QED
      BY <1>0, <2>1, <2>3 DEF CoverInv
  <1>5. CASE ObstaclesArrive
    <2>1. /\ obstacles # <<>> /\ obstacles' = <<>> /\ controller' = Added(Head(obstacles))
          /\ UNCHANGED <<setup, raw, extra>>
      BY <1>5, ArrivalEffect DEF InFlight
    <2>2. ASSUME ~setup.gate, setup.observed
          PROVE  KeysOf(controller') \subseteq KeysOf(activeObstacles')
      <3>1. activeObstacles' = Edited(activeObstacles, Ageless(Head(obstacles)))
        BY <1>5, <2>2 DEF ObstaclesArrive, LoggerOnObstacles, LogObstacles
      <3>2. Whole(Head(obstacles)) /\ Coherent(Head(obstacles))
        BY <1>0, <2>1, <2>2 DEF LinkInv, CoverInv
      <3> QED
        BY <2>1, <3>1, <3>2, EditedCovers
    <2> QED
      BY <1>0, <2>1, <2>2 DEF CoverInv
  <1>6. CASE Tick
    <2>1. UNCHANGED <<setup, raw, obstacles, extra, activeObstacles>>
      BY <1>6 DEF Tick, CloudTick, loggerVars
    <2>2. KeysOf(controller') = KeysOf(controller)
      BY <1>0, <1>6, TickAges
    <2> QED
      BY <1>0, <2>1, <2>2 DEF CoverInv
  <1>7. CASE DepthImage
    <2>1. /\ obstacles' # <<>> => Head(obstacles') \in {<<>>, <<Add(BodyKey, 0)>>}
          /\ UNCHANGED <<setup, raw, controller, extra, activeObstacles>>
      BY <1>7 DEF DepthImage, CollisionMessages, cloudVars, loggerVars
    <2>2. Coherent(<<>>) /\ Coherent(<<Add(BodyKey, 0)>>)
      BY NoElements, OneElement DEF Coherent, Add, Marker
    <2> QED
      BY <1>0, <2>1, <2>2 DEF CoverInv
  <1> QED
    BY StepKinds, <1>1, <1>2, <1>3, <1>4, <1>5, <1>6, <1>7

\* The logger goes on, whatever it hears.
LEMMA RowStep == PipelineInv /\ [Next]_vars => RowInv'
  <1> SUFFICES ASSUME PipelineInv, [Next]_vars
               PROVE  RowInv'
    OBVIOUS
  <1>0. RowInv
    BY DEF PipelineInv
  <1>1. CASE LoggerHears
    <2>1. CASE \E array \in Arrays : Store(array)
      BY <1>0, <2>1 DEF Store, RowInv
    <2>2. CASE \E msg \in Metrics : OnRepulsionMetrics(msg)
      BY <1>0, <2>2 DEF OnRepulsionMetrics, RowInv
    <2>3. CASE \E marker \in {"none", "point", "arrow"} : OnTcpAccelMarker(marker)
      BY <1>0, <2>3 DEF OnTcpAccelMarker, RowInv
    <2> QED
      BY <1>1, <2>1, <2>2, <2>3 DEF LoggerHears
  <1>2. CASE LoggerTimer
    BY <1>0, <1>2, RowInHeader DEF LoggerTimer, WriteSnapshot, RowInv
  <1>3. CASE ~LoggerHears /\ ~LoggerTimer
    <2>1. UNCHANGED <<logging, latest, tcpMarker>>
      BY <1>3 DEF Next, CameraSends, SensorsSend, Reconfigure, FlagArrives, PublishObstacles,
            RawArrives, BridgeTimer, ObstaclesArrive, Tick, SourcesStop, DepthImage, ColorImage,
            CameraSetup, LoggerOnObstacles, loggerVars, vars
    <2> QED
      BY <1>0, <2>1 DEF RowInv
  <1> QED
    BY <1>1, <1>2, <1>3

-----------------------------------------------------------------------------
(* The theorems *)

\* The invariant holds of every state the pipeline reaches.
LEMMA PipelineInvariant == Spec => []PipelineInv
  <1>1. PipelineInv /\ [Next]_vars => PipelineInv'
    BY LinkStep, FreshStep, CloudStep, GateStep, GhostStep, CoverStep, RowStep DEF PipelineInv
  <1> QED
    BY InitInv, <1>1, PTL DEF Spec

\* The obstacles the controller avoids are no older than the stale time and their way,
\* for every stale time, also when publish_empty_when_stale is off.
THEOREM ObstaclesFresh == Spec => []ControllerFresh
  <1>1. PipelineInv => ControllerFresh
    BY Bounds DEF PipelineInv, FreshInv, ControllerFresh
  <1> QED
    BY PipelineInvariant, <1>1, PTL

\* After every timer a fresh cloud is with the controller, whatever array the proximity
\* bridge has sent behind it.
THEOREM CloudSurvives == Spec => []CameraSurvivesClear
  <1>1. PipelineInv => CameraSurvivesClear
    BY DEF PipelineInv, CloudInv, CameraSurvivesClear
  <1> QED
    BY PipelineInvariant, <1>1, PTL

\* A fallen flag clears the controller of proximity obstacles within the stale time and
\* their way, for any number of sensors, when the clear message is lost too.
THEOREM FlagClears == Spec => []GateClears
  <1>1. PipelineInv => GateClears
    <2> SUFFICES ASSUME PipelineInv, sinceDown > Stale + 1, NEW held \in controller
                 PROVE  held.key[1] # "prox"
      BY DEF GateClears
    <2>1. held.act = "ADD"
      BY DEF PipelineInv, LinkInv
    <2>2. ~Proximity(controller)
      BY Bounds DEF PipelineInv, LinkInv, GateInv
    <2> QED
      BY <2>1, <2>2 DEF Proximity
  <1> QED
    BY PipelineInvariant, <1>1, PTL

\* An image without an obstacle leaves none of an earlier one in its readers, for every
\* set of images, landmarks and limbs.
THEOREM ImagesCleared == Spec => []NoGhosts
  <1>1. PipelineInv => NoGhosts
    BY DEF PipelineInv, GhostInv, NoGhosts, KeysOf
  <1> QED
    BY PipelineInvariant, <1>1, PTL

\* Without the gate every obstacle of the controller is in the trace log.
THEOREM LogCovers == Spec => []LogCoversController
  <1>1. PipelineInv => LogCoversController
    BY DEF PipelineInv, CoverInv, LogCoversController
  <1> QED
    BY PipelineInvariant, <1>1, PTL

\* No array of the publishers' shapes ends the logger, for any sets of groups and arrays.
THEOREM LoggerGoesOn == Spec => []LoggerSurvives
  <1>1. PipelineInv => LoggerSurvives
    BY DEF PipelineInv, RowInv, LoggerSurvives
  <1> QED
    BY PipelineInvariant, <1>1, PTL
================================================================================
