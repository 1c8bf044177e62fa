------------------------------ MODULE TraceLogger ------------------------------
(***************************************************************************)
(* rmpflow_trace_logger.py: the last message of every topic is kept, and    *)
(* every timer writes one row from what is there.  Numbers are left out: a  *)
(* column group is empty or filled, and a data array is seen as its schema  *)
(* and how many records it announces and carries.  A row with a column that *)
(* is not in the header raises in the timer callback and ends the node.     *)
(***************************************************************************)
EXTENDS MarkerConsumers, FiniteSetsExt, Functions

CONSTANTS
    Groups,          \* LEAF_ABLATION_GROUPS: group id -> name
    Arrays,          \* what its publishers send: [topic, ...]
    MaxTopics,       \* bound: topics with a message
    SensorCount      \* length of SENSOR_NAMES

PoseTopics == {"external_goal", "controller_goal", "rmp_ee_pose"}
VectorTopics == {"target_q", "command_q", "rmp_joint_accel", "rmp_tcp_accel"}
RangeTopics == {"range_a", "range_b"}
Topics == {"rmp", "leaf", "certificate", "joint_state", "dual", "geometry",
           "target_metric", "debug_state"}
              \cup PoseTopics \cup VectorTopics \cup RangeTopics

\* Another schema number is seen as "unknown"; LEAF_ABLATION_GROUPS has "other".
ASSUME LoggerAssumption ==
    /\ "other" \in Range(Groups)
    /\ \A array \in Arrays :
          /\ array.topic \in Topics
          /\ array.topic = "rmp" => array.schema \in {"idle", "unknown", "canonical", "risk"}
          /\ array.topic = "joint_state" => array.fields \subseteq {"name", "position", "velocity"}

VARIABLES
    logging,         \* the node runs
    activeObstacles, \* active_obstacle_markers
    repulsion,       \* repulsion_metric_markers
    tcpMarker,       \* tcp_accel_marker: "none", "point" or "arrow"
    latest           \* latest: topics with their last array

loggerVars == <<logging, activeObstacles, repulsion, tcpMarker, latest>>

LoggerTypeOK ==
    /\ logging \in BOOLEAN
    /\ tcpMarker \in {"none", "point", "arrow"}
    /\ latest \subseteq Arrays
    /\ \A array, other \in latest : array.topic = other.topic => array = other

LoggerInit ==
    /\ logging = TRUE
    /\ activeObstacles = {} /\ repulsion = {} /\ tcpMarker = "none"
    /\ latest = {}

Store(array) ==
    /\ latest' = {kept \in latest : kept.topic # array.topic} \cup {array}
    /\ Cardinality(latest') <= MaxTopics
    /\ UNCHANGED <<logging, activeObstacles, repulsion, tcpMarker>>

LoggerOnObstacles(msg) ==
    /\ activeObstacles' = LogObstacles(activeObstacles, Ageless(msg))
    /\ UNCHANGED <<logging, repulsion, tcpMarker, latest>>

OnRepulsionMetrics(msg) ==
    /\ repulsion' = LogObstacles(repulsion, msg)
    /\ UNCHANGED <<logging, activeObstacles, tcpMarker, latest>>

OnTcpAccelMarker(marker) ==
    /\ tcpMarker' = marker
    /\ UNCHANGED <<logging, activeObstacles, repulsion, latest>>

-----------------------------------------------------------------------------
(* The columns of one row *)

Column(topic, part) == <<topic, part>>
Filled(topic, parts) == {Column(topic, part) : part \in parts}

\* The tangent array: an inactive leaf sends one value; schema 6 has the common
\* prefix, schema 7 the risk fields too; another schema fills only its number.
DecodedCandidates(array) == Min({array.count, array.room})
TangentColumns(array) ==
    LET candidates == IF DecodedCandidates(array) > 0 THEN {"candidates"} ELSE {}
    IN Filled("rmp", {"age", "active"} \cup
         CASE array.schema = "idle" -> {}
           [] array.schema = "unknown" -> {"schema"}
           [] array.schema = "canonical" -> {"schema", "prefix"} \cup candidates
           [] array.schema = "risk" -> {"schema", "prefix", "risk"} \cup candidates)

GroupAsNumbered(id) == IF id \in DOMAIN Groups THEN Groups[id] ELSE "group"
GroupName(id) == IF id \in DOMAIN Groups THEN Groups[id] ELSE "other"

\* The ablation array: its head must be whole and of schema 1; of the announced
\* records those are read that it carries.
LeafColumns(array) ==
    LET records == SubSeq(array.groups, 1, Min({array.count, Len(array.groups)}))
    IN Filled("leaf", {"age"} \cup
         IF array.whole THEN {"head"} \cup {GroupName(id) : id \in ToSet(records)} ELSE {})

CertificateColumns(array) ==
    Filled("certificate", IF array.whole THEN {"age", "fields"} ELSE {"age"})

PoseColumns(pose) ==
    Filled(pose.topic, {"age", "pose"} \cup
         IF pose.topic = "controller_goal" THEN {"stamp"} ELSE {})

\* Names, positions and velocities reach as far as each of the three arrays.
JointStateColumns(state) ==
    Filled("joint_state", {"age"} \cup state.fields \cup
         IF "velocity" \in state.fields THEN {"norm"} ELSE {})

\* _fill_vector and _fill_cartesian_vector: a norm of what there is.
VectorColumns(array) ==
    Filled(array.topic, IF array.count > 0 THEN {"age", "values", "norm"} ELSE {"age"})

\* The first value of these two is their flag; the first geometry value names the
\* sensor, when there is such a sensor.
DualSolveColumns(array) ==
    Filled("dual", {"age"} \cup (IF array.count > 0 THEN {"active"} ELSE {})
                           \cup (IF array.count > 1 THEN {"values"} ELSE {}))
GeometryColumns(array) ==
    Filled("geometry", {"age"} \cup (IF array.count > 0 THEN {"active"} ELSE {})
                 \cup (IF array.count > 1 THEN {"values"} ELSE {})
                 \cup (IF array.count > 1 /\ array.sensor < SensorCount THEN {"sensor"} ELSE {}))

MetricColumns(array) ==
    Filled("target_metric", {"age"} \cup (IF array.count > 0 THEN {"values"} ELSE {})
                                    \cup (IF array.count >= 9 THEN {"trace"} ELSE {}))

\* Of a longer array only as many as there are DEBUG_FIELDS.
DebugColumns(array) ==
    Filled("debug_state", {"age"} \cup IF array.count > 0 THEN {"values"} ELSE {})

\* A range sensor's row, triggered or not, and the list of those that are.
RangeColumns(array) == Filled(array.topic, {"age", "values"})

\* The columns of each topic.
ArrayColumns(array) ==
    CASE array.topic = "rmp" -> TangentColumns(array)
      [] array.topic = "leaf" -> LeafColumns(array)
      [] array.topic = "certificate" -> CertificateColumns(array)
      [] array.topic \in PoseTopics -> PoseColumns(array)
      [] array.topic = "joint_state" -> JointStateColumns(array)
      [] array.topic \in VectorTopics -> VectorColumns(array)
      [] array.topic = "dual" -> DualSolveColumns(array)
      [] array.topic = "geometry" -> GeometryColumns(array)
      [] array.topic = "target_metric" -> MetricColumns(array)
      [] array.topic = "debug_state" -> DebugColumns(array)
      [] array.topic \in RangeTopics -> RangeColumns(array)

\* The marker columns: counts, the closest obstacle, the repulsion metrics, and
\* the TCP arrow, whose direction needs a length.
MarkerColumns ==
    Filled("markers", {"counts"}
        \cup (IF activeObstacles # {} /\ "rmp_ee_pose" \in {array.topic : array \in latest}
              THEN {"closest"} ELSE {})
        \cup (IF repulsion = {} THEN {} ELSE {"metrics"})
        \cup (CASE tcpMarker = "none" -> {}
                [] tcpMarker = "point" -> {"tcp"}
                [] tcpMarker = "arrow" -> {"tcp", "direction"}))

SnapshotRow == MarkerColumns \cup UNION {ArrayColumns(array) : array \in latest}

\* _make_csv_header, in its order.
StateHeader ==
    Filled("controller_goal", {"stamp"})
    \cup (UNION {Filled(topic, {"age", "pose"}) : topic \in PoseTopics})
    \cup Filled("joint_state", {"age", "name", "position", "velocity", "norm"})
    \cup (UNION {Filled(topic, {"age", "values", "norm"}) : topic \in VectorTopics})
TangentHeader ==
    Filled("rmp", {"age", "active", "schema", "prefix", "risk", "candidates"})
CertificateHeader == Filled("certificate", {"age", "fields"})
DualSolveHeader == Filled("dual", {"age", "active", "values"})
LeafHeader == Filled("leaf", {"age", "head"} \cup Range(Groups))
GeometryHeader == Filled("geometry", {"age", "active", "values", "sensor"})
MetricHeader ==
    Filled("target_metric", {"age", "values", "trace"})
    \cup Filled("debug_state", {"age", "values"})
MarkerHeader ==
    Filled("markers", {"counts", "closest", "metrics", "tcp", "direction"})
    \cup UNION {Filled(topic, {"age", "values"}) : topic \in RangeTopics}

CsvHeader ==
    UNION {StateHeader, TangentHeader, CertificateHeader, DualSolveHeader,
           LeafHeader, GeometryHeader, MetricHeader, MarkerHeader}

WriteSnapshot ==
    /\ logging
    /\ logging' = (SnapshotRow \subseteq CsvHeader)
    /\ UNCHANGED <<activeObstacles, repulsion, tcpMarker, latest>>

================================================================================
