---------------------------- MODULE RmpDataRecorder ----------------------------
(***************************************************************************)
(* rmp_data_recorder.py: a node spun by one executor thread that writes the *)
(* latest joint and range samples to a CSV file between the Trigger         *)
(* services ~/start and ~/stop.  Each service has its own request queue and *)
(* the executor may serve either first.  A caller may give up; its request  *)
(* stays in the queue and is executed all the same.                         *)
(* A row of the latest samples is abstracted to the moment it was written   *)
(* in: that is what the owner of a dataset cares about.                     *)
(***************************************************************************)
EXTENDS Naturals, Sequences, FiniteSets

CONSTANT MaxRequests    \* bound: requests waiting at one service

ASSUME RecorderAssumption == MaxRequests \in Nat \ {0}

VARIABLES
    isRecording,   \* is_recording; the CSV file is open exactly then
    dataset,       \* moments of the rows in the latest CSV file
    requests,      \* per service: who waits for each request, TRUE if anybody
    answer,        \* what the waiting caller will read: none, ok, refused
    strayed        \* history: recordings and stops that nobody answers for

recorderVars == <<isRecording, dataset, requests, answer, strayed>>

Operations == {"start", "stop"}

RecorderTypeOK ==
    /\ isRecording \in BOOLEAN
    /\ dataset \subseteq {"run", "outside"}
    /\ DOMAIN requests = Operations
    /\ \A op \in Operations : /\ requests[op] \in Seq(BOOLEAN)
                              /\ Len(requests[op]) <= MaxRequests
    /\ answer \in {"none", "ok", "refused"}
    /\ strayed \subseteq Operations \cup {"auto"}

\* The constructor starts a recording itself when auto_start is set.
RecorderInit ==
    /\ isRecording \in BOOLEAN
    /\ dataset = {}
    /\ requests = [op \in Operations |-> <<>>]
    /\ answer = "none"
    /\ strayed = IF isRecording THEN {"auto"} ELSE {}

\* The service callback returns (success, message) to whoever still waits.
Serve(op, outcome) ==
    /\ requests[op] # <<>>
    /\ requests' = [requests EXCEPT ![op] = Tail(@)]
    /\ answer' = IF Head(requests[op]) THEN outcome ELSE answer

Abandoned(op, queue) == \E i \in DOMAIN queue[op] : ~queue[op][i]

StartAnswerWhileOpen == "ok"

\* A start while recording succeeds ("Already recording") on the open file.
StartRecording ==
    /\ Serve("start", IF isRecording THEN StartAnswerWhileOpen ELSE "ok")
    /\ isRecording' = TRUE
    /\ dataset' = IF isRecording THEN dataset ELSE {}
    /\ strayed' = IF isRecording \/ Abandoned("stop", requests)
                    THEN strayed ELSE strayed \ {"stop"}

\* A stop while idle is refused ("Not recording").
StopRecording ==
    /\ Serve("stop", IF isRecording THEN "ok" ELSE "refused")
    /\ isRecording' = FALSE
    /\ strayed' = {op \in strayed \ {"auto"} :
                      \/ Abandoned(op, requests')
                      \/ op = "stop" /\ ~Head(requests[op])}
    /\ UNCHANGED dataset

\* The timer writes a row.
RecordOnce(moment) ==
    /\ isRecording
    /\ dataset' = dataset \cup {moment}
    /\ UNCHANGED <<isRecording, requests, answer, strayed>>

-----------------------------------------------------------------------------
(* What a client does: send a request, give up on it, take its answer *)

SendRequest(op) ==
    /\ Len(requests[op]) < MaxRequests
    /\ requests' = [requests EXCEPT ![op] = Append(@, TRUE)]
    /\ answer' = "none"
    /\ UNCHANGED <<isRecording, dataset, strayed>>

\* The deadline passed: the future is dropped, the request is not.
GiveUpRequest(op) ==
    /\ requests' = [requests EXCEPT ![op] = [i \in DOMAIN @ |-> FALSE]]
    /\ answer' = "none"
    /\ strayed' = strayed \cup {op}
    /\ UNCHANGED <<isRecording, dataset>>

\* The service was never seen: nothing is sent.
NoService(op) ==
    /\ strayed' = IF op = "stop" THEN strayed \cup {op} ELSE strayed
    /\ UNCHANGED <<isRecording, dataset, requests, answer>>

TakeAnswer(outcome) ==
    /\ answer = outcome
    /\ answer' = "none"
    /\ UNCHANGED <<isRecording, dataset, requests, strayed>>

================================================================================
