---------------------------- MODULE DedupSystem ----------------------------
(***************************************************************************)
(* The whole system: every session's client program, the pool thread that  *)
(* serves it and its two writer threads, interleaved, over the channels of *)
(* Wire, the FILES table, the chunk index and the disk.                    *)
(***************************************************************************)
EXTENDS DedupClient, ClientConn

VARIABLES
  after       (* history: the sessions whose upload had finished and whose *)
              (* client had closed when this session connected             *)

vars == <<job, wire, clientVars, serverVars, connVars, after>>

(* The client program of s runs; connecting is an event of the history.    *)
ClientSide(s) ==
  /\ \/ /\ Connect(s)
        /\ after' = [after EXCEPT ![s] = {t \in finished : cpc[t] = "closed"}]
     \/ ClientStep(s) /\ UNCHANGED after
  /\ UNCHANGED <<job, serverVars, connVars>>

(* A thread of the server runs on behalf of s.                             *)
ServerSide(s) ==
  /\ HandlerStep(s) \/ DataWriterStep(s) \/ RecipeWriterStep(s)
  /\ UNCHANGED <<job, clientVars, after>>

(* The server does not stop: epoll_wait goes on when every client is gone. *)
Idle ==
  /\ \A s \in Sessions : cpc[s] = "closed" /\ spc[s] = "closed"
  /\ UNCHANGED vars

Init ==
  /\ job \in [Sessions -> Jobs]
  /\ toServer = [s \in Sessions |-> << >>]
  /\ toClient = [s \in Sessions |-> << >>]
  /\ ClientInit
  /\ ServerInit
  /\ ConnInit
  /\ after = [s \in Sessions |-> {}]

Next == (\E s \in Sessions : ClientSide(s) \/ ServerSide(s)) \/ Idle

Spec == Init /\ [][Next]_vars

(***************************************************************************)
(* Every thread that can run is scheduled eventually: weak fairness of     *)
(* each one.  The pool takes waiting connections in order; with finitely   *)
(* many sessions that is fairness of Serve.                                *)
(***************************************************************************)
Fairness ==
  \A s \in Sessions :
    /\ WF_vars(ClientSide(s))
    /\ WF_vars(HandlerStep(s) /\ UNCHANGED <<job, clientVars, after>>)
    /\ WF_vars(DataWriterStep(s) /\ UNCHANGED <<job, clientVars, after>>)
    /\ WF_vars(RecipeWriterStep(s) /\ UNCHANGED <<job, clientVars, after>>)

FairSpec == Spec /\ Fairness

(* Every variable holds a value the code's types allow.                    *)
TypeOK ==
  /\ job \in [Sessions -> Jobs]
  /\ toServer \in [Sessions -> Seq(ServerMsg)]
  /\ toClient \in [Sessions -> Seq(ClientMsg)]
  /\ ClientTypeOK
  /\ ServerTypeOK
  /\ ConnTypeOK
  /\ after \in [Sessions -> SUBSET Sessions]
=============================================================================
