------------------------------- MODULE Pipelines -------------------------------
(***************************************************************************)
(* Pipelines: the rows of pipelines, pipeline_steps and pipeline_runs, and *)
(* the handlers that create, update, schedule, run and delete a pipeline.  *)
(* The steps of a pipeline are rows inserted one by one; no handler uses a *)
(* transaction, and every statement runs under the request's context, which*)
(* ends when the client goes away.                                         *)
(*                                                                         *)
(* "head" stands for the columns a PUT may change, "schedule" for the      *)
(* schedule column.  The checks of the agents and of the satellite, which  *)
(* change nothing, are made before the first statement modelled; what they *)
(* saw may be stale, so the INSERT of a step may still be refused: a step  *)
(* whose agent is gone by then, or whose mode or config the table does not *)
(* accept, is Refused.                                                     *)
(***************************************************************************)
EXTENDS Naturals, Sequences, FiniteSets

CONSTANTS Ids,       \* ids of pipelines
          Heads,
          Lists,     \* step lists requests carry, each of at least two steps
          Refused,   \* a step the table refuses
          Clients,   \* requests the API serves at the same time
          MaxRuns,   \* bound on the runs of one pipeline
          None

VARIABLES pipe,    \* pipe[p]: [head, schedule], or None
          steps,   \* steps[p]: the rows of pipeline_steps, [order, step]
          runs,    \* runs[p]: the number of rows of pipeline_runs, all pending
          req,     \* req[c]: the request client c waits for
          used,    \* the ids given to a pipeline so far
          last,    \* last[p]: the list of the last request that stored its steps
          torn     \* the pipelines whose steps several requests, or part of one, wrote

vars == <<pipe, steps, runs, req, used, last, torn>>

Idle == [op |-> "none", pc |-> "idle", id |-> None, list |-> <<>>, next |-> 1,
         head |-> None, row |-> None, alone |-> TRUE]

TypeOK ==
    /\ \A p \in Ids : pipe[p] = None \/ pipe[p] \in [head : Heads, schedule : {None}]
    /\ \A p \in Ids : \A r, s \in steps[p] : r.order = s.order => r = s
    /\ runs \in [Ids -> 0..MaxRuns]
    /\ torn \subseteq used

Init ==
    /\ pipe = [p \in Ids |-> None]
    /\ steps = [p \in Ids |-> {}]
    /\ runs = [p \in Ids |-> 0]
    /\ req = [c \in Clients |-> Idle]
    /\ used = {}
    /\ last = [p \in Ids |-> <<>>]
    /\ torn = {}

-----------------------------------------------------------------------------
(* The statements.                                                         *)

Goto(c, pc) == req' = [req EXCEPT ![c].pc = pc]

Answer(c) == req' = [req EXCEPT ![c] = Idle]

At(c, pc) == req[c].pc = pc

\* The other requests that are writing the steps of the same pipeline.
Writers(c) == {d \in Clients \ {c} : req[d].id = req[c].id /\ req[d].pc = "insert"}

\* DeletePipeline: steps and runs go along (ON DELETE CASCADE).
DeletePipeline(p) ==
    /\ pipe' = [pipe EXCEPT ![p] = None]
    /\ steps' = [steps EXCEPT ![p] = {}]
    /\ runs' = [runs EXCEPT ![p] = 0]

\* UpdatePipeline writes every column; no row is an error, and so is a
\* schedule that is not JSON, which no cron expression is.
UpdateAccepted(p, row) == pipe[p] # None /\ row.schedule = None

UpdatePipeline(p, row) == pipe' = [pipe EXCEPT ![p] = row]

\* CreatePipelineSteps: the next row, refused when the pipeline is gone, when
\* its order is taken, or for what it holds.
StepAccepted(p, i, step) ==
    pipe[p] # None /\ step # Refused /\ \A r \in steps[p] : r.order # i

-----------------------------------------------------------------------------
(* HandleCreatePipeline.                                                   *)

CreatePipeline(p, h) ==
    /\ p \notin used
    /\ used' = used \cup {p}
    /\ pipe' = [pipe EXCEPT ![p] = [head |-> h, schedule |-> None]]

\* A request that passes validation inserts the row, then step after step.
HandleCreatePipeline(c, p, h, l) ==
    /\ At(c, "idle")
    /\ CreatePipeline(p, h)
    /\ req' = [req EXCEPT ![c] = [Idle EXCEPT !.op = "create", !.pc = "insert", !.id = p, !.list = l]]
    /\ UNCHANGED <<steps, runs, last, torn>>

\* Faulty: a step the table refuses is skipped.
InsertStepSkips(c) ==
    /\ At(c, "insert")
    /\ LET p == req[c].id
           i == req[c].next
       IN /\ steps' = IF StepAccepted(p, i, req[c].list[i])
                      THEN [steps EXCEPT ![p] = @ \cup {[order |-> i, step |-> req[c].list[i]]}] ELSE steps
          /\ IF i < Len(req[c].list)
             THEN req' = [req EXCEPT ![c].next = i + 1] /\ UNCHANGED <<last, torn>>
             ELSE /\ Answer(c)
                  /\ last' = [last EXCEPT ![p] = req[c].list]
                  /\ torn' = IF req[c].alone THEN torn \ {p} ELSE torn \cup {p}
    /\ UNCHANGED <<pipe, runs, used>>

\* One step of create or update is inserted; after the last one the pipeline
\* is read again and the request answered.
InsertStep(c) ==
    /\ At(c, "insert")
    /\ LET p == req[c].id
           i == req[c].next
       IN IF StepAccepted(p, i, req[c].list[i])
          THEN /\ steps' = [steps EXCEPT ![p] = @ \cup {[order |-> i, step |-> req[c].list[i]]}]
               /\ IF i < Len(req[c].list)
                  THEN req' = [req EXCEPT ![c].next = i + 1] /\ UNCHANGED <<last, torn>>
                  ELSE /\ Answer(c)
                       /\ last' = [last EXCEPT ![p] = req[c].list]
                       /\ torn' = IF req[c].alone THEN torn \ {p} ELSE torn \cup {p}
          ELSE /\ IF req[c].op = "create" THEN Goto(c, "undo") ELSE Answer(c)
               /\ torn' = IF pipe[p] = None THEN torn ELSE torn \cup {p}
               /\ UNCHANGED <<steps, last>>
    /\ UNCHANGED <<pipe, runs, used>>

\* "Rollback: delete the pipeline".
UndoCreate(c) ==
    /\ At(c, "undo")
    /\ DeletePipeline(req[c].id)
    /\ torn' = torn \ {req[c].id}
    /\ Answer(c)
    /\ UNCHANGED <<used, last>>

-----------------------------------------------------------------------------
(* The handlers that start by reading the pipeline.                        *)

\* GetPipeline, for update, run, delete and the two schedule handlers: 404
\* when there is none, else its row is kept.
GetPipeline(c, op, p, h, l) ==
    /\ At(c, "idle")
    /\ pipe[p] # None
    /\ req' = [req EXCEPT ![c] = [Idle EXCEPT !.op = op, !.pc = op, !.id = p,
                                     !.row = pipe[p], !.head = h, !.list = l]]
    /\ UNCHANGED <<pipe, steps, runs, used, last, torn>>

\* HandleUpdatePipeline writes the row it read with the fields of the body ...
UpdateRow(c) ==
    /\ At(c, "update")
    /\ LET row == [req[c].row EXCEPT !.head = IF req[c].head = None THEN @ ELSE req[c].head] IN
       IF UpdateAccepted(req[c].id, row)
       THEN /\ UpdatePipeline(req[c].id, row)
            /\ IF req[c].list = <<>> THEN Answer(c) ELSE Goto(c, "clear")
       ELSE Answer(c) /\ UNCHANGED pipe
    /\ UNCHANGED <<steps, runs, used, last, torn>>

\* ... and, when the body has steps, deletes the old ones before the inserts.
DeletePipelineSteps(c) ==
    /\ At(c, "clear")
    /\ steps' = [steps EXCEPT ![req[c].id] = {}]
    /\ req' = [d \in Clients |->
                 IF d = c THEN [req[c] EXCEPT !.pc = "insert", !.alone = Writers(c) = {}]
                 ELSE IF d \in Writers(c) THEN [req[d] EXCEPT !.alone = FALSE] ELSE req[d]]
    /\ UNCHANGED <<pipe, runs, used, last, torn>>

HandleDeletePipeline(c) ==
    /\ At(c, "delete")
    /\ DeletePipeline(req[c].id)
    /\ torn' = torn \ {req[c].id}
    /\ Answer(c)
    /\ UNCHANGED <<used, last>>

\* A pending run is inserted for a pipeline that still exists.  The executor of
\* this build refuses to run it, so the row stays pending.
HandleRunPipeline(c) ==
    /\ At(c, "run")
    /\ IF pipe[req[c].id] = None
       THEN UNCHANGED runs
       ELSE runs[req[c].id] < MaxRuns /\ runs' = [runs EXCEPT ![req[c].id] = @ + 1]
    /\ Answer(c)
    /\ UNCHANGED <<pipe, steps, used, last, torn>>

\* The schedule handlers write the row they read with another schedule.
WriteSchedule(c, x) ==
    /\ LET row == [req[c].row EXCEPT !.schedule = x] IN
       IF UpdateAccepted(req[c].id, row) THEN UpdatePipeline(req[c].id, row) ELSE UNCHANGED pipe
    /\ Answer(c)
    /\ UNCHANGED <<steps, runs, used, last, torn>>

HandleSetPipelineSchedule(c) == At(c, "schedule") /\ WriteSchedule(c, "cron")

HandleDeletePipelineSchedule(c) == At(c, "unschedule") /\ WriteSchedule(c, None)

\* The client goes away: the context is cancelled and the statement at hand
\* fails, the deletion that would undo a creation included.
ClientGone(c) ==
    /\ ~At(c, "idle")
    /\ Answer(c)
    /\ torn' = IF req[c].pc \in {"insert", "undo"} /\ pipe[req[c].id] # None
               THEN torn \cup {req[c].id} ELSE torn
    /\ UNCHANGED <<pipe, steps, runs, used, last>>

-----------------------------------------------------------------------------
Next ==
    \/ \E c \in Clients, p \in Ids, h \in Heads, l \in Lists : HandleCreatePipeline(c, p, h, l)
    \/ \E c \in Clients, p \in Ids :
          \/ \E h \in Heads \cup {None}, l \in Lists \cup {<<>>} : GetPipeline(c, "update", p, h, l)
          \/ \E op \in {"delete", "run", "schedule", "unschedule"} : GetPipeline(c, op, p, None, <<>>)
    \/ \E c \in Clients :
          \/ InsertStep(c) \/ UndoCreate(c) \/ UpdateRow(c) \/ DeletePipelineSteps(c)
          \/ HandleDeletePipeline(c) \/ HandleRunPipeline(c) \/ HandleSetPipelineSchedule(c)
          \/ HandleDeletePipelineSchedule(c) \/ ClientGone(c)

Spec == Init /\ [][Next]_vars

-----------------------------------------------------------------------------
Rows(l) == {[order |-> i, step |-> l[i]] : i \in DOMAIN l}

\* When no request is writing the steps of a pipeline, they are exactly those
\* of the last request that stored its steps to the end, unless two requests
\* wrote them at the same time or one stopped in the middle; and one update
\* that then runs alone makes them whole again.
StepsAreOneRequest ==
    \A p \in Ids :
        (/\ pipe[p] # None /\ p \notin torn
         /\ \A c \in Clients : req[c].id = p => req[c].pc \notin {"insert", "undo"})
        => steps[p] = Rows(last[p])
=============================================================================
