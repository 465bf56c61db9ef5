-------------------------------- MODULE MCJobs -------------------------------
(* Instances for TLC of the jobs that run for a client after it has gone:     *)
(* those of the web server (JobManager) and those of the lab (LabJobs), both  *)
(* extended, so that their properties are the run's, and the submissions to a *)
(* pool of devices, which make lab jobs one by one (LabPools).  They share no *)
(* variable, so one run explores one after the other: `part` is chosen at the *)
(* start.                                                                     *)
EXTENDS JobManager, LabJobs

CONSTANTS Members, Submissions, MaxChanges

VARIABLES part, pool, permits, trail, poolJobs, poolCall, poolChanges

P == INSTANCE LabPools WITH jobs <- poolJobs, call <- poolCall, changes <- poolChanges

ASSUME LabAssumption == LabJobsAssumption /\ P!PoolsAssumption

pools == <<pool, permits, trail, poolJobs, poolCall, poolChanges>>
all   == <<part, vars, labVars, pools>>

MCInit == part \in {"web", "lab", "pools"} /\ Init /\ LabInit /\ P!Init

\* A step of one part leaves the others alone.
InWeb(A)   == part = "web" /\ A /\ UNCHANGED <<part, labVars, pools>>
InLab(A)   == part = "lab" /\ A /\ UNCHANGED <<part, vars, pools>>
InPools(A) == part = "pools" /\ A /\ UNCHANGED <<part, vars, labVars>>
MCNext == InWeb(Next) \/ InLab(LabNext) \/ InPools(P!Next)

\* The fairness of JobManager and LabJobs; no liveness is stated of the pools.
MCSpec ==
    /\ MCInit /\ [][MCNext]_all
    /\ \A j \in Jobs : WF_all(InWeb(Runner(j)))
    /\ \A c \in Clients : WF_all(InWeb(Serve(c)))
    /\ \A a \in Agents : SF_all(InLab(Handle(a))) /\ WF_all(InLab(Agent(a)))

\* The property of LabPools, stated there, with the types it rests on.
JobsAccountedFor == P!TypeOK /\ P!JobsAccountedFor
=============================================================================
