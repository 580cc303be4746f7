----------------------------- MODULE MCRecovery -----------------------------
(***************************************************************************)
(* Instances of Recovery for TLC.                                          *)
(***************************************************************************)
EXTENDS Recovery, MCDedup

CONSTANT z

Long == Upload(<<"1">>, <<"f">>, <<x, y, z>>)
Tip  == Upload(<<"2">>, <<"f">>, <<z>>)

RecoveryJobs == {File1, Short, Read1, Long, Tip}

(***************************************************************************)
(* Two uploads that share a chunk, and a download of the first when both   *)
(* have ended; one file uploaded twice; a file of two batches, together    *)
(* with its download or with an upload of its last chunk.  But for the     *)
(* first, the third client never comes.                                    *)
(***************************************************************************)
MCRecoveryInit ==
  /\ RecoveryInit
  /\ <<job[s1], job[s2], job[s3]>> \in
       {<<File1, Short, Read1>>, <<Short, Short, Read1>>,
        <<Long, Read1, Read1>>, <<Long, Tip, Read1>>}

OnlyTwo == job[s1] # File1
Through(s) == cpc[s] = "closed" \/ s \in gone

MCRecoveryNext ==
  \/ RecoveryNext /\ (OnlyTwo \/ ~(Through(s1) /\ Through(s2)) => cpc'[s3] = "start")
  \/ OnlyTwo /\ Through(s1) /\ Through(s2) /\ UNCHANGED allVars
MCRecoverySpec == MCRecoveryInit /\ [][MCRecoveryNext]_allVars
=============================================================================
