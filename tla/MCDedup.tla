------------------------------- MODULE MCDedup -------------------------------
(***************************************************************************)
(* Instances of DedupSystem for TLC: the command lines of the sessions.    *)
(***************************************************************************)
EXTENDS DedupProperties

CONSTANTS s1, s2, s3, x, y

Upload(id, name, file) == [op |-> "u", id |-> id, name |-> name, file |-> file]
Download(id, name)     == [op |-> "d", id |-> id, name |-> name, file |-> << >>]
Other(id)              == [op |-> "x", id |-> id, name |-> << >>, file |-> << >>]

File1 == Upload(<<"1">>, <<"f">>, <<x, y>>)
File2 == Upload(<<"2">>, <<"f">>, <<y, x, x>>)
Short == Upload(<<"2">>, <<"f">>, <<y>>)
Empty == Upload(<<"2">>, <<"f">>, << >>)
Read1 == Download(<<"1">>, <<"f">>)
Read2 == Download(<<"2">>, <<"f">>)

(* Two clients upload files that share chunks.                             *)
UploadJobs == {File1, File2}

(* Two clients upload a same file.                                         *)
Same == Upload(<<"2">>, <<"f">>, <<x, y>>)
SameJobs == {File1, Same}
SameInit == Init /\ <<job[s1], job[s2]>> = <<File1, Same>>
SameSpec == SameInit /\ [][Next]_vars

(***************************************************************************)
(* Three sessions that are served in any order: files that share chunks    *)
(* and a download of either; one file twice and its download; an empty     *)
(* file, its download and another command.                                 *)
(***************************************************************************)
MixedJobs == {File1, File2, Short, Empty, Read1, Read2, Other(<<"2">>)}
SerialInit ==
  /\ Init
  /\ <<job[s1], job[s2], job[s3]>> \in
       {<<File1, File2, Read1>>, <<File1, File2, Read2>>, <<File1, File1, Read1>>,
        <<Empty, Read2, Other(<<"2">>)>>}
SerialSpec == SerialInit /\ [][Next]_vars /\ Fairness

(***************************************************************************)
(* Three sessions that are served at once: files that share chunks and a   *)
(* download of the first; larger files and another command; one file twice *)
(* and its download.  In the last two the third client comes when the      *)
(* first has ended.                                                        *)
(***************************************************************************)
ConcurrentInit ==
  /\ Init
  /\ <<job[s1], job[s2], job[s3]>> \in
       {<<File1, Short, Read1>>, <<File1, File2, Other(<<"2">>)>>,
        <<Short, Short, Read2>>}
ConcurrentNext ==
  /\ Next
  /\ job[s3] # Read1 /\ cpc'[s3] # "start" => cpc[s1] = "closed"
ConcurrentSpec == ConcurrentInit /\ [][ConcurrentNext]_vars

(***************************************************************************)
(* Different names only: a file xy, a file y that shares a chunk with it,  *)
(* and a download of the first, all served at once.                        *)
(***************************************************************************)
SharedInit == Init /\ <<job[s1], job[s2], job[s3]>> = <<File1, Short, Read1>>
SharedSpec == SharedInit /\ [][Next]_vars

(* Client 1 with a file "2f", client 12 with a file "f".                   *)
CollideJobs == {Upload(<<"1">>, <<"2", "f">>, <<x>>), Download(<<"1">>, <<"2", "f">>),
                Upload(<<"1", "2">>, <<"f">>, <<y>>)}

(* The byte behind an unterminated file name is zero.                      *)
NoTails == {<< >>}

Symmetry == Permutations(Sessions)
=============================================================================
