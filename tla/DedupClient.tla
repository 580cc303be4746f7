----------------------------- MODULE DedupClient -----------------------------
(***************************************************************************)
(* The client program: DedupClient::run, upload_file and download_file.    *)
(* The reader thread (read_data) hands upload_file the batches of the file *)
(* in order through a BlockQueue and then marks it done; upload_file's pop *)
(* therefore returns the next batch, or nothing at the end of the file.    *)
(***************************************************************************)
EXTENDS Wire

VARIABLES
  cpc,     (* where each client stands                                     *)
  sent,    (* totalChunkNum: chunks whose hashes have been sent            *)
  batch,   (* readBuffer: the batch whose hashes were sent last            *)
  got      (* the contents written to the local file of a download         *)

clientVars == <<cpc, sent, batch, got>>

ClientPC == {"start", "upload_rep", "body_rep", "download_rep", "download",
             "quit_rep", "closed"}

ClientTypeOK ==
  /\ cpc \in [Sessions -> ClientPC]
  /\ sent \in [Sessions -> Nat]
  /\ batch \in [Sessions -> Seq(Chunks)]
  /\ got \in [Sessions -> Seq(Bytes)]

ClientInit ==
  /\ cpc = [s \in Sessions |-> "start"]
  /\ sent = [s \in Sessions |-> 0]
  /\ batch = [s \in Sessions |-> << >>]
  /\ got = [s \in Sessions |-> << >>]

----------------------------------------------------------------------------
Least(a, b) == IF a <= b THEN a ELSE b

(* Fault: a last batch that is not full is dropped.                        *)
NextBatchFull(s) ==
  IF sent[s] + BatchSize > Len(job[s].file) THEN << >>
  ELSE SubSeq(job[s].file, sent[s] + 1, sent[s] + BatchSize)

(* m_readBufferQueue->pop: the next BatchSize chunks, << >> at the end.    *)
NextBatch(s) ==
  SubSeq(job[s].file, sent[s] + 1, Least(sent[s] + BatchSize, Len(job[s].file)))

(* connect_server, the login message and the order of main's operation.    *)
(* download_file has created (or emptied) its local file by then.          *)
Connect(s) ==
  /\ cpc[s] = "start"
  /\ LET j == job[s]
         order == CASE j.op = "u" -> Order("UPLOAD", j.name)
                    [] j.op = "d" -> Order("DOWNLOAD", j.name)
                    [] j.op = "x" -> Quit
     IN toServer' = send_data(toServer, s, <<Login(j.id), order>>)
  /\ cpc' = [cpc EXCEPT ![s] = CASE job[s].op = "u" -> "upload_rep"
                                 [] job[s].op = "d" -> "download_rep"
                                 [] job[s].op = "x" -> "quit_rep"]
  /\ UNCHANGED <<toClient, sent, batch, got>>

(* run's last part: send QUIT once the operation is over.                  *)
SendQuit(s) ==
  /\ toServer' = send_data(toServer, s, <<Quit>>)
  /\ toClient' = receive_data(toClient, s)
  /\ cpc' = [cpc EXCEPT ![s] = "quit_rep"]

(* upload_file returns at once when the file is a duplicate.               *)
UploadDuplicate(s) ==
  /\ cpc[s] = "upload_rep"
  /\ Arrived(toClient, s, "UPLOADREP")
  /\ Head(toClient[s]).status = "DUPLICATE"
  /\ SendQuit(s)
  /\ UNCHANGED <<sent, batch, got>>

(* Fault: every unique chunk is copied from the start of the batch.        *)
UniqueChunksFirst(s, flags) ==
  [i \in 1 .. Len(batch[s]) |-> IF flags[i] = 1 THEN batch[s][1] ELSE Junk]

(* The chunks of the last batch that the reply marks 1 are sent.           *)
UniqueChunks(s, flags) ==
  [i \in 1 .. Len(batch[s]) |-> IF flags[i] = 1 THEN batch[s][i] ELSE Junk]

(* One turn of upload_file's loop: data of the last batch, hashes of the   *)
(* next.  After an empty batch the loop ends: FILEEND and QUIT follow.     *)
SendBody(s, data) ==
  LET b == NextBatch(s)
      body == Body(b, data)
  IN /\ toServer' = send_data(toServer, s,
                      IF b = << >> THEN <<body, FileEnd, Quit>> ELSE <<body>>)
     /\ toClient' = receive_data(toClient, s)
     /\ batch' = [batch EXCEPT ![s] = b]
     /\ sent' = [sent EXCEPT ![s] = @ + Len(b)]
     /\ cpc' = [cpc EXCEPT ![s] = IF b = << >> THEN "quit_rep" ELSE "body_rep"]
     /\ UNCHANGED got

UploadUnique(s) ==
  /\ cpc[s] = "upload_rep"
  /\ Arrived(toClient, s, "UPLOADREP")
  /\ Head(toClient[s]).status # "DUPLICATE"
  /\ SendBody(s, << >>)

UploadBatch(s) ==
  /\ cpc[s] = "body_rep"
  /\ Arrived(toClient, s, "UPLOADBODYREP")
  /\ SendBody(s, UniqueChunks(s, Head(toClient[s]).flags))

DownloadRefused(s) ==
  /\ cpc[s] = "download_rep"
  /\ Arrived(toClient, s, "DOWNLOADREP")
  /\ Head(toClient[s]).status = "NOTEXIST"
  /\ SendQuit(s)
  /\ UNCHANGED <<sent, batch, got>>

DownloadGranted(s) ==
  /\ cpc[s] = "download_rep"
  /\ Arrived(toClient, s, "DOWNLOADREP")
  /\ Head(toClient[s]).status # "NOTEXIST"
  /\ toClient' = receive_data(toClient, s)
  /\ cpc' = [cpc EXCEPT ![s] = "download"]
  /\ UNCHANGED <<toServer, sent, batch, got>>

DownloadBody(s) ==
  /\ cpc[s] = "download"
  /\ Arrived(toClient, s, "DOWNLOADBODY")
  /\ got' = [got EXCEPT ![s] = @ \o Head(toClient[s]).data]
  /\ toClient' = receive_data(toClient, s)
  /\ UNCHANGED <<toServer, cpc, sent, batch>>

DownloadEnd(s) ==
  /\ cpc[s] = "download"
  /\ Arrived(toClient, s, "FILEEND")
  /\ SendQuit(s)
  /\ UNCHANGED <<sent, batch, got>>

(* QUITREP: close the socket.                                              *)
Close(s) ==
  /\ cpc[s] = "quit_rep"
  /\ Arrived(toClient, s, "QUITREP")
  /\ toClient' = receive_data(toClient, s)
  /\ cpc' = [cpc EXCEPT ![s] = "closed"]
  /\ UNCHANGED <<toServer, sent, batch, got>>

ClientStep(s) ==
  \/ UploadDuplicate(s) \/ UploadUnique(s) \/ UploadBatch(s)
  \/ DownloadRefused(s) \/ DownloadGranted(s) \/ DownloadBody(s) \/ DownloadEnd(s)
  \/ Close(s)
=============================================================================
