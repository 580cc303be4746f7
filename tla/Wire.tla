-------------------------------- MODULE Wire --------------------------------
(***************************************************************************)
(* The messages DedupClient and ClientConn exchange (include/define.h) and *)
(* the framed transport that carries them (include/Util.h).                *)
(*                                                                         *)
(* A session is one TCP connection, made by one run of the client program. *)
(* TCP is reliable and ordered and send_data/receive_data loop until the   *)
(* whole frame has passed, so each direction is a FIFO of whole messages.  *)
(*                                                                         *)
(* A chunk and its fingerprint are the same value: SHA-256 (OpenSSL) is    *)
(* taken to be injective.                                                  *)
(***************************************************************************)
EXTENDS Naturals, Sequences

CONSTANTS
  Sessions,   (* the connections                                           *)
  Chunks,     (* chunk contents                                            *)
  Junk,       (* bytes nobody has written: not the contents of any chunk   *)
  Chars,      (* characters of client ids and file names                   *)
  Jobs,       (* the command lines: [op, id, name, file]                   *)
  Tails,      (* what std::string may find behind an unterminated name     *)
  BatchSize   (* BATCHSIZE: hashes in one query                            *)

(***************************************************************************)
(* The decimal digits of an int client id and a file name are sequences of *)
(* characters.  "u" uploads, "d" downloads, "x" stands for any other       *)
(* operation letter.                                                       *)
(***************************************************************************)
Job == [op : {"u", "d", "x"}, id : Seq(Chars), name : Seq(Chars), file : Seq(Chunks)]

ASSUME JobsAssumption == Jobs \subseteq Job
ASSUME TailsAssumption == Tails \subseteq Seq(Chars) /\ << >> \in Tails
ASSUME BatchSizeAssumption == BatchSize \in Nat \ {0}
ASSUME JunkAssumption == Junk \notin Chunks

VARIABLES
  job,        (* the command line of each session, fixed                   *)
  toServer,   (* toServer[s]: bytes on their way to ClientConn             *)
  toClient    (* toClient[s]: bytes on their way to DedupClient            *)

wire == <<toServer, toClient>>

(* What one chunk-sized part of a buffer or a file can hold.               *)
Bytes == Chunks \cup {Junk}

----------------------------------------------------------------------------
(***************************************************************************)
(* Messages.  The data of an upload body is aligned with the batch that    *)
(* was queried before: data[i] is the i-th chunk of that batch if the      *)
(* server asked for it; otherwise nothing was sent for it (Junk).          *)
(***************************************************************************)
Login(id)        == [type |-> "LOGIN", id |-> id]
Order(order, n)  == [type |-> order, name |-> n]
Rep(order, st)   == [type |-> order, status |-> st]
Body(query, d)   == [type |-> "UPLOADBODY", query |-> query, data |-> d]
BodyRep(flags)   == [type |-> "UPLOADBODYREP", flags |-> flags]
DownBody(d)      == [type |-> "DOWNLOADBODY", data |-> d]
FileEnd          == [type |-> "FILEEND"]
Quit             == [type |-> "QUIT"]
QuitRep          == [type |-> "QUITREP"]

ServerMsg ==
       [type : {"LOGIN"}, id : Seq(Chars)]
  \cup [type : {"UPLOAD", "DOWNLOAD"}, name : Seq(Chars)]
  \cup [type : {"UPLOADBODY"}, query : Seq(Chunks), data : Seq(Bytes)]
  \cup [type : {"FILEEND", "QUIT"}]

ClientMsg ==
       [type : {"UPLOADREP", "DOWNLOADREP"},
        status : {"DUPLICATE", "UNIQUE", "EXIST", "NOTEXIST"}]
  \cup [type : {"UPLOADBODYREP"}, flags : Seq({0, 1})]
  \cup [type : {"DOWNLOADBODY"}, data : Seq(Bytes)]
  \cup [type : {"FILEEND", "QUITREP"}]

----------------------------------------------------------------------------
(* send_data / send_control_message: the messages ms join one direction.   *)
send_data(chan, s, ms) == [chan EXCEPT ![s] = @ \o ms]

(* receive_data / receive_control_msg: the oldest message leaves it.       *)
receive_data(chan, s) == [chan EXCEPT ![s] = Tail(@)]

(* A message of type t is the next one to be read in direction chan.       *)
Arrived(chan, s, t) == chan[s] # << >> /\ Head(chan[s]).type = t

(***************************************************************************)
(* The name receive_control_msg builds.  The sender copies fileName.size() *)
(* bytes into a frame of size()+1 and never writes the last one, so the    *)
(* receiver's std::string runs on until it meets a zero byte: the name is  *)
(* followed by one of Tails (<< >> if the byte happened to be zero).       *)
(***************************************************************************)
ReceivedNames(n) == {n \o t : t \in Tails}
=============================================================================
