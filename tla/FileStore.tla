----------------------------- MODULE FileStore -----------------------------
(***************************************************************************)
(* What a client may expect of the server: a store of named byte strings.  *)
(* An upload takes effect at once and for good; a download delivers the    *)
(* bytes that were uploaded under the name.                                *)
(***************************************************************************)
EXTENDS Naturals, Sequences

CONSTANTS Names, Files, NoFile

VARIABLES
  request,     (* the upload that is under way: its name and bytes         *)
  contents,    (* name -> bytes, of the uploads that are over              *)
  delivered    (* what the present client has downloaded                   *)

storeVars == <<request, contents, delivered>>

StoreInit ==
  /\ request = NoFile
  /\ contents = [n \in {} |-> << >>]
  /\ delivered = NoFile

Begin ==
  /\ request = NoFile
  /\ request' \in [name : Names, data : Files]
  /\ request'.name \notin DOMAIN contents
  /\ UNCHANGED <<contents, delivered>>

Commit ==
  /\ request # NoFile /\ request' = NoFile
  /\ contents' = [n \in DOMAIN contents \cup {request.name} |->
                    IF n = request.name THEN request.data ELSE contents[n]]
  /\ UNCHANGED delivered

Deliver ==
  /\ delivered = NoFile /\ delivered' # NoFile
  /\ delivered'.name \in DOMAIN contents
  /\ delivered' = [name |-> delivered'.name, data |-> contents[delivered'.name]]
  /\ UNCHANGED <<request, contents>>

(* The client that downloaded ends.                                        *)
Leave ==
  /\ delivered # NoFile /\ delivered' = NoFile
  /\ UNCHANGED <<request, contents>>

StoreNext == Begin \/ Commit \/ Deliver \/ Leave

StoreSpec == StoreInit /\ [][StoreNext]_storeVars
=============================================================================
