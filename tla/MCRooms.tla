-------------------------------- MODULE MCRooms --------------------------------
(***************************************************************************)
(* Small instances, for TLC, of a room on the server and of the views of   *)
(* one page that read the server's data, the list of rooms among them.     *)
(* The two share no state; in each behaviour one of them, the subject, is  *)
(* at work.                                                                *)
(***************************************************************************)
EXTENDS Rooms, BrowserReads

VARIABLE subject

MCInit ==
    /\ subject \in {"room", "reads"}
    /\ RoomInit /\ (subject # "room" => room.kind = "open")
    /\ ReadsInit /\ (subject # "reads" => client = "feed")

RoomStep == subject = "room" /\ RoomNext /\ UNCHANGED <<readVars, subject>>
ReadStep == subject = "reads" /\ ReadsNext /\ UNCHANGED <<roomVars, subject>>

MCNext == RoomStep \/ ReadStep

FairRooms == MCInit /\ [][MCNext]_<<roomVars, readVars, subject>> /\ RoomFairness
==============================================================================
