------------------------------- MODULE BkvFile -------------------------------
(***************************************************************************)
(* The life of a document in a file: a client makes it through a handle    *)
(* that maps the file (bkv_create, BkvWriter), may insert into it          *)
(* (BkvInsert), destroys the handle, and opens the file again, to read it  *)
(* or to insert.  The mapping of a file that is opened to be written is    *)
(* shared, that of one opened to be updated is private (bkv_file.c:27, 67).*)
(* One handle at a time; the process may end where bkv_destroy stands,     *)
(* which leaves the same file.                                             *)
(***************************************************************************)
EXTENDS BkvInsert

CONSTANT MaxOpens   \* bound: how often the file is opened again

ASSUME FileAssumption ==
  /\ MaxOpens \in Nat
  /\ ~AllocMayFail       \* the file system has room, maps succeed

VARIABLES
  mode,   \* the create_type of the handle: "ram", "write", "update", "readonly"
  file,   \* what the file holds: its size, its tokens, the bytes lost
  made,   \* history: the document that writing handles left in the file,
          \* whether they closed it, and what clients mean it to be
  opens

fvars == <<mode, file, made, opens>>

NoFile == [size |-> -1, buf |-> [o \in {} |-> 0], lost |-> {}]

(* A shared mapping is the file, and the file is as long as the mapping.   *)
Mirror == [size |-> mem_size, buf |-> buf, lost |-> lost]
Written_Private ==     \* mutant: an updating handle's length is not the file's
  file' = IF mode = "write" THEN Mirror' ELSE file
Written ==
  file' = CASE mode = "ram"    -> file
            [] mode = "write"  -> Mirror'
            [] mode = "update" -> [file EXCEPT !.size = mem_size']

(* A call that grows an updating handle maps the file anew, shared: what   *)
(* was written so far is gone.  Such calls are beyond the bound.           *)
Client ==
  /\ mode # "readonly" /\ InsertNext
  /\ mode = "update" /\ spliced' = spliced => mem_size' = mem_size
  /\ Written
  /\ UNCHANGED <<mode, made, opens>>

Finished == (state = "STATE_TERM" \/ spliced > 0) /\ ~failed

(* bkv_destroy: the handle of a file is unmapped and closed, not freed.    *)
Destroy ==
  /\ live /\ live' = FALSE
  /\ made' = CASE mode = "write"  -> [text |-> Text, closed |-> Finished, meant |-> Text,
                                      inserting |-> bkv_is_inertion_mode_active]
               [] mode = "update" -> [made EXCEPT !.meant = IF Finished THEN Text ELSE @]
               [] OTHER           -> made
  /\ ret' = "0"
  /\ UNCHANGED <<fixed, nest, array_nb_elems, mem, val, end_hdl, spliced, failed, text>>
  /\ UNCHANGED <<mode, file, opens>>

(* What a mapping of the file shows.                                       *)
Held == {o \in DOMAIN file.buf : o + file.buf[o].size <= file.size}

(* bkv_create for updating or reading.  The handle counts as closed,       *)
(* whatever the file holds, and its write_offset is 0.  The client updates *)
(* finished documents only.                                                *)
OpenAgain(m) ==
  /\ ~live /\ file # NoFile /\ opens < MaxOpens
  /\ m = "update" => made.closed
  /\ opens' = opens + 1
  /\ \/ /\ file.size = 0               \* mmap refuses an empty file
        /\ ret' = IF m = "update" THEN "0" ELSE "BKV_INV_ARG"
        /\ UNCHANGED <<fixed, nest, array_nb_elems, mem, ivars, mode>>
     \/ /\ file.size > 0
        /\ mode' = m /\ live' = TRUE
        /\ state' = "STATE_TERM" /\ deep_offset' = -1
        /\ deep_value' = [d \in Depths |-> "0"]
        /\ map_offset' = [d \in Depths |-> 0]
        /\ array_nb_elems' = [d \in Depths |-> 0]
        /\ mem_size' = file.size /\ write_offset' = 0
        /\ buf' = [o \in Held |-> file.buf[o]] /\ lost' = file.lost
        /\ short' = FALSE
        /\ val' = NoVal /\ end_hdl' = BKV_INVALID /\ spliced' = 0
        /\ failed' = ~made.closed
        /\ text' = [before |-> <<>>, added |-> made.text, after |-> <<>>]
        /\ ret' = "BKV_OK"
        /\ UNCHANGED fixed
  /\ UNCHANGED <<file, made>>

FileInit ==
  /\ InsertInit
  /\ mode = IF backing = "ram" THEN "ram" ELSE "write"
  /\ file = IF backing = "ram" THEN NoFile ELSE Mirror
  /\ made = [text |-> <<>>, closed |-> FALSE, meant |-> <<>>, inserting |-> FALSE]
  /\ opens = 0

FileNext ==
  \/ Client
  \/ Destroy
  \/ \E m \in {"update", "readonly"} : OpenAgain(m)

FileSpec == FileInit /\ [][FileNext]_<<vars, ivars, fvars>>

(***************************************************************************)
(* Properties.                                                             *)
(***************************************************************************)
FileTypeOK ==
  /\ InsertTypeOK
  /\ mode \in {"ram", "write", "update", "readonly"}
  /\ file.size \in -1 .. PageSize
  /\ mode \in {"write", "update"} /\ live => file.size = mem_size
  /\ made.closed \in BOOLEAN /\ opens \in 0..MaxOpens

Reopened == live /\ opens > 0 /\ mode = "readonly"

(* A writer that stops, or whose process ends, between any two calls       *)
(* leaves a file in which every closed container leads past its close and  *)
(* every other one has length 0, the mark by which the reader knows it     *)
(* (bkv_val.c:93-97), unless an insertion was under way.                   *)
UnclosedShows ==
  Reopened /\ ~made.inserting =>
    \A o \in Containers :
      \/ buf[o].len = 0
      \/ \E c \in DOMAIN file.buf : /\ file.buf[c].type = CloserOf(buf[o].type)
                                    /\ c + file.buf[c].size = o + buf[o].len

(* bkv.h "Synchonizes the data created in the bkv handle to a file (in     *)
(* case it is open with Read-Write file access)": what is inserted through *)
(* a handle that was opened to update a file is in the file.               *)
UpdatePersists == Reopened /\ made.closed => Visited(FALSE) = made.meant
==============================================================================
