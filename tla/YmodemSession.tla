--------------------------- MODULE YmodemSession ---------------------------
(***************************************************************************)
(* The bootloader with a sender that keeps to the protocol of the comment  *)
(* Y_Loader.c:61-86, on a line that loses or garbles a packet now and      *)
(* then.  The sender repeats what was not acknowledged and uses a short    *)
(* packet only for the end of the file.                                    *)
(*                                                                         *)
(* An acknowledgement may get lost where the loader can bear it: for the   *)
(* last packet of the file, and for EOT.                                   *)
(***************************************************************************)
EXTENDS Bootloader

CONSTANT MaxLosses      \* packets and answers lost or garbled

\* A packet number is a byte: the next one differs.
ASSUME SessionAssumption == SeqMod > 1 /\ MaxLosses \in Nat

VARIABLES
  sender,       \* what the sender is at, and how far it is in the file
  file,         \* the file it sends
  fresh,        \* the sender has not read the last answer
  losses

svars == <<vars, sender, file, fresh, losses>>

SessionInit ==
  /\ Init /\ file \in Files /\ fresh = FALSE /\ losses = 0
  /\ sender = [at |-> "start", sent |-> 0, seq |-> 0, waiting |-> TRUE]

-----------------------------------------------------------------------------

\* The programmer asks for a session in time.
Loader ==
  /\ Program /\ ~(pc = "boot" /\ pc' = "check")
  /\ fresh' = (fresh \/ pc' \in {"wait", "check"})
  /\ UNCHANGED <<sender, file, losses>>

FileSize == FileLen(file.img)

Unsent == FileSize - sender.sent
PacketLen == IF Unsent <= SmallLen THEN SmallLen ELSE BigLen

Packet ==
  [seq |-> sender.seq, empty |-> sender.at = "end", damaged |-> FALSE,
   size |-> FileSize, odd |-> FALSE, file |-> file,
   units |-> [k \in 1 .. PacketLen |->
                FileUnit(file.img, sender.sent + k, file.enc)]]

Sends ==
  /\ sender.at \in {"first", "data", "eot", "end"} /\ ~sender.waiting
  /\ pc = "wait"
  /\ sender' = [sender EXCEPT !.waiting = TRUE] /\ UNCHANGED file

Deliver ==
  /\ Sends
  /\ IF sender.at = "eot" THEN Rcv_EOT ELSE Rcv_packet(Packet)
  /\ fresh' = (pc' # "pack") /\ UNCHANGED losses

Lose ==
  /\ Sends /\ losses < MaxLosses /\ losses' = losses + 1
  /\ fresh' = FALSE /\ UNCHANGED vars

Garble ==
  /\ Sends /\ losses < MaxLosses /\ losses' = losses + 1
  /\ Rcv_error /\ fresh' = TRUE

\* The loader waits for five seconds and asks again.
Silence ==
  /\ sender.waiting /\ ~fresh /\ Rcv_timeout
  /\ fresh' = TRUE /\ UNCHANGED <<sender, file, losses>>

LoseAnswer ==
  /\ fresh /\ (ram.file_done \/ sender.at = "eot")
  /\ losses < MaxLosses /\ losses' = losses + 1
  /\ fresh' = FALSE /\ UNCHANGED <<vars, sender, file>>

-----------------------------------------------------------------------------

Go(at) == sender' = [sender EXCEPT !.at = at, !.waiting = FALSE]

Again == sender' = [sender EXCEPT !.waiting = FALSE]

Acked ==
  LET sent == sender.sent + PacketLen
  IN  sender' = [sender EXCEPT !.waiting = FALSE,
                   !.seq = (@ + 1) % SeqMod, !.sent = sent,
                   !.at = IF sent >= FileSize THEN "eot" ELSE "data"]

\* The sender reads an answer.
ReadAnswer ==
  /\ sender.waiting /\ fresh /\ pc \in {"wait", "check", "app"}
  /\ fresh' = FALSE /\ UNCHANGED <<vars, file, losses>>
  /\ CASE sender.at = "start" /\ reply = <<"C">> -> Go("first")
       [] sender.at = "first" /\ reply = <<"ACK", "C">> ->
            sender' = [sender EXCEPT !.at = "data", !.seq = 1, !.waiting = FALSE]
       [] sender.at = "data" /\ reply = <<"ACK">> -> Acked
       [] sender.at = "eot" /\ reply = <<"ACK", "C">> ->
            sender' = [sender EXCEPT !.at = "end", !.seq = 0, !.waiting = FALSE]
       [] sender.at = "end" /\ reply = <<"CA", "CA">> -> Go("done")
       [] sender.at # "end" /\ reply = <<"CA", "CA">> -> Go("failed")
       [] OTHER -> Again

-----------------------------------------------------------------------------

SessionNext ==
  Loader \/ Deliver \/ Lose \/ Garble \/ Silence \/ LoseAnswer \/ ReadAnswer

SessionSpec ==
  /\ SessionInit /\ [][SessionNext]_svars
  /\ WF_svars(Loader) /\ WF_svars(Deliver) /\ WF_svars(Silence)
  /\ WF_svars(ReadAnswer)

\* A sender that was told the transfer succeeded, EOT acknowledged after all
\* data were (Y_Loader.c:114-125), has its image complete in flash.
SuccessIsStored ==
  sender.at \in {"end", "done"} => Stored(flash) = file.img

\* The transfer ends with the new image running, whatever was in flash, and
\* however the packets and answers that can be repeated are lost.
TransferCompletes == <>[](pc = "app" /\ Stored(flash) = file.img)

=============================================================================
