---------------------------- MODULE YmodemProofs ----------------------------
(***************************************************************************)
(* Proofs about YmodemSession: the sender that was told of success has its *)
(* image in flash, for any images, lengths and number of losses.  The      *)
(* argument is that what the loader counts and what the sender counts stay *)
(* in step: an acknowledgement either comes with the number and the rest   *)
(* of the file the sender goes on with, or the file is done.               *)
(***************************************************************************)
EXTENDS YmodemSession, BootloaderProofs

-----------------------------------------------------------------------------
(***************************************************************************)
(* Packet numbers.                                                         *)
(***************************************************************************)
LEMMA ModIs ==
  ASSUME NEW M \in Nat, M > 0, NEW q \in Int, NEW d \in 0 .. M - 1
  PROVE  (q * M + d) % M = d
BY Z3

LEMMA ModSucc ==
  ASSUME NEW M \in Nat, M > 1, NEW a \in Nat
  PROVE  /\ a % M \in 0 .. M - 1 /\ (a + 1) % M \in 0 .. M - 1
         /\ (a + 1) % M = ((a % M) + 1) % M
         /\ (a + 1) % M # a % M
<1> DEFINE q == a \div M
           d == a % M
<1>1. q \in Int /\ d \in 0 .. M - 1 /\ a = q * M + d
  BY Z3
<1> HIDE DEF q
<1>2. CASE d + 1 < M
  <2> HIDE DEF d
  <2>1. a + 1 = q * M + (d + 1) /\ d + 1 \in 0 .. M - 1
    BY <1>1, <1>2, Z3
  <2>2. (a + 1) % M = d + 1
    BY <1>1, <2>1, ModIs
  <2>3. (d + 1) % M = d + 1
    BY <1>1, <1>2, Z3
  <2> QED BY <1>1, <2>1, <2>2, <2>3 DEF d
<1>3. CASE d + 1 = M
  <2> HIDE DEF d
  <2>1. a + 1 = (q + 1) * M + 0 /\ q + 1 \in Int /\ 0 \in 0 .. M - 1
    BY <1>1, <1>3, Z3
  <2>2. (a + 1) % M = 0
    BY <2>1, ModIs
  <2>3. (d + 1) % M = 0
    BY <1>3, Z3
  <2> QED BY <1>1, <1>3, <2>2, <2>3 DEF d
<1> QED BY <1>1, <1>2, <1>3

-----------------------------------------------------------------------------
(***************************************************************************)
(* What the loader holds comes from one file, or is no image's.            *)
(***************************************************************************)
UnitsOf(i) == {u \in Unit : u.img \in {i, Blank}}

DataOf(r, i) ==
  /\ r.block \in [1 .. BlockLen -> UnitsOf(i)]
  /\ r.pack \in Seq(UnitsOf(i)) /\ r.boot_rec1 \in UnitsOf(i)

LEMMA BlankUnits ==
  ASSUME NEW i
  PROVE  Junk \in UnitsOf(i) /\ DataOf(Reset, i)
<1>1. Junk \in UnitsOf(i)
  BY Units DEF UnitsOf, Junk
<1>2. <<>> \in Seq(UnitsOf(i))
  OBVIOUS
<1> QED BY <1>1, <1>2 DEF DataOf, Reset

LEMMA RemainingOf ==
  ASSUME NEW r \in RamType, NEW i, DataOf(r, i)
  PROVE  /\ DataOf(Remaining(r), i)
         /\ Remaining(r).packets_cnt = 0 /\ Remaining(r).file_done = FALSE
<1>1. <<>> \in Seq(UnitsOf(i)) /\ Junk \in UnitsOf(i)
  BY BlankUnits
<1>2. Remaining(r) = [Reset EXCEPT !.block = r.block, !.boot_encrypted = r.boot_encrypted]
  BY DEF Remaining
<1> QED BY <1>1, <1>2 DEF DataOf, Reset

\* A chunk goes from the packet to the block: nothing is added or lost.
LEMMA CopiedOf ==
  ASSUME ram \in RamType, NEW i, DataOf(ram, i)
  PROVE  /\ DataOf(Copied, i)
         /\ Copied.file_remainder - Len(Copied.pack)
              = ram.file_remainder - Len(ram.pack)
         /\ ram.file_remainder = 0 => Copied.file_remainder = 0
<1> DEFINE c == Chunks(ram)
<1>1. /\ c \in Nat /\ c <= BlockLen - ram.indx_in_block
      /\ c <= Len(ram.pack) /\ c <= ram.file_remainder
  BY ChunkFits
<1>2. ram.pack \in Seq(UnitsOf(i)) /\ ram.block \in [1 .. BlockLen -> UnitsOf(i)]
      /\ ram.file_remainder \in Nat
  BY Lengths DEF DataOf, RamType
<1>3. [k \in 1 .. BlockLen |-> IF k <= c THEN ram.pack[k] ELSE ram.block[k]]
        \in [1 .. BlockLen -> UnitsOf(i)]
  <2>1. ASSUME NEW k \in 1 .. BlockLen, k <= c PROVE ram.pack[k] \in UnitsOf(i)
    <3>1. k \in 1 .. Len(ram.pack)
      BY <1>1, <1>2, <2>1
    <3> QED BY <1>2, <3>1
  <2> QED BY <1>2, <2>1
<1>4. /\ SubSeq(ram.pack, c + 1, Len(ram.pack)) \in Seq(UnitsOf(i))
      /\ Len(SubSeq(ram.pack, c + 1, Len(ram.pack))) = Len(ram.pack) - c
  BY <1>1, <1>2
<1>5. Copied = [ram EXCEPT
         !.chank_size = c,
         !.block = [k \in 1 .. BlockLen |->
                      IF k <= c THEN ram.pack[k] ELSE ram.block[k]],
         !.indx_in_block = @ + c,
         !.file_remainder = @ - c,
         !.pack = SubSeq(@, c + 1, Len(@))]
  BY DEF Copied, Chunks
<1>6. Len(ram.pack) \in Nat
  BY <1>2
<1> HIDE DEF c
<1>7. /\ Copied.file_remainder = ram.file_remainder - c
      /\ Copied.pack = SubSeq(ram.pack, c + 1, Len(ram.pack))
      /\ Copied.boot_rec1 = ram.boot_rec1
      /\ Copied.block = [k \in 1 .. BlockLen |->
                           IF k <= c THEN ram.pack[k] ELSE ram.block[k]]
  BY <1>5 DEF RamType
<1> QED BY <1>1, <1>2, <1>3, <1>4, <1>6, <1>7 DEF DataOf

\* Decryption takes units for what they are, or makes junk of them.
LEMMA DecryptedOf ==
  ASSUME NEW r \in RamType, NEW n \in 1 .. BlockLen, NEW i, DataOf(r, i)
  PROVE  DataOf(Decrypted(r, n), i) /\ Decrypted(r, n).pack = r.pack
<1> DEFINE b == [k \in 1 .. BlockLen |->
       IF k > n THEN r.block[k]
       ELSE LET u == r.block[k]
                before == IF k = 1 THEN r.chain ELSE r.block[k - 1]
                chained == IF u.n = 1 THEN AES_init_vector
                           ELSE [u EXCEPT !.n = @ - 1]
            IN  IF u.enc /\ before = chained THEN [u EXCEPT !.enc = FALSE]
                ELSE Junk]
<1>1. r.block \in [1 .. BlockLen -> UnitsOf(i)]
  BY DEF DataOf
<1>2. \A u \in UnitsOf(i) : [u EXCEPT !.enc = FALSE] \in UnitsOf(i)
  BY DEF Unit, UnitsOf
<1>3. b \in [1 .. BlockLen -> UnitsOf(i)]
  BY <1>1, <1>2, BlankUnits
<1>4. Decrypted(r, n) = [r EXCEPT !.block = b, !.chain = r.block[n]]
  BY DEF Decrypted
<1> HIDE DEF b
<1> QED BY <1>3, <1>4 DEF DataOf, RamType

LEMMA HeaderOf ==
  ASSUME NEW r \in RamType, NEW i, DataOf(r, i)
  PROVE  DataOf(Header(r), i) /\ Header(r).pack = r.pack
<1> DEFINE chained == [r EXCEPT !.chain = AES_init_vector]
           plain == HasMagic(r.block[BlockLen])
           open == IF plain THEN chained ELSE Decrypted(chained, BlockLen)
           found == [open EXCEPT !.boot_rec1 = open.block[BlockLen]]
<1>1. chained \in RamType /\ DataOf(chained, i) /\ chained.pack = r.pack
  BY Units DEF RamType, DataOf
<1>2. BlockLen \in 1 .. BlockLen
  BY Lengths
<1>3. open \in RamType /\ DataOf(open, i) /\ open.pack = r.pack
  <2> HIDE DEF chained, plain
  <2> QED BY <1>1, <1>2, DecryptedTyped, DecryptedOf
<1>4. found \in RamType /\ DataOf(found, i) /\ found.pack = r.pack
  <2>1. open.block[BlockLen] \in UnitsOf(i) /\ open.block[BlockLen] \in Unit
    BY <1>2, <1>3 DEF DataOf, UnitsOf
  <2> HIDE DEF open
  <2> QED BY <1>3, <2>1 DEF RamType, DataOf
<1>5. Header(r) = IF plain \/ ~HasMagic(found.boot_rec1) THEN found
                  ELSE [found EXCEPT !.boot_encrypted = TRUE]
  BY DEF Header
<1> HIDE DEF plain, found
<1> QED BY <1>4, <1>5 DEF RamType, DataOf

-----------------------------------------------------------------------------
(***************************************************************************)
(* The invariant: what sender and loader count, at each point of the       *)
(* protocol.                                                               *)
(***************************************************************************)
SessionTyped ==
  /\ sender \in [at : {"start", "first", "data", "eot", "end", "done", "failed"},
                 sent : Nat, seq : 0 .. SeqMod - 1, waiting : BOOLEAN]
  /\ file \in Files /\ fresh \in BOOLEAN

AtRest == pc \in {"wait", "check", "app"}

AtStart ==
  sender.at = "start" =>
    /\ pc \in {"boot", "wait"} /\ ram.packets_cnt = 0
    /\ DataOf(ram, file.img) /\ sender.seq = 0 /\ sender.sent = 0

AtFirst ==
  sender.at = "first" =>
    /\ AtRest /\ ram.packets_cnt \in {0, 1}
    /\ DataOf(ram, file.img) /\ sender.seq = 0 /\ sender.sent = 0
    /\ fresh /\ reply = <<"ACK", "C">>
         => ram.packets_cnt = 1 /\ ram.file_remainder = FileSize

\* The packet being dealt with is the one the sender waits for, and what is
\* left of it and of the file agree; or it repeats the end of the file.
InHand(r) ==
  /\ r.packets_cnt % SeqMod = sender.seq
  /\ \/ r.file_remainder = 0
     \/ r.file_remainder - Len(r.pack) = Unsent - PacketLen

\* If the sender's next packet is the one the loader expects, the loader
\* expects as much as the sender has left.
Expecting ==
  ram.packets_cnt # 0 /\ ram.packets_cnt % SeqMod = sender.seq
    => ram.file_remainder \in {0, Unsent}

\* An acknowledgement is for the packet that was sent.
Acknowledged ==
  fresh /\ reply = <<"ACK">> =>
    \/ ram.file_done
    \/ /\ ram.file_remainder > 0 /\ ram.file_remainder = Unsent - PacketLen
       /\ ram.packets_cnt % SeqMod = (sender.seq + 1) % SeqMod

DataPhase ==
  /\ pc # "boot" /\ DataOf(ram, file.img)
  /\ AtRest => Expecting /\ Acknowledged
  /\ ~AtRest => InHand(ram)

AtData == sender.at = "data" => DataPhase

AtEnd ==
  sender.at \in {"eot", "end", "done"} =>
    /\ AtRest /\ Stored(flash) = file.img
    /\ sender.at = "end" => sender.seq = 0

SessionInv ==
  SessionTyped /\ LoaderInv /\ AtStart /\ AtFirst /\ AtData /\ AtEnd

-----------------------------------------------------------------------------
LEMMA Sizes ==
  ASSUME SessionTyped
  PROVE  /\ file.img \in Images /\ file.enc \in BOOLEAN /\ file \in File
         /\ FileSize \in Nat /\ Unsent \in Int
         /\ PacketLen \in Nat /\ PacketLen > 0
         /\ SeqMod \in Nat /\ SeqMod > 1
<1>1. file \in [img : Images, enc : BOOLEAN]
  BY ImagesAssumption DEF SessionTyped
<1>2. Size[file.img] \in Nat
  BY <1>1, ImagesAssumption
<1>3. FileSize \in Nat
  BY <1>2, Lengths DEF FileSize, FileLen
<1>4. sender.sent \in Nat
  BY DEF SessionTyped
<1> QED BY <1>1, <1>3, <1>4, LengthsAssumption, SessionAssumption
   DEF File, Unsent, PacketLen

\* What does not move the sender leaves what it has to send.
LEMMA Unmoved ==
  ASSUME sender'.sent = sender.sent, sender'.seq = sender.seq, file' = file
  PROVE  FileSize' = FileSize /\ Unsent' = Unsent /\ PacketLen' = PacketLen
BY DEF FileSize, FileLen, Unsent, PacketLen

LEMMA ProceedData ==
  ASSUME SessionTyped, UNCHANGED <<sender, file>>,
         NEW r \in RamType, DataOf(r, file.img), InHand(r),
         BlockDone(r) \/ (r.file_remainder # 0 /\ NextChunk(r))
  PROVE  DataPhase'
<1>1. FileSize' = FileSize /\ Unsent' = Unsent /\ PacketLen' = PacketLen
  BY Unmoved
<1>2. CASE pc' \in {"pack", "finish"} /\ ram' = r
  <2>1. DataOf(ram', file'.img)
    BY <1>2
  <2>2. InHand(ram)'
    BY <1>1, <1>2 DEF InHand
  <2> QED BY <1>2, <2>1, <2>2 DEF DataPhase, AtRest
<1>3. CASE /\ r.file_remainder # 0 /\ r.pack = <<>>
           /\ Answer([r EXCEPT !.packets_cnt = @ + 1], <<"ACK">>)
  <2>1. /\ ram'.packets_cnt = r.packets_cnt + 1
        /\ ram'.file_remainder = r.file_remainder
        /\ ram'.block = r.block /\ ram'.pack = r.pack
        /\ ram'.boot_rec1 = r.boot_rec1 /\ pc' = "wait"
    BY <1>3 DEF Answer, RamType
  <2>2. DataOf(ram', file'.img)
    BY <2>1 DEF DataOf
  <2>3. r.packets_cnt \in Nat /\ r.file_remainder \in Nat /\ Len(r.pack) = 0
    BY <1>3, Lengths DEF RamType
  <2>4. r.packets_cnt % SeqMod = sender.seq
        /\ r.file_remainder = Unsent - PacketLen
    BY <1>3, <2>3, Sizes DEF InHand
  <2>5. /\ (r.packets_cnt + 1) % SeqMod # sender.seq
        /\ (r.packets_cnt + 1) % SeqMod = (sender.seq + 1) % SeqMod
    <3>1. SeqMod \in Nat /\ SeqMod > 1 /\ r.packets_cnt \in Nat
      BY <2>3, Sizes
    <3>2. /\ (r.packets_cnt + 1) % SeqMod = ((r.packets_cnt % SeqMod) + 1) % SeqMod
          /\ (r.packets_cnt + 1) % SeqMod # r.packets_cnt % SeqMod
      BY ONLY <3>1, ModSucc, Zenon
    <3> QED BY ONLY <2>4, <3>2, Zenon
  <2>6. Expecting'
    BY <2>1, <2>5 DEF Expecting
  <2>7. Acknowledged'
    BY <1>1, <1>3, <2>1, <2>3, <2>4, <2>5 DEF Acknowledged
  <2> QED BY <2>1, <2>2, <2>6, <2>7 DEF DataPhase, AtRest
<1> QED BY <1>2, <1>3 DEF BlockDone, NextChunk

LEMMA LeaveData ==
  ASSUME SessionTyped,
         sender'.sent = sender.sent, sender'.seq = sender.seq, file' = file,
         NEW r \in RamType, DataOf(r, file.img),
         NEW bytes, bytes # <<"ACK">>, Leave(r, bytes)
  PROVE  DataPhase'
<1>1. /\ DataOf(ram', file'.img) /\ ram'.packets_cnt = 0
      /\ pc' = "check" /\ reply' = bytes
  BY RemainingOf DEF Leave
<1> QED BY <1>1 DEF DataPhase, AtRest, Expecting, Acknowledged

\* The variables of the invariant stay as they are.
LEMMA HandKept ==
  ASSUME sender'.sent = sender.sent, sender'.seq = sender.seq, file' = file,
         NEW r, InHand(r), DataOf(r, file.img),
         ram'.packets_cnt = r.packets_cnt,
         ram'.file_remainder = r.file_remainder,
         ram'.block = r.block, ram'.pack = r.pack,
         ram'.boot_rec1 = r.boot_rec1,
         pc' \notin {"boot", "wait", "check", "app"}
  PROVE  DataPhase'
<1>1. Unsent' = Unsent /\ PacketLen' = PacketLen
  BY Unmoved
<1>2. InHand(ram)'
  BY <1>1 DEF InHand
<1>3. DataOf(ram', file'.img)
  BY DEF DataOf
<1> QED BY <1>2, <1>3 DEF DataPhase, AtRest

-----------------------------------------------------------------------------
(***************************************************************************)
(* The loader's own steps.                                                 *)
(***************************************************************************)
LEMMA VerifyData ==
  ASSUME SessionTyped, UNCHANGED <<sender, file>>, TypeOK, ControlInv,
         DataPhase, pc = "program", NEW new, ProgramAndVerify(new)
  PROVE  DataPhase'
<1> DEFINE r == [ram EXCEPT !.addr = @ + ram.chank_size,
                            !.indx_in_block = 0,
                            !.blocks_cnt = Least(@ + 1, MaxBlocks)]
<1>1. /\ ram \in RamType /\ ram.addr \in Nat /\ ram.chank_size \in Nat
      /\ ram.blocks_cnt \in Nat
  BY Lengths DEF TypeOK, RamType
<1>2. Least(ram.blocks_cnt + 1, MaxBlocks) \in Nat
  BY <1>1, Lengths DEF Least, MaxBlocks
<1>3. r \in RamType
  <2>1. ram.addr + ram.chank_size \in Nat /\ 0 \in 0 .. BlockLen
    BY <1>1, Lengths
  <2> QED BY <1>1, <1>2, <2>1 DEF RamType
<1>4. /\ r.block = ram.block /\ r.pack = ram.pack
      /\ r.boot_rec1 = ram.boot_rec1
      /\ r.packets_cnt = ram.packets_cnt
      /\ r.file_remainder = ram.file_remainder
  BY <1>1 DEF RamType
<1>5. BlockDone(r) \/ Leave(ram, <<"CA", "CA">>)
  BY DEF ProgramAndVerify, ABORT_SESSION
<1>6. InHand(ram) /\ DataOf(ram, file.img)
  BY DEF DataPhase, AtRest
<1> HIDE DEF r
<1>7. InHand(r) /\ DataOf(r, file.img)
  BY <1>4, <1>6 DEF InHand, DataOf
<1>8. <<"CA", "CA">> # <<"ACK">>
  OBVIOUS
<1> QED BY <1>1, <1>3, <1>5, <1>6, <1>7, <1>8, ProceedData, LeaveData

LEMMA ProgramData ==
  ASSUME SessionTyped, UNCHANGED <<sender, file>>, LoaderInv,
         DataPhase, Program, fresh' = (fresh \/ pc' \in {"wait", "check"})
  PROVE  DataPhase'
<1>1. /\ TypeOK /\ ControlInv /\ ram \in RamType
      /\ pc # "boot" /\ DataOf(ram, file.img)
      /\ <<"CA", "CA">> # <<"ACK">> /\ <<"C">> # <<"ACK">>
  BY DEF LoaderInv, TypeOK, DataPhase
<1>h. ~AtRest => InHand(ram)
  BY DEF DataPhase
<1>2. CASE Boot_programmer \/ Boot_alone
  BY <1>1, <1>2 DEF Boot_programmer, Boot_alone
<1>3. CASE Check_and_Jump_to_App
  BY <1>3, Unmoved
     DEF Check_and_Jump_to_App, DataPhase, AtRest, Expecting, Acknowledged, DataOf
<1>4. CASE Check_failed
  <2>1. /\ DataOf(ram', file'.img) /\ ram'.packets_cnt = 0
        /\ pc' = "wait" /\ reply' = <<"C">>
    BY <1>1, <1>4, RemainingOf DEF Check_failed, StartSession
  <2> QED BY <1>1, <2>1 DEF DataPhase, AtRest, Expecting, Acknowledged
<1>5. ASSUME pc = "pack"
      PROVE  /\ Copied \in RamType /\ DataOf(Copied, file.img) /\ InHand(Copied)
  <2>1. InHand(ram)
    BY <1>5, <1>h DEF AtRest
  <2>2. Copied \in RamType /\ Copied.packets_cnt = ram.packets_cnt
    BY <1>1, CopiedTyped
  <2>3. /\ DataOf(Copied, file.img)
        /\ Copied.file_remainder - Len(Copied.pack)
             = ram.file_remainder - Len(ram.pack)
        /\ ram.file_remainder = 0 => Copied.file_remainder = 0
    BY <1>1, CopiedOf
  <2> QED BY <2>1, <2>2, <2>3 DEF InHand
<1>6. CASE Pack_gather
  <2>1. /\ pc = "pack" /\ NextChunk(Copied) /\ Copied.file_remainder # 0
    BY <1>6 DEF Pack_gather, BlockReady
  <2> QED BY <1>5, <2>1, ProceedData
<1>7. CASE Pack_header
  <2> DEFINE h == Header(Copied)
  <2>1. pc = "pack"
    BY <1>7 DEF Pack_header
  <2>2. /\ h \in RamType /\ Counters(h) = Counters(Copied)
        /\ DataOf(h, file.img) /\ h.pack = Copied.pack
    BY <1>5, <2>1, HeaderTyped, HeaderOf
  <2>3. InHand(h)
    BY <1>5, <2>1, <2>2 DEF InHand, Counters
  <2>4. Leave(h, <<"CA", "CA">>) \/ (pc' = "erase_record" /\ ram' = h)
    BY <1>7 DEF Pack_header, ABORT_SESSION
  <2> HIDE DEF h
  <2> QED BY <1>1, <2>2, <2>3, <2>4, LeaveData, HandKept
<1>8. CASE Pack_data
  <2> DEFINE n == IF Copied.chank_size = 0 THEN 1 ELSE Copied.chank_size
             d == Decrypted(Copied, n)
  <2>1. /\ pc = "pack" /\ pc' = "program"
        /\ ram' = IF Copied.boot_encrypted THEN d ELSE Copied
    BY <1>8 DEF Pack_data
  <2>2. n \in 1 .. BlockLen
    BY <1>5, <2>1, Lengths DEF RamType
  <2>3. /\ Counters(d) = Counters(Copied)
        /\ DataOf(d, file.img) /\ d.pack = Copied.pack
    <3> HIDE DEF n
    <3> QED BY <1>5, <2>1, <2>2, DecryptedCounters, DecryptedOf
  <2>4. InHand(d)
    BY <1>5, <2>1, <2>3 DEF InHand, Counters
  <2> HIDE DEF d
  <2> QED BY <1>5, <2>1, <2>3, <2>4, HandKept
<1>9. CASE Erase_record \/ Erase_sector
  <2>1. /\ pc \in {"erase_record", "erase"} /\ pc' = "erase"
        /\ ram'.packets_cnt = ram.packets_cnt
        /\ ram'.file_remainder = ram.file_remainder
        /\ ram'.block = ram.block /\ ram'.pack = ram.pack
        /\ ram'.boot_rec1 = ram.boot_rec1
    BY <1>1, <1>9 DEF Erase_record, Erase_sector, RamType
  <2> QED BY <1>1, <1>h, <2>1, HandKept DEF AtRest
<1>10. CASE Erase_done
  <2> DEFINE r == [ram EXCEPT !.addr = 0, !.indx_in_block = 0, !.blocks_cnt = 1]
  <2>1. r \in RamType
    <3>1. 0 \in 0 .. BlockLen
      BY Lengths
    <3> QED BY <1>1, <3>1 DEF RamType
  <2>2. BlockDone(r) /\ InHand(ram)
    BY <1>10, <1>h DEF Erase_done, AtRest
  <2>3. /\ r.packets_cnt = ram.packets_cnt
        /\ r.file_remainder = ram.file_remainder
        /\ r.block = ram.block /\ r.pack = ram.pack
        /\ r.boot_rec1 = ram.boot_rec1
    BY <1>1 DEF RamType
  <2> HIDE DEF r
  <2>4. InHand(r) /\ DataOf(r, file.img)
    BY <1>1, <2>2, <2>3 DEF InHand, DataOf
  <2> QED BY <2>1, <2>2, <2>4, ProceedData
<1>11. CASE Program_block \/ Program_fails
  BY <1>1, <1>11, VerifyData DEF Program_block, Program_fails
<1>12. CASE Program_overrun
  <2>1. CASE ProgramAndVerify(Overrun(FlashLen))
    BY <1>1, <1>12, <2>1, VerifyData DEF Program_overrun
  <2>2. CASE pc' = "fault" /\ UNCHANGED ram
    BY <1>1, <1>h, <1>12, <2>2, HandKept DEF Program_overrun, AtRest
  <2> QED BY <1>12, <2>1, <2>2 DEF Program_overrun
<1>13. CASE Finish_check
  <2>1. CASE Leave(ram, <<"CA", "CA">>)
    BY <1>1, <2>1, LeaveData
  <2>2. CASE pc = "finish" /\ pc' = "write_record" /\ UNCHANGED ram
    BY <1>1, <1>h, <2>2, HandKept DEF AtRest
  <2> QED BY <1>13, <2>1, <2>2 DEF Finish_check, ABORT_SESSION
<1>14. CASE Finish_record
  <2>1. CASE Leave(ram, <<"CA", "CA">>)
    BY <1>1, <2>1, LeaveData
  <2>2. CASE Answer([ram EXCEPT !.addr = RecordAddr, !.file_done = TRUE], <<"ACK">>)
    <3>1. /\ pc = "write_record" /\ pc' = "wait"
          /\ ram'.file_done = TRUE /\ ram'.file_remainder = ram.file_remainder
          /\ ram'.block = ram.block /\ ram'.pack = ram.pack
          /\ ram'.boot_rec1 = ram.boot_rec1
      BY <1>1, <1>14, <2>2 DEF Finish_record, Answer, RamType
    <3>2. ram.file_remainder = 0
      BY <1>1, <3>1 DEF ControlInv, Phases
    <3> QED BY <1>1, <3>1, <3>2 DEF DataPhase, AtRest, Expecting, Acknowledged, DataOf
  <2> QED BY <1>14, <2>1, <2>2 DEF Finish_record, ABORT_SESSION
<1> QED BY <1>2, <1>3, <1>4, <1>6, <1>7, <1>8, <1>9, <1>10, <1>11, <1>12,
   <1>13, <1>14 DEF Program

-----------------------------------------------------------------------------
(***************************************************************************)
(* The line.                                                               *)
(***************************************************************************)
\* A packet of the sender's is one the loader may receive, and all its units
\* are its file's.
LEMMA PacketOf ==
  ASSUME SessionTyped
  PROVE  /\ Receivable(Packet)
         /\ Packet.seq = sender.seq /\ Packet.empty = (sender.at = "end")
         /\ Packet.size = FileSize
         /\ Packet.units \in Seq(UnitsOf(file.img)) /\ Len(Packet.units) = PacketLen
<1>1. /\ file.img \in Images /\ file.enc \in BOOLEAN /\ file \in File
      /\ FileSize \in Nat /\ PacketLen \in Nat /\ sender.sent \in Nat
  BY Sizes DEF SessionTyped
<1>2. ASSUME NEW k \in 1 .. PacketLen
      PROVE  FileUnit(file.img, sender.sent + k, file.enc) \in UnitsOf(file.img)
  <2>1. sender.sent + k \in Nat
    BY <1>1
  <2>2. FileUnit(file.img, sender.sent + k, file.enc) \in Unit
    BY <1>1, <2>1, Units
  <2>3. FileUnit(file.img, sender.sent + k, file.enc).img \in {file.img, Blank}
    BY DEF FileUnit, Junk
  <2> QED BY <2>2, <2>3 DEF UnitsOf
<1> DEFINE units == [k \in 1 .. PacketLen |->
                       FileUnit(file.img, sender.sent + k, file.enc)]
<1>3. units \in Seq(UnitsOf(file.img)) /\ Len(units) = PacketLen
  BY <1>1, <1>2
<1>4. units \in Seq(Unit)
  <2>1. \A k \in 1 .. PacketLen :
          FileUnit(file.img, sender.sent + k, file.enc) \in Unit
    BY <1>2 DEF UnitsOf
  <2> QED BY <1>1, <2>1
<1>5. /\ Packet.seq = sender.seq /\ Packet.empty = (sender.at = "end")
      /\ Packet.size = FileSize /\ Packet.units = units
      /\ Packet.damaged = FALSE /\ Packet.odd = FALSE /\ Packet.file = file
  BY DEF Packet
<1> HIDE DEF units
<1> QED BY <1>1, <1>3, <1>4, <1>5 DEF Receivable

LEMMA PacketData ==
  ASSUME SessionTyped, LoaderInv, DataPhase, sender.at = "data",
         Rcv_packet(Packet),
         sender'.sent = sender.sent, sender'.seq = sender.seq, file' = file
  PROVE  DataPhase'
<1> DEFINE r == [ram EXCEPT !.errors = 0]
           first == [r EXCEPT !.session_begin = TRUE, !.packets_cnt = 1,
                              !.blocks_cnt = 0, !.indx_in_block = 0,
                              !.file_name = Packet.file,
                              !.file_remainder = Packet.size, !.odd = Packet.odd]
           next == [r EXCEPT !.pack = Packet.units, !.damaged = Packet.damaged]
<1>1. /\ ram \in RamType /\ pc = "wait" /\ DataOf(ram, file.img)
      /\ Expecting
  BY DEF LoaderInv, TypeOK, DataPhase, AtRest, Rcv_packet
<1>2. /\ r \in RamType /\ r.packets_cnt = ram.packets_cnt
      /\ r.file_remainder = ram.file_remainder /\ r.block = ram.block
      /\ r.pack = ram.pack /\ r.boot_rec1 = ram.boot_rec1
  BY <1>1, NoErrors DEF RamType
<1>3. DataOf(r, file.img)
  BY <1>1, <1>2 DEF DataOf
<1>4. Packet.seq = sender.seq /\ Packet.empty = FALSE
  BY PacketOf
<1>5. \/ Answer(r, <<"NAK">>) \/ Leave(r, <<"CA", "CA">>)
      \/ /\ sender.seq = ram.packets_cnt % SeqMod /\ ram.packets_cnt = 0
         /\ Answer(first, <<"ACK", "C">>)
      \/ /\ sender.seq = ram.packets_cnt % SeqMod /\ ram.packets_cnt # 0
         /\ pc' = "pack" /\ ram' = next
  BY <1>4 DEF Rcv_packet, ABORT_SESSION
<1>6. /\ Unsent' = Unsent /\ PacketLen' = PacketLen
      /\ <<"CA", "CA">> # <<"ACK">> /\ <<"NAK">> # <<"ACK">>
      /\ <<"ACK", "C">> # <<"ACK">>
  BY Unmoved
<1>7. CASE Answer(r, <<"NAK">>)
  <2> HIDE DEF r
  <2>1. pc' = "wait" /\ ram' = r /\ reply' = <<"NAK">>
    BY <1>7 DEF Answer
  <2>2. Expecting'
    BY <1>1, <1>2, <1>6, <2>1 DEF Expecting
  <2> QED BY <1>3, <1>6, <2>1, <2>2 DEF DataPhase, AtRest, Acknowledged
<1>8. CASE Leave(r, <<"CA", "CA">>)
  <2> HIDE DEF r
  <2> QED BY <1>2, <1>3, <1>6, <1>8, LeaveData
<1>9. CASE /\ sender.seq = ram.packets_cnt % SeqMod /\ ram.packets_cnt = 0
           /\ Answer(first, <<"ACK", "C">>)
  <2>1. /\ pc' = "wait" /\ reply' = <<"ACK", "C">>
        /\ ram'.packets_cnt = 1 /\ ram'.block = ram.block
        /\ ram'.pack = ram.pack /\ ram'.boot_rec1 = ram.boot_rec1
    BY <1>1, <1>9 DEF Answer, RamType
  <2>2. 1 % SeqMod # sender.seq
    <3>1. SeqMod \in Nat /\ SeqMod > 1 /\ sender.seq = 0 % SeqMod
      BY <1>9, Sizes
    <3> QED BY <3>1, Z3
  <2>3. DataOf(ram', file'.img)
    BY <1>1, <2>1 DEF DataOf
  <2>4. Expecting'
    BY <2>1, <2>2 DEF Expecting
  <2> QED BY <1>6, <2>1, <2>3, <2>4 DEF DataPhase, AtRest, Acknowledged
<1>10. CASE /\ sender.seq = ram.packets_cnt % SeqMod /\ ram.packets_cnt # 0
            /\ pc' = "pack" /\ ram' = next
  <2>1. /\ ram'.packets_cnt = ram.packets_cnt
        /\ ram'.file_remainder = ram.file_remainder
        /\ ram'.block = ram.block /\ ram'.pack = Packet.units
        /\ ram'.boot_rec1 = ram.boot_rec1
    BY <1>1, <1>10 DEF RamType
  <2>2. DataOf(ram', file'.img)
    BY <1>1, <2>1, PacketOf DEF DataOf
  <2>3. ram.file_remainder \in {0, Unsent} /\ Len(Packet.units) = PacketLen
    BY <1>1, <1>10, PacketOf DEF Expecting
  <2>4. InHand(ram)'
    BY <1>6, <1>10, <2>1, <2>3 DEF InHand
  <2> QED BY <1>10, <2>2, <2>4 DEF DataPhase, AtRest
<1> HIDE DEF r, first, next
<1> QED BY <1>5, <1>7, <1>8, <1>9, <1>10

\* Nothing heard, or nothing understood: at most an error is counted.
LEMMA ErrorSteps ==
  ASSUME ram \in RamType, Rcv_error \/ Rcv_timeout
  PROVE  \/ \E n : Answer([ram EXCEPT !.errors = n], <<"C">>)
         \/ Leave(ram, <<"CA", "CA">>)
<1>1. ram = [ram EXCEPT !.errors = ram.errors]
  BY DEF RamType
<1>2. [ram EXCEPT !.errors = @ + (IF ram.session_begin THEN 1 ELSE 0)]
        = [ram EXCEPT !.errors = ram.errors + (IF ram.session_begin THEN 1 ELSE 0)]
  BY DEF RamType
<1>3. \A n : Remaining([ram EXCEPT !.errors = n]) = Remaining(ram)
  BY DEF Remaining, RamType
<1>4. CASE Rcv_error
  <2>1. PICK n : \/ Answer([ram EXCEPT !.errors = n], <<"C">>)
                 \/ Leave([ram EXCEPT !.errors = n], <<"CA", "CA">>)
    BY <1>2, <1>4 DEF Rcv_error
  <2> QED BY <1>3, <2>1 DEF Leave
<1>5. CASE Rcv_timeout
  BY <1>1, <1>5 DEF Rcv_timeout
<1> QED BY <1>4, <1>5

LEMMA ErrorData ==
  ASSUME SessionTyped, LoaderInv, DataPhase, Rcv_error \/ Rcv_timeout,
         sender'.sent = sender.sent, sender'.seq = sender.seq, file' = file
  PROVE  DataPhase'
<1>1. /\ ram \in RamType /\ pc = "wait" /\ DataOf(ram, file.img) /\ Expecting
  BY DEF LoaderInv, TypeOK, DataPhase, AtRest, Rcv_error, Rcv_timeout
<1>2. <<"C">> # <<"ACK">> /\ <<"CA", "CA">> # <<"ACK">>
  OBVIOUS
<1>3. CASE \E n : Answer([ram EXCEPT !.errors = n], <<"C">>)
  <2>0. PICK n : Answer([ram EXCEPT !.errors = n], <<"C">>)
    BY <1>3
  <2> DEFINE r == [ram EXCEPT !.errors = n]
  <2>1. /\ r.packets_cnt = ram.packets_cnt
        /\ r.file_remainder = ram.file_remainder /\ r.block = ram.block
        /\ r.pack = ram.pack /\ r.boot_rec1 = ram.boot_rec1
    BY <1>1 DEF RamType
  <2>2. DataOf(r, file.img)
    BY <1>1, <2>1 DEF DataOf
  <2> HIDE DEF r
  <2>3. Unsent' = Unsent /\ PacketLen' = PacketLen
    BY Unmoved
  <2>4. pc' = "wait" /\ ram' = r /\ reply' = <<"C">>
    BY <2>0 DEF Answer, r
  <2>5. Expecting'
    BY <1>1, <2>1, <2>3, <2>4 DEF Expecting
  <2> QED BY <1>2, <2>2, <2>4, <2>5 DEF DataPhase, AtRest, Acknowledged
<1>4. CASE Leave(ram, <<"CA", "CA">>)
  BY <1>1, <1>2, <1>4, LeaveData
<1> QED BY <1>1, <1>3, <1>4, ErrorSteps

-----------------------------------------------------------------------------
(***************************************************************************)
(* Every step of the session keeps the invariant.                          *)
(***************************************************************************)
Points == AtStart /\ AtFirst /\ AtData /\ AtEnd

\* The sender is where it was, whether or not it waits for an answer.
Stands ==
  /\ sender'.at = sender.at /\ sender'.sent = sender.sent
  /\ sender'.seq = sender.seq /\ file' = file

LEMMA SenderTyped ==
  ASSUME SessionTyped
  PROVE  /\ sender' = sender \/ (\E b \in BOOLEAN :
              sender' = [sender EXCEPT !.waiting = b])
            => /\ sender'.at = sender.at /\ sender'.sent = sender.sent
               /\ sender'.seq = sender.seq
               /\ sender' \in [at : {"start", "first", "data", "eot", "end",
                                     "done", "failed"},
                               sent : Nat, seq : 0 .. SeqMod - 1,
                               waiting : BOOLEAN]
BY DEF SessionTyped

\* Nothing but the sender's reading changes.
LEMMA StillPoints ==
  ASSUME Points, UNCHANGED vars, Stands, fresh' => fresh
  PROVE  Points'
<1>1. FileSize' = FileSize /\ Unsent' = Unsent /\ PacketLen' = PacketLen
  BY Unmoved DEF Stands
<1>2. AtStart' /\ AtFirst' /\ AtEnd'
  BY <1>1 DEF vars, Stands, Points, AtStart, AtFirst, AtEnd, AtRest, DataOf
<1>3. AtData'
  <2>1. DataPhase => DataPhase'
    BY <1>1 DEF vars, Stands, DataPhase, AtRest, Expecting, Acknowledged, InHand, DataOf
  <2> QED BY <2>1 DEF Stands, Points, AtData
<1> QED BY <1>2, <1>3 DEF Points

\* A loader that waits for its line or has left has little to do.
LEMMA RestSteps ==
  ASSUME Program, pc = "boot" \/ AtRest
  PROVE  /\ flash' = flash
         /\ \/ Boot_programmer
            \/ pc = "boot" /\ pc' = "check"
            \/ Check_and_Jump_to_App \/ Check_failed
BY DEF AtRest, Program, Boot_programmer, Boot_alone, Check_and_Jump_to_App,
   Check_failed, StartSession, Pack_gather, Pack_header, Pack_data,
   Erase_record, Erase_sector, Erase_done, Program_block, Program_fails,
   Program_overrun, Finish_check, Finish_record

LEMMA LoaderPoints ==
  ASSUME SessionInv, Loader
  PROVE  Points'
<1>1. /\ SessionTyped /\ LoaderInv /\ AtStart /\ AtFirst /\ AtData /\ AtEnd
      /\ ram \in RamType
      /\ UNCHANGED <<sender, file>> /\ Program /\ ~(pc = "boot" /\ pc' = "check")
      /\ fresh' = (fresh \/ pc' \in {"wait", "check"})
  BY DEF SessionInv, LoaderInv, TypeOK, Loader
<1>2. FileSize' = FileSize
  BY <1>1, Unmoved
<1>3. AtStart'
  <2> SUFFICES ASSUME sender.at = "start" PROVE AtStart'
    BY <1>1 DEF AtStart
  <2>1. Boot_programmer /\ DataOf(ram, file.img) /\ sender.seq = 0 /\ sender.sent = 0
    BY <1>1, RestSteps DEF AtStart, AtRest, Check_and_Jump_to_App, Check_failed
  <2>2. pc' = "wait" /\ DataOf(ram', file'.img) /\ ram'.packets_cnt = 0
    BY <1>1, <2>1, RemainingOf DEF Boot_programmer, StartSession
  <2> QED BY <1>1, <2>1, <2>2 DEF AtStart
<1>4. AtFirst'
  <2> SUFFICES ASSUME sender.at = "first" PROVE AtFirst'
    BY <1>1 DEF AtFirst
  <2>1. AtRest /\ DataOf(ram, file.img)
    BY <1>1 DEF AtFirst
  <2>2. CASE Check_and_Jump_to_App
    <3>1. pc' = "app" /\ ram' = ram /\ reply' = reply /\ (fresh' => fresh)
      BY <1>1, <2>2 DEF Check_and_Jump_to_App
    <3>2. DataOf(ram', file'.img)
      BY <1>1, <2>1, <3>1
    <3> QED BY <1>1, <1>2, <3>1, <3>2 DEF AtFirst, AtRest
  <2>3. CASE Check_failed
    <3>1. /\ pc' = "wait" /\ DataOf(ram', file'.img) /\ ram'.packets_cnt = 0
          /\ reply' = <<"C">>
      BY <1>1, <2>1, <2>3, RemainingOf DEF Check_failed, StartSession
    <3>2. <<"C">> # <<"ACK", "C">>
      OBVIOUS
    <3> QED BY <1>1, <3>1, <3>2 DEF AtFirst, AtRest
  <2> QED BY <1>1, <2>1, <2>2, <2>3, RestSteps DEF AtRest, Boot_programmer
<1>5. AtData'
  BY <1>1, ProgramData DEF AtData
<1>6. AtEnd'
  <2> SUFFICES ASSUME sender.at \in {"eot", "end", "done"} PROVE AtEnd'
    BY <1>1 DEF AtEnd
  <2>1. AtRest /\ Stored(flash) = file.img
    BY <1>1 DEF AtEnd
  <2>2. flash' = flash /\ pc' \in {"wait", "app"}
    BY <1>1, <2>1, RestSteps
       DEF AtRest, Boot_programmer, Check_and_Jump_to_App, Check_failed, StartSession
  <2> QED BY <1>1, <2>1, <2>2 DEF AtEnd, AtRest
<1> QED BY <1>3, <1>4, <1>5, <1>6 DEF Points

\* The first packet names the file, and its size.
LEMMA PacketFirst ==
  ASSUME SessionTyped, LoaderInv, AtFirst, sender.at = "first",
         Rcv_packet(Packet), Stands
  PROVE  AtFirst'
<1> DEFINE r == [ram EXCEPT !.errors = 0]
           first == [r EXCEPT !.session_begin = TRUE, !.packets_cnt = 1,
                              !.blocks_cnt = 0, !.indx_in_block = 0,
                              !.file_name = Packet.file,
                              !.file_remainder = Packet.size, !.odd = Packet.odd]
           next == [r EXCEPT !.pack = Packet.units, !.damaged = Packet.damaged]
<1>1. /\ ram \in RamType /\ DataOf(ram, file.img) /\ ram.packets_cnt \in {0, 1}
      /\ sender.seq = 0 /\ sender.sent = 0
  BY DEF LoaderInv, TypeOK, AtFirst
<1>2. /\ Packet.seq = 0 /\ Packet.empty = FALSE /\ Packet.size = FileSize
  BY <1>1, PacketOf
<1>3. 1 % SeqMod # 0
  <2>1. SeqMod \in Nat /\ SeqMod > 1
    BY Sizes
  <2> QED BY <2>1, Z3
<1>4. \/ Answer(r, <<"NAK">>) \/ Leave(r, <<"CA", "CA">>)
      \/ Answer(first, <<"ACK", "C">>)
  BY <1>1, <1>2, <1>3 DEF Rcv_packet, ABORT_SESSION
<1>5. /\ r \in RamType /\ DataOf(r, file.img) /\ r.packets_cnt = ram.packets_cnt
  BY <1>1, NoErrors DEF RamType, DataOf
<1>6. /\ <<"NAK">> # <<"ACK", "C">> /\ <<"CA", "CA">> # <<"ACK", "C">>
      /\ FileSize' = FileSize
  BY Unmoved DEF Stands
<1>7. CASE Answer(r, <<"NAK">>)
  <2> HIDE DEF r
  <2> QED BY <1>1, <1>5, <1>6, <1>7 DEF Answer, AtFirst, AtRest, Stands
<1>8. CASE Leave(r, <<"CA", "CA">>)
  <2> HIDE DEF r
  <2>1. /\ pc' = "check" /\ DataOf(ram', file.img) /\ ram'.packets_cnt = 0
        /\ reply' = <<"CA", "CA">>
    BY <1>5, <1>8, RemainingOf DEF Leave
  <2> QED BY <1>1, <1>6, <2>1 DEF AtFirst, AtRest, Stands
<1>9. CASE Answer(first, <<"ACK", "C">>)
  <2>1. /\ pc' = "wait" /\ ram'.packets_cnt = 1
        /\ ram'.file_remainder = FileSize /\ ram'.block = ram.block
        /\ ram'.pack = ram.pack /\ ram'.boot_rec1 = ram.boot_rec1
    BY <1>1, <1>2, <1>9 DEF Answer, RamType
  <2>2. DataOf(ram', file.img)
    BY <1>1, <2>1 DEF DataOf
  <2> QED BY <1>1, <1>6, <2>1, <2>2 DEF AtFirst, AtRest, Stands
<1> HIDE DEF r, first
<1> QED BY <1>4, <1>7, <1>8, <1>9

LEMMA DeliverPoints ==
  ASSUME SessionInv, Deliver
  PROVE  LoaderInv' /\ Points'
<1>1. /\ SessionTyped /\ LoaderInv /\ AtStart /\ AtFirst /\ AtData /\ AtEnd
      /\ sender.at \in {"first", "data", "eot", "end"} /\ pc = "wait"
      /\ sender' = [sender EXCEPT !.waiting = TRUE] /\ file' = file
      /\ IF sender.at = "eot" THEN Rcv_EOT ELSE Rcv_packet(Packet)
  BY DEF SessionInv, Deliver, Sends
<1>2. Stands
  BY <1>1, SenderTyped DEF Stands
<1>3. CASE sender.at = "eot"
  <2>1. Rcv_EOT
    BY <1>1, <1>3
  <2>2. LoaderInv'
    BY <1>1, <2>1, LoaderStep DEF Next, Line
  <2>3. pc' = "wait" /\ flash' = flash
    BY <2>1 DEF Rcv_EOT, Answer
  <2> QED BY <1>1, <1>2, <1>3, <2>2, <2>3
     DEF Stands, Points, AtStart, AtFirst, AtData, AtEnd, AtRest
<1>4. CASE sender.at # "eot"
  <2>1. Rcv_packet(Packet)
    BY <1>1, <1>4
  <2>2. LoaderInv'
    BY <1>1, <2>1, PacketLoader, PacketOf
  <2>3. CASE sender.at = "first"
    <3>1. AtFirst'
      BY <1>1, <1>2, <2>1, <2>3, PacketFirst
    <3> QED BY <1>2, <2>2, <2>3, <3>1 DEF Stands, Points, AtStart, AtData, AtEnd
  <2>4. CASE sender.at = "data"
    <3>1. DataPhase'
      BY <1>1, <1>2, <2>1, <2>4, PacketData DEF AtData, Stands
    <3> QED BY <1>2, <2>2, <2>4, <3>1 DEF Stands, Points, AtStart, AtFirst, AtData, AtEnd
  <2>5. CASE sender.at = "end"
    <3>1. Packet.seq = 0 /\ Packet.empty = TRUE
      BY <1>1, <2>5, PacketOf DEF AtEnd
    <3>2. flash' = flash /\ pc' \in {"wait", "check"}
      BY <2>1, <3>1 DEF Rcv_packet, Answer, Leave, ABORT_SESSION
    <3> QED BY <1>1, <1>2, <2>2, <2>5, <3>2
       DEF Stands, Points, AtStart, AtFirst, AtData, AtEnd, AtRest
  <2> QED BY <1>1, <1>4, <2>3, <2>4, <2>5
<1> QED BY <1>3, <1>4

LEMMA ErrorPoints ==
  ASSUME SessionInv, Stands, Rcv_error \/ Rcv_timeout,
         sender.at # "start" \/ Rcv_timeout
  PROVE  LoaderInv' /\ Points'
<1>1. /\ SessionTyped /\ LoaderInv /\ AtStart /\ AtFirst /\ AtData /\ AtEnd
      /\ ram \in RamType
  BY DEF SessionInv, LoaderInv, TypeOK
<1>2. LoaderInv'
  BY <1>1, LoaderStep DEF Next, Line
<1>3. flash' = flash /\ pc' \in {"wait", "check"}
  BY DEF Rcv_error, Rcv_timeout, Answer, Leave
<1>4. AtStart'
  BY <1>1 DEF Rcv_timeout, Answer, AtStart, Stands, DataOf
<1>5. AtData'
  BY <1>1, ErrorData DEF AtData, Stands
<1>6. AtEnd'
  BY <1>1, <1>3 DEF AtEnd, AtRest, Stands
<1>7. AtFirst'
  <2> SUFFICES ASSUME sender.at = "first" PROVE AtFirst'
    BY DEF AtFirst, Stands
  <2>1. /\ DataOf(ram, file.img) /\ ram.packets_cnt \in {0, 1}
        /\ sender.seq = 0 /\ sender.sent = 0
    BY <1>1 DEF AtFirst
  <2>2. <<"C">> # <<"ACK", "C">> /\ <<"CA", "CA">> # <<"ACK", "C">>
    OBVIOUS
  <2>3. /\ ram'.packets_cnt \in {0, 1} /\ reply' # <<"ACK", "C">>
        /\ ram'.block = ram.block /\ ram'.pack \in {ram.pack, <<>>}
        /\ ram'.boot_rec1 \in {ram.boot_rec1, Junk}
    <3>1. CASE \E n : Answer([ram EXCEPT !.errors = n], <<"C">>)
      BY <1>1, <2>1, <2>2, <3>1 DEF Answer, RamType
    <3>2. CASE Leave(ram, <<"CA", "CA">>)
      BY <2>2, <3>2 DEF Leave, Remaining, Reset
    <3> QED BY <1>1, <3>1, <3>2, ErrorSteps
  <2>4. DataOf(ram', file.img)
    <3>1. <<>> \in Seq(UnitsOf(file.img)) /\ Junk \in UnitsOf(file.img)
      BY BlankUnits
    <3> QED BY <2>1, <2>3, <3>1 DEF DataOf
  <2> QED BY <1>3, <2>1, <2>3, <2>4 DEF AtFirst, AtRest, Stands
<1> QED BY <1>2, <1>4, <1>5, <1>6, <1>7 DEF Points

-----------------------------------------------------------------------------
(***************************************************************************)
(* The sender reads its answers.                                           *)
(***************************************************************************)
\* A finished file is the sender's.
LEMMA DoneOurs ==
  ASSUME SessionTyped, LoaderInv, DataOf(ram, file.img), ram.file_done
  PROVE  Stored(flash) = file.img /\ ram.file_remainder = 0
<1>1. /\ Stored(flash) = ram.boot_rec1.img /\ ram.file_remainder = 0
      /\ Acceptable(ram.boot_rec1)
  BY DEF LoaderInv, FlashInv, DoneMeansStored, ControlInv, Accepted, Repeats
<1>2. ram.boot_rec1.img \in Images /\ ram.boot_rec1.img # Blank
  BY <1>1, NoMagic DEF Acceptable, HasMagic
<1>3. ram.boot_rec1.img \in {file.img, Blank}
  BY DEF DataOf, UnitsOf
<1> QED BY <1>1, <1>2, <1>3

LEMMA AckedPoints ==
  ASSUME SessionInv, sender.at = "data", AtRest, fresh, reply = <<"ACK">>,
         Acked, UNCHANGED <<vars, file>>, fresh' = FALSE
  PROVE  SessionTyped' /\ Points'
<1>1. /\ SessionTyped /\ LoaderInv /\ DataPhase
      /\ DataOf(ram, file.img) /\ Acknowledged
  BY DEF SessionInv, AtData, DataPhase
<1> DEFINE sent == sender.sent + PacketLen
<1>2. /\ sender'.seq = (sender.seq + 1) % SeqMod /\ sender'.sent = sent
      /\ sender'.at = (IF sent >= FileSize THEN "eot" ELSE "data")
      /\ sender'.waiting = FALSE
      /\ DOMAIN sender' = DOMAIN sender
  BY <1>1 DEF Acked, SessionTyped
<1>3. /\ FileSize \in Nat /\ PacketLen \in Nat /\ SeqMod \in Nat /\ SeqMod > 1
      /\ sender.sent \in Nat /\ sender.seq \in Nat
  BY <1>1, Sizes DEF SessionTyped
<1>4. (sender.seq + 1) % SeqMod \in 0 .. SeqMod - 1 /\ sent \in Nat
  <2>1. (sender.seq + 1) % SeqMod \in 0 .. SeqMod - 1
    BY ONLY <1>3, ModSucc, Zenon
  <2> QED BY <1>3, <2>1
<1>5. SessionTyped'
  <2>1. sender' = [sender EXCEPT !.waiting = FALSE,
                     !.seq = (sender.seq + 1) % SeqMod, !.sent = sent,
                     !.at = IF sent >= FileSize THEN "eot" ELSE "data"]
    BY <1>1 DEF Acked, SessionTyped
  <2> HIDE DEF sent
  <2> QED BY <1>1, <1>4, <2>1 DEF SessionTyped
<1>6. /\ FileSize' = FileSize /\ Unsent' = FileSize - sent
  BY <1>2 DEF FileSize, FileLen, Unsent
<1>7. CASE ram.file_done
  <2>1. Stored(flash) = file.img /\ ram.file_remainder = 0
    BY <1>1, <1>7, DoneOurs
  <2>2. AtEnd'
    BY <1>2, <2>1 DEF vars, AtEnd, AtRest
  <2>3. DataPhase'
    BY <1>1, <2>1 DEF vars, DataPhase, AtRest, Expecting, Acknowledged, DataOf
  <2> QED BY <1>2, <1>5, <2>2, <2>3 DEF Points, AtStart, AtFirst, AtData
<1>8. CASE ~ram.file_done
  <2>1. /\ ram.file_remainder > 0
        /\ ram.file_remainder = Unsent - PacketLen
    BY <1>1, <1>8 DEF Acknowledged
  <2>2. Unsent - PacketLen = FileSize - sent
    BY <1>3 DEF Unsent
  <2>3. ram.file_remainder = FileSize - sent /\ sent < FileSize
    BY <1>3, <1>4, <2>1, <2>2
  <2>4. sender'.at = "data"
    BY <1>2, <1>3, <1>4, <2>3
  <2>5. Expecting'
    BY <1>6, <2>3 DEF vars, Expecting
  <2>6. DataPhase'
    BY <1>1, <2>5 DEF vars, DataPhase, AtRest, Acknowledged, DataOf
  <2> QED BY <1>5, <2>4, <2>6 DEF Points, AtStart, AtFirst, AtData, AtEnd
<1> QED BY <1>7, <1>8

LEMMA AnswerPoints ==
  ASSUME SessionInv, ReadAnswer
  PROVE  SessionTyped' /\ Points'
<1>1. /\ SessionTyped /\ AtStart /\ AtFirst /\ AtData /\ AtEnd /\ Points
      /\ fresh /\ AtRest /\ fresh' = FALSE /\ UNCHANGED <<vars, file>>
      /\ SeqMod \in Nat /\ SeqMod > 1
  BY Sizes DEF SessionInv, Points, ReadAnswer, AtRest
<1>2. /\ FileSize' = FileSize
      /\ DataOf(ram, file.img) => DataOf(ram', file'.img)
      /\ AtRest'
  BY <1>1 DEF vars, FileSize, FileLen, AtRest, DataOf
<1>a. ASSUME NEW at \in {"start", "first", "data", "eot", "end", "done", "failed"},
             Go(at)
      PROVE  /\ SessionTyped' /\ sender'.at = at /\ sender'.seq = sender.seq
             /\ sender'.sent = sender.sent
  BY <1>1, <1>a DEF Go, SessionTyped
<1>3. CASE sender.at = "start" /\ reply = <<"C">>
  <2>1. Go("first")
    BY <1>3 DEF ReadAnswer
  <2> QED BY <1>1, <1>2, <1>3, <1>a, <2>1
     DEF vars, Points, AtStart, AtFirst, AtData, AtEnd
<1>4. CASE sender.at = "first" /\ reply = <<"ACK", "C">>
  <2>1. sender' = [sender EXCEPT !.at = "data", !.seq = 1, !.waiting = FALSE]
    BY <1>4 DEF ReadAnswer
  <2>2. /\ sender'.at = "data" /\ sender'.sent = sender.sent /\ SessionTyped'
    <3>1. 0 \in 0 .. SeqMod - 1 /\ 1 \in 0 .. SeqMod - 1
      BY <1>1
    <3> QED BY <1>1, <2>1, <3>1 DEF SessionTyped
  <2>3. /\ ram.file_remainder = FileSize /\ sender.sent = 0
        /\ DataOf(ram, file.img)
    BY <1>1, <1>4 DEF AtFirst
  <2>4. Unsent' = ram.file_remainder
    <3>1. FileSize \in Nat
      BY <1>1, Sizes
    <3> QED BY <1>2, <2>2, <2>3, <3>1 DEF Unsent
  <2>5. DataPhase'
    BY <1>1, <1>2, <2>3, <2>4
       DEF vars, DataPhase, AtRest, Expecting, Acknowledged
  <2> QED BY <2>2, <2>5 DEF Points, AtStart, AtFirst, AtData, AtEnd
<1>5. CASE sender.at = "data" /\ reply = <<"ACK">>
  <2>1. Acked
    BY <1>5 DEF ReadAnswer
  <2> QED BY <1>1, <1>5, <2>1, AckedPoints
<1>6. CASE sender.at = "eot" /\ reply = <<"ACK", "C">>
  <2>1. sender' = [sender EXCEPT !.at = "end", !.seq = 0, !.waiting = FALSE]
    BY <1>6 DEF ReadAnswer
  <2>2. /\ sender'.at = "end" /\ sender'.seq = 0 /\ SessionTyped'
    <3>1. 0 \in 0 .. SeqMod - 1 /\ 1 \in 0 .. SeqMod - 1
      BY <1>1
    <3> QED BY <1>1, <2>1, <3>1 DEF SessionTyped
  <2> QED BY <1>1, <1>2, <1>6, <2>2 DEF vars, Points, AtStart, AtFirst, AtData, AtEnd
<1>7. CASE sender.at = "end" /\ reply = <<"CA", "CA">>
  <2>1. Go("done")
    BY <1>7 DEF ReadAnswer
  <2> QED BY <1>1, <1>2, <1>7, <1>a, <2>1
     DEF vars, Points, AtStart, AtFirst, AtData, AtEnd
<1>8. CASE sender.at # "end" /\ reply = <<"CA", "CA">>
  <2>1. Go("failed")
    <3>1. <<"CA", "CA">> # <<"C">> /\ <<"CA", "CA">> # <<"ACK">>
          /\ <<"CA", "CA">> # <<"ACK", "C">>
      OBVIOUS
    <3> QED BY <1>8, <3>1 DEF ReadAnswer
  <2> QED BY <1>a, <2>1 DEF Points, AtStart, AtFirst, AtData, AtEnd
<1>9. CASE Again
  <2>1. SessionTyped' /\ Stands
    BY <1>1, <1>9 DEF Again, SessionTyped, Stands
  <2> QED BY <1>1, <2>1, StillPoints
<1> QED BY <1>3, <1>4, <1>5, <1>6, <1>7, <1>8, <1>9 DEF ReadAnswer

LEMMA SessionStep == SessionInv /\ [SessionNext]_svars => SessionInv'
<1> SUFFICES ASSUME SessionInv, [SessionNext]_svars PROVE SessionInv'
  OBVIOUS
<1>1. SessionTyped /\ LoaderInv /\ Points
  BY DEF SessionInv, Points
<1>2. SessionTyped' /\ LoaderInv' /\ Points' => SessionInv'
  BY DEF SessionInv, Points
<1>3. ASSUME UNCHANGED vars PROVE LoaderInv'
  BY <1>1, <1>3, LoaderStep
<1>w. ASSUME sender' = [sender EXCEPT !.waiting = TRUE], file' = file,
             fresh' \in BOOLEAN
      PROVE  SessionTyped' /\ Stands
  BY <1>1, <1>w, SenderTyped DEF SessionTyped, Stands
<1>u. ASSUME UNCHANGED <<sender, file>>, fresh' \in BOOLEAN
      PROVE  SessionTyped' /\ Stands
  BY <1>1, <1>u DEF SessionTyped, Stands
<1>4. CASE Loader
  <2>1. fresh' \in BOOLEAN
    BY <1>1, <1>4 DEF Loader, SessionTyped
  <2>2. LoaderInv'
    BY <1>1, <1>4, LoaderStep DEF Loader, Next
  <2> QED BY <1>2, <1>4, <1>u, <2>1, <2>2, LoaderPoints DEF Loader
<1>5. CASE Deliver
  <2>1. fresh' \in BOOLEAN
    BY <1>5 DEF Deliver
  <2> QED BY <1>2, <1>5, <1>w, <2>1, DeliverPoints DEF Deliver, Sends
<1>6. CASE Lose
  BY <1>1, <1>2, <1>3, <1>6, <1>w, StillPoints DEF Lose, Sends
<1>7. CASE Garble
  <2>1. SessionTyped' /\ Stands /\ Rcv_error /\ sender.at # "start"
    BY <1>7, <1>w DEF Garble, Sends
  <2> QED BY <1>2, <2>1, ErrorPoints
<1>8. CASE Silence
  <2>1. SessionTyped' /\ Stands /\ Rcv_timeout
    BY <1>8, <1>u DEF Silence
  <2> QED BY <1>2, <2>1, ErrorPoints
<1>9. CASE LoseAnswer
  BY <1>1, <1>2, <1>3, <1>9, <1>u, StillPoints DEF LoseAnswer
<1>10. CASE ReadAnswer
  BY <1>2, <1>3, <1>10, AnswerPoints DEF ReadAnswer
<1>11. CASE UNCHANGED svars
  BY <1>1, <1>2, <1>3, <1>11, <1>u, StillPoints DEF svars, SessionTyped
<1> QED BY <1>4, <1>5, <1>6, <1>7, <1>8, <1>9, <1>10, <1>11 DEF SessionNext

LEMMA InitSession == SessionInit => SessionInv
<1> SUFFICES ASSUME SessionInit PROVE SessionInv
  OBVIOUS
<1>1. SessionTyped
  <2>1. 0 \in 0 .. SeqMod - 1
    BY LengthsAssumption, SessionAssumption
  <2> QED BY <2>1 DEF SessionInit, SessionTyped
<1>2. LoaderInv
  BY InitLoader DEF SessionInit
<1>3. AtStart
  <2>1. pc = "boot" /\ ram = Reset
    BY DEF SessionInit, Init
  <2>2. DataOf(ram, file.img) /\ ram.packets_cnt = 0
    BY <2>1, BlankUnits DEF Reset
  <2> QED BY <2>1, <2>2 DEF SessionInit, AtStart
<1> QED BY <1>1, <1>2, <1>3 DEF SessionInit, SessionInv, AtFirst, AtData, AtEnd

\* A sender that was told the transfer succeeded has its image complete in
\* flash with its record, however many packets and answers were lost and
\* whether or not the flash obeyed (Y_Loader.c:114-125, 415-446).
THEOREM SuccessStored == SessionSpec => []SuccessIsStored
<1>1. SessionInv => SuccessIsStored
  BY DEF SessionInv, AtEnd, SuccessIsStored
<1> QED BY <1>1, InitSession, SessionStep, PTL DEF SessionSpec

=============================================================================
