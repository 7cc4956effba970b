----------------------------- MODULE Bootloader -----------------------------
(***************************************************************************)
(* The bootloader: Main.c decides whether to start the application,        *)
(* Y_Loader.c receives an image by YMODEM and flash_FTFL.c erases and      *)
(* programs.  Power may fail at any step, in the middle of a flash command *)
(* too.  Sizes and addresses are counted in units, the data of a 128-byte  *)
(* packet; the flash is the program area, whose last unit holds the boot   *)
(* record.                                                                 *)
(***************************************************************************)
EXTENDS Integers, Sequences

CONSTANTS
  Images,       \* firmware images; one stands for its MD5 sum as well
  Size,         \* orig_img_size of each, in units
  Compressed,   \* the images with compress_flag set
  Files,        \* what may be sent: images, encrypted or not
  Blank,        \* not an image
  SmallLen, BigLen,     \* data of a packet that starts with SOH and with STX
  BlockLen,     \* HEADER_BLOCK_SZ
  SectorLen, Sectors,   \* ERASE_SECTOR_SIZE, MAX_SECTOR_NUM
  SeqMod,       \* packet numbers are bytes
  MaxErrors,    \* MAX_ERRORS
  SentSizes,    \* what the size field of a first packet may say
  FlashFaults   \* whether an erase or program command may fail

ASSUME ImagesAssumption ==
  /\ Size \in [Images -> Nat] /\ Compressed \subseteq Images
  /\ Blank \notin Images
  /\ Files \subseteq [img : Images, enc : BOOLEAN]

ASSUME LengthsAssumption ==
  /\ SmallLen \in Nat \ {0} /\ BigLen \in Nat \ {0} /\ BlockLen \in Nat \ {0}
  /\ SectorLen \in Nat \ {0} /\ Sectors \in Nat \ {0}
  /\ SeqMod \in Nat \ {0} /\ MaxErrors \in Nat
  /\ SentSizes \subseteq Nat /\ FlashFaults \in BOOLEAN

VARIABLES
  pc,           \* where the program is
  ram,          \* its variables
  flash,        \* the unit in each place of the program area
  reply,        \* the bytes of the last Send_byte calls
  worn          \* an erase command has failed; a history variable

vars == <<pc, ram, flash, reply, worn>>

-----------------------------------------------------------------------------

(***************************************************************************)
(* A unit of data is known by the image and its place in the file, and may *)
(* be encrypted.  The file of an image is a header block, which ends with  *)
(* the boot record, and the image itself.                                  *)
(***************************************************************************)
Unit == [img : Images \cup {Blank}, n : Nat, enc : BOOLEAN]

Erased == [img |-> Blank, n |-> 0, enc |-> FALSE]
Junk == [img |-> Blank, n |-> 1, enc |-> FALSE]
AES_init_vector == [img |-> Blank, n |-> 2, enc |-> FALSE]

FileLen(i) == BlockLen + Size[i]
FileUnit(i, n, enc) ==
  IF n <= FileLen(i) THEN [img |-> i, n |-> n, enc |-> enc] ELSE Junk

BootRecord(i) == [img |-> i, n |-> BlockLen, enc |-> FALSE]
HasMagic(u) == u.img \in Images /\ u = BootRecord(u.img)

FlashLen == SectorLen * Sectors
RecordAddr == FlashLen - 1
Sector(s) == (s * SectorLen) .. (s * SectorLen + SectorLen - 1)

\* The comparison of MD5 sums: the image is in flash from its first unit to
\* its last.
Md5Matches(fl, i) ==
  /\ Size[i] <= FlashLen
  /\ \A a \in 0 .. Size[i] - 1 :
       fl[a] = [img |-> i, n |-> BlockLen + a + 1, enc |-> FALSE]

Stored(fl) ==
  IF HasMagic(fl[RecordAddr]) /\ Md5Matches(fl, fl[RecordAddr].img)
    THEN fl[RecordAddr].img ELSE Blank

-----------------------------------------------------------------------------

\* What a file name stands for.
File == [img : Images \cup {Blank}, enc : BOOLEAN]
NoFile == [img |-> Blank, enc |-> FALSE]

Reset == [
  session_begin |-> FALSE, errors |-> 0, packets_cnt |-> 0,
  file_done |-> FALSE, file_remainder |-> 0, odd |-> FALSE,
  blocks_cnt |-> 0, indx_in_block |-> 0, chank_size |-> 0, addr |-> 0,
  sector |-> 0, boot_encrypted |-> FALSE, chain |-> Junk,
  block |-> [k \in 1 .. BlockLen |-> Junk], boot_rec1 |-> Junk,
  pack |-> <<>>, damaged |-> FALSE, file_name |-> NoFile]

Factory == [a \in 0 .. FlashLen - 1 |-> Erased]

Shipped(i) ==
  [a \in 0 .. FlashLen - 1 |->
     IF a = RecordAddr THEN BootRecord(i)
     ELSE IF a < Size[i]
       THEN [img |-> i, n |-> BlockLen + a + 1, enc |-> FALSE] ELSE Erased]

Init ==
  /\ pc = "boot" /\ ram = Reset /\ reply = <<>> /\ worn = FALSE
  /\ \/ flash = Factory
     \/ \E i \in Images : Size[i] < RecordAddr /\ flash = Shipped(i)

-----------------------------------------------------------------------------

\* What a session leaves to the next: the other variables are written
\* before they are read again.
Remaining(r) ==
  [Reset EXCEPT !.block = r.block, !.boot_encrypted = r.boot_encrypted]

(***************************************************************************)
(* main: the programmer on the serial line may ask for a session in the    *)
(* first 0.1 s; otherwise the image in flash is started if it is complete. *)
(***************************************************************************)
StartSession ==
  /\ pc' = "wait" /\ reply' = <<"C">>
  /\ ram' = Remaining(ram)
  /\ UNCHANGED <<flash, worn>>

Boot_programmer == pc = "boot" /\ StartSession

Boot_alone ==
  /\ pc = "boot" /\ pc' = "check" /\ reply' = <<"ACK">>
  /\ UNCHANGED <<ram, flash, worn>>

\* Mutant: a record is enough, the MD5 sum is not compared.
Mut_Check_and_Jump_to_App ==
  /\ pc = "check" /\ HasMagic(flash[RecordAddr])
  /\ pc' = "app" /\ UNCHANGED <<ram, flash, reply, worn>>
Check_and_Jump_to_App ==
  /\ pc = "check" /\ Stored(flash) # Blank
  /\ pc' = "app" /\ UNCHANGED <<ram, flash, reply, worn>>

Check_failed == pc = "check" /\ Stored(flash) = Blank /\ StartSession

-----------------------------------------------------------------------------

(***************************************************************************)
(* Ymodem_programmator, one action for each thing Ymodem_packets_receiving *)
(* may return.                                                             *)
(***************************************************************************)
Answer(r, bytes) ==
  pc' = "wait" /\ ram' = r /\ reply' = bytes /\ UNCHANGED worn

Leave(r, bytes) ==
  pc' = "check" /\ ram' = Remaining(r) /\ reply' = bytes /\ UNCHANGED worn

ABORT_SESSION(r) == Leave(r, <<"CA", "CA">>)

\* RCV_TIMEOUT
Rcv_timeout == pc = "wait" /\ Answer(ram, <<"C">>) /\ UNCHANGED flash

\* RCV_ERROR: an unknown byte, a packet that breaks off, or one whose
\* number and its complement do not agree.
Rcv_error ==
  /\ pc = "wait" /\ UNCHANGED flash
  /\ LET r == [ram EXCEPT !.errors = @ + (IF ram.session_begin THEN 1 ELSE 0)]
     IN  IF r.errors > MaxErrors THEN Leave(r, <<"CA", "CA">>)
                                 ELSE Answer(r, <<"C">>)

\* RCV_ABORT: the keys A and Esc.
Rcv_abort == pc = "wait" /\ Leave(ram, <<"CA", "CA">>) /\ UNCHANGED flash

Rcv_CA_CA ==
  /\ pc = "wait" /\ UNCHANGED flash
  /\ Leave(ram, <<"ACK">>)

Rcv_EOT ==
  /\ pc = "wait" /\ UNCHANGED flash
  /\ IF ram.file_done
       THEN Answer([ram EXCEPT !.errors = 0, !.file_done = FALSE,
                               !.packets_cnt = 0], <<"NAK">>)
       ELSE Answer([ram EXCEPT !.errors = 0], <<"ACK", "C">>)

\* Mutant: room is left for neither the bootloader nor the record.
Mut_TooLong(size) == size > FlashLen + BlockLen
TooLong(size) == size > RecordAddr

\* The packet with number zero that begins with two zero bytes ends the
\* session.  The rest depends on the number of packets received so far.
Rcv_packet(p) ==
  /\ pc = "wait" /\ UNCHANGED flash
  /\ LET r == [ram EXCEPT !.errors = 0]
         inSequence == p.seq = ram.packets_cnt % SeqMod
         last == p.empty /\ p.seq = 0
     IN  \/ ~inSequence /\ Answer(r, <<"NAK">>)
         \/ inSequence /\ last /\ ABORT_SESSION(r)
         \/ /\ inSequence /\ ~last /\ ram.packets_cnt = 0
            /\ IF TooLong(p.size) THEN ABORT_SESSION(r)
               ELSE Answer([r EXCEPT !.session_begin = TRUE, !.packets_cnt = 1,
                                     !.blocks_cnt = 0, !.indx_in_block = 0,
                                     !.file_name = p.file,
                                     !.file_remainder = p.size, !.odd = p.odd],
                           <<"ACK", "C">>)
         \/ /\ inSequence /\ ~last /\ ram.packets_cnt # 0
            /\ pc' = "pack"
            /\ ram' = [r EXCEPT !.pack = p.units, !.damaged = p.damaged]
            /\ UNCHANGED <<reply, worn>>

-----------------------------------------------------------------------------

(***************************************************************************)
(* Ymodem_pack_prg_to_FLASH.  A packet is taken apart into chunks, and a   *)
(* full block, or the last of the file, is written.                        *)
(***************************************************************************)
Least(a, b) == IF a <= b THEN a ELSE b

\* Mutant: the padding of the last packet is taken for data.
Mut_Copied ==
  LET chunk == Least(BlockLen - ram.indx_in_block, Len(ram.pack))
  IN  [ram EXCEPT
         !.chank_size = chunk,
         !.block = [k \in 1 .. BlockLen |->
                      IF k <= chunk THEN ram.pack[k] ELSE ram.block[k]],
         !.indx_in_block = @ + chunk,
         !.file_remainder = @ - chunk,
         !.pack = SubSeq(@, chunk + 1, Len(@))]

\* The block and the counters after the memcpy, which always goes to the
\* start of the block.
Copied ==
  LET chunk == Least(Least(BlockLen - ram.indx_in_block, Len(ram.pack)),
                     ram.file_remainder)
  IN  [ram EXCEPT
         !.chank_size = chunk,
         !.block = [k \in 1 .. BlockLen |->
                      IF k <= chunk THEN ram.pack[k] ELSE ram.block[k]],
         !.indx_in_block = @ + chunk,
         !.file_remainder = @ - chunk,
         !.pack = SubSeq(@, chunk + 1, Len(@))]

BlockReady(r) == r.file_remainder = 0 \/ r.indx_in_block = BlockLen

\* The end of the do-while loop.
NextChunk(r) ==
  IF r.pack = <<>>
    THEN Answer([r EXCEPT !.packets_cnt = @ + 1], <<"ACK">>)
    ELSE pc' = "pack" /\ ram' = r /\ UNCHANGED <<reply, worn>>

Pack_gather ==
  pc = "pack" /\ ~BlockReady(Copied) /\ NextChunk(Copied) /\ UNCHANGED flash

\* Decrypt_block for the first n units: cipher block chaining.
Decrypted(r, n) ==
  [r EXCEPT
     !.block = [k \in 1 .. BlockLen |->
       IF k > n THEN r.block[k]
       ELSE LET u == r.block[k]
                before == IF k = 1 THEN r.chain ELSE r.block[k - 1]
                chained == IF u.n = 1 THEN AES_init_vector
                           ELSE [u EXCEPT !.n = @ - 1]
            IN  IF u.enc /\ before = chained THEN [u EXCEPT !.enc = FALSE]
                ELSE Junk],
     !.chain = r.block[n]]

\* The first block of a file: without a boot record it is decrypted and
\* looked at again.
Header(r) ==
  LET fresh == [r EXCEPT !.chain = AES_init_vector]
      plain == HasMagic(r.block[BlockLen])
      open == IF plain THEN fresh ELSE Decrypted(fresh, BlockLen)
      found == [open EXCEPT !.boot_rec1 = open.block[BlockLen]]
  IN  IF plain \/ ~HasMagic(found.boot_rec1) THEN found
      ELSE [found EXCEPT !.boot_encrypted = TRUE]

Acceptable(u) ==
  HasMagic(u) /\ Size[u.img] <= RecordAddr /\ u.img \notin Compressed

Pack_header ==
  /\ pc = "pack" /\ BlockReady(Copied) /\ Copied.blocks_cnt = 0
  /\ UNCHANGED flash
  /\ IF Acceptable(Header(Copied).boot_rec1)
       THEN /\ pc' = "erase_record" /\ ram' = Header(Copied)
            /\ UNCHANGED <<reply, worn>>
       ELSE ABORT_SESSION(Header(Copied))

\* A block of image data.  Decrypt_block decrypts once even if its length
\* is zero.
Pack_data ==
  /\ pc = "pack" /\ BlockReady(Copied) /\ Copied.blocks_cnt # 0
  /\ pc' = "program"
  /\ ram' = IF Copied.boot_encrypted
              THEN Decrypted(Copied, IF Copied.chank_size = 0 THEN 1
                                     ELSE Copied.chank_size)
              ELSE Copied
  /\ UNCHANGED <<flash, reply, worn>>

BlockDone(r) ==
  IF r.file_remainder = 0
    THEN pc' = "finish" /\ ram' = r /\ UNCHANGED <<reply, worn>>
    ELSE NextChunk(r)

-----------------------------------------------------------------------------

(***************************************************************************)
(* The flash.  The return codes of its commands are ignored.  What was     *)
(* programmed is compared with the block, what was erased is not looked    *)
(* at.                                                                     *)
(***************************************************************************)
EraseSector(s) ==
  \/ /\ flash' = [a \in DOMAIN flash |->
                    IF a \in Sector(s) THEN Erased ELSE flash[a]]
     /\ UNCHANGED worn
  \/ FlashFaults /\ worn' = TRUE /\ UNCHANGED flash

Erase_record ==
  /\ pc = "erase_record" /\ EraseSector(Sectors - 1)
  /\ pc' = "erase" /\ ram' = [ram EXCEPT !.sector = 0] /\ UNCHANGED reply

\* Mutant: the last sector of the image is not counted if it is not full.
Mut_EraseCount == Least(Size[ram.boot_rec1.img] \div SectorLen, Sectors - 1)

\* The sectors of the image, without the last one of the flash.
EraseCount ==
  Least((Size[ram.boot_rec1.img] + SectorLen - 1) \div SectorLen, Sectors - 1)

Erase_sector ==
  /\ pc = "erase" /\ ram.sector < EraseCount /\ EraseSector(ram.sector)
  /\ ram' = [ram EXCEPT !.sector = @ + 1] /\ UNCHANGED <<pc, reply>>

Erase_done ==
  /\ pc = "erase" /\ ram.sector >= EraseCount
  /\ BlockDone([ram EXCEPT !.addr = 0, !.indx_in_block = 0, !.blocks_cnt = 1])
  /\ UNCHANGED flash

\* Programming can only clear bits.
Programmed(fl, addr, units) ==
  [a \in DOMAIN fl |->
     IF a \notin addr .. addr + Len(units) - 1 THEN fl[a]
     ELSE IF fl[a] = Erased \/ fl[a] = units[a - addr + 1]
       THEN units[a - addr + 1] ELSE Junk]

Chunk == SubSeq(ram.block, 1, ram.chank_size)

\* The memcmp after programming.  Junk over junk does not give the same.
Verified(new) ==
  \A k \in 1 .. ram.chank_size :
    /\ new[ram.addr + k - 1] = ram.block[k]
    /\ ram.block[k] = Junk => flash[ram.addr + k - 1] = Erased

\* A repeated last packet counts on; the code only asks whether it is zero.
MaxBlocks == FlashLen

ProgramAndVerify(new) ==
  /\ flash' = new
  /\ IF Verified(new)
       THEN BlockDone([ram EXCEPT !.addr = @ + ram.chank_size,
                                  !.indx_in_block = 0,
                                  !.blocks_cnt = Least(@ + 1, MaxBlocks)])
       ELSE ABORT_SESSION(ram)

\* Flash_ByteProgram counts words down by two.  With an odd number of words
\* the counter passes zero, and the loop goes on to the end of the flash or
\* to the end of the RAM it reads, which is a fault.
Overruns == ram.chank_size > 0 /\ ram.file_remainder = 0 /\ ram.odd

Overrun(end) ==
  [a \in DOMAIN flash |->
     IF a \in ram.addr + ram.chank_size .. end - 1 THEN Junk
     ELSE Programmed(flash, ram.addr, Chunk)[a]]

Program_block ==
  /\ pc = "program" /\ ~Overruns
  /\ ProgramAndVerify(Programmed(flash, ram.addr, Chunk))

Program_fails == pc = "program" /\ FlashFaults /\ ProgramAndVerify(flash)

Program_overrun ==
  /\ pc = "program" /\ Overruns
  /\ \/ ProgramAndVerify(Overrun(FlashLen))
     \/ /\ pc' = "fault" /\ UNCHANGED <<ram, reply, worn>>
        /\ \E end \in ram.addr .. FlashLen : flash' = Overrun(end)

-----------------------------------------------------------------------------

(***************************************************************************)
(* Finish_file_program: the image is compared with the MD5 sum of the      *)
(* record, and the record is written and compared.                         *)
(***************************************************************************)
\* Mutant: the MD5 sum is not compared.
Mut_Finish_check ==
  /\ pc = "finish" /\ UNCHANGED flash
  /\ IF ram.packets_cnt >= 2
       THEN pc' = "write_record" /\ UNCHANGED <<ram, reply, worn>>
       ELSE ABORT_SESSION(ram)

Finish_check ==
  /\ pc = "finish" /\ UNCHANGED flash
  /\ IF ram.packets_cnt >= 2 /\ Md5Matches(flash, ram.boot_rec1.img)
       THEN pc' = "write_record" /\ UNCHANGED <<ram, reply, worn>>
       ELSE ABORT_SESSION(ram)

\* Mutant: the record is not read back.
Mut_Finish_record ==
  /\ pc = "write_record"
  /\ \/ flash' = Programmed(flash, RecordAddr, <<ram.boot_rec1>>)
     \/ FlashFaults /\ UNCHANGED flash
  /\ Answer([ram EXCEPT !.addr = RecordAddr, !.file_done = TRUE], <<"ACK">>)

\* Mutant: the last packet is acknowledged before the record is written.
Mut_Finish_record_skip ==
  /\ pc = "write_record" /\ UNCHANGED flash
  /\ Answer([ram EXCEPT !.addr = RecordAddr, !.file_done = TRUE], <<"ACK">>)

Finish_record ==
  /\ pc = "write_record"
  /\ \/ flash' = Programmed(flash, RecordAddr, <<ram.boot_rec1>>)
     \/ FlashFaults /\ UNCHANGED flash
  /\ IF flash'[RecordAddr] = ram.boot_rec1
       THEN Answer([ram EXCEPT !.addr = RecordAddr, !.file_done = TRUE],
                   <<"ACK">>)
       ELSE ABORT_SESSION(ram)

-----------------------------------------------------------------------------

(***************************************************************************)
(* Power fails.  A sector being erased keeps its contents, loses them or   *)
(* is left in between; of the units being programmed the first few are     *)
(* there and the next one may be damaged.                                  *)
(***************************************************************************)
PartlyErased(s) ==
  {flash} \cup {[a \in DOMAIN flash |->
                   IF a \in Sector(s) THEN u ELSE flash[a]] : u \in {Erased, Junk}}

PartlyProgrammed(addr, units) ==
  {Programmed(flash, addr, SubSeq(units, 1, k)) : k \in 0 .. Len(units)}
    \cup {[Programmed(flash, addr, SubSeq(units, 1, k)) EXCEPT ![addr + k] = Junk] :
            k \in 0 .. Len(units) - 1}

Interrupted ==
  CASE pc = "erase_record" -> PartlyErased(Sectors - 1)
    [] pc = "erase" /\ ram.sector < EraseCount -> PartlyErased(ram.sector)
    [] pc = "program" -> PartlyProgrammed(ram.addr, Chunk)
                   \cup {Overrun(end) : end \in
                            IF Overruns THEN ram.addr .. FlashLen ELSE {}}
    [] pc = "write_record" -> PartlyProgrammed(RecordAddr, <<ram.boot_rec1>>)
    [] OTHER -> {flash}

PowerLoss ==
  /\ pc' = "boot" /\ ram' = Reset /\ reply' = <<>>
  /\ flash' \in Interrupted /\ UNCHANGED worn

-----------------------------------------------------------------------------

Program ==
  \/ Boot_programmer \/ Boot_alone \/ Check_and_Jump_to_App \/ Check_failed
  \/ Pack_gather \/ Pack_header \/ Pack_data
  \/ Erase_record \/ Erase_sector \/ Erase_done
  \/ Program_block \/ Program_fails \/ Program_overrun
  \/ Finish_check \/ Finish_record

\* The parts of a packet that are looked at depend on what is expected: a
\* first packet may say any size.
FirstPackets ==
  [seq : 0 .. SeqMod - 1, empty : BOOLEAN, size : SentSizes, odd : BOOLEAN,
   file : Files, units : {<<>>}, damaged : {FALSE}]

\* A later packet brings the data of the file that follow what was received,
\* or these data damaged on the way.
Data(len) ==
  LET at == ram.blocks_cnt * BlockLen + ram.indx_in_block
  IN  [k \in 1 .. len |-> FileUnit(ram.file_name.img, at + k, ram.file_name.enc)]

NextPackets ==
  UNION {
    [seq : 0 .. SeqMod - 1, empty : {len = SmallLen, FALSE}, damaged : {FALSE},
     units : {Data(len)}]
    \cup
    [seq : 0 .. SeqMod - 1, empty : {FALSE}, damaged : {TRUE},
     units : {[k \in 1 .. len |-> Junk]}]
    : len \in {SmallLen, BigLen}}

Arrival ==
  \E p \in IF ram.packets_cnt = 0 THEN FirstPackets ELSE NextPackets :
    Rcv_packet(p)

Line ==
  Rcv_timeout \/ Rcv_error \/ Rcv_abort \/ Rcv_CA_CA \/ Rcv_EOT \/ Arrival

Next == Program \/ Line \/ PowerLoss

Spec == Init /\ [][Next]_vars

-----------------------------------------------------------------------------

RamType == [
  session_begin : BOOLEAN, errors : 0 .. MaxErrors + 1, packets_cnt : Nat,
  file_done : BOOLEAN, file_remainder : 0 .. RecordAddr, odd : BOOLEAN,
  blocks_cnt : Nat, indx_in_block : 0 .. BlockLen, chank_size : 0 .. BlockLen,
  addr : Nat, sector : 0 .. Sectors, boot_encrypted : BOOLEAN, chain : Unit,
  block : [1 .. BlockLen -> Unit], boot_rec1 : Unit, pack : Seq(Unit),
  damaged : BOOLEAN, file_name : File]

\* The variables keep their types; the index of the block and the remainder
\* stay in range (Y_Loader.c:460-466).
TypeOK ==
  /\ pc \in {"boot", "check", "app", "wait", "pack", "erase_record", "erase",
            "program", "finish", "write_record", "fault"}
  /\ ram \in RamType
  /\ flash \in [0 .. FlashLen - 1 -> Unit]
  /\ reply \in Seq({"C", "ACK", "NAK", "CA"}) /\ worn \in BOOLEAN

\* Ymodem_pack_prg_to_FLASH programs nothing at or behind the place of the
\* boot record, however long the sender says its file is.
RecordNotOverwritten ==
  pc = "program" => ram.addr + ram.chank_size <= RecordAddr

\* While the loader would answer EOT with NAK, "programming is over", the
\* image whose header it received is complete in flash with its record:
\* repeated last packets and failing commands change nothing about that.
DoneMeansStored == ram.file_done => Stored(flash) = ram.boot_rec1.img

\* A boot record in flash has its image before it, at every point where the
\* power may fail: the record goes first and comes last.  (An erase command
\* that fails leaves the old record in place; the MD5 sum is for that.)
RecordMeansImage ==
  HasMagic(flash[RecordAddr]) /\ ~worn
    => Md5Matches(flash, flash[RecordAddr].img)

\* The image whose header was accepted in this session.
Loading ==
  IF pc \in {"erase_record", "erase"} \/ ram.blocks_cnt > 0
    THEN ram.boot_rec1.img ELSE Blank

\* What was jumped to, a stored image or whatever the flash holds.
Running ==
  IF pc # "app" THEN Blank
  ELSE IF Stored(flash) # Blank THEN Stored(flash) ELSE Junk

Store == INSTANCE ImageStore WITH
  None <- Blank, stored <- Stored(flash), loading <- Loading,
  running <- Running

\* The bootloader keeps the promises of ImageStore.
ImplementsImageStore == Store!Spec

=============================================================================
