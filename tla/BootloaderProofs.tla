-------------------------- MODULE BootloaderProofs --------------------------
(***************************************************************************)
(* Proofs about Bootloader, for any images, lengths, sectors and packets:  *)
(* types, the room before the boot record, what a stored record means, and *)
(* that the bootloader implements ImageStore.                              *)
(***************************************************************************)
EXTENDS Bootloader, SequenceTheorems, TLAPS

-----------------------------------------------------------------------------
\* The lengths as the provers need them.
LEMMA Lengths ==
  /\ FlashLen \in Nat /\ FlashLen > 0 /\ RecordAddr \in Nat
  /\ RecordAddr = FlashLen - 1 /\ Sectors \in Nat /\ Sectors > 0
  /\ BlockLen \in Nat /\ BlockLen > 0 /\ MaxErrors \in Nat
  /\ SmallLen \in Nat /\ BigLen \in Nat
<1>1. SectorLen \in Nat /\ SectorLen > 0 /\ Sectors \in Nat /\ Sectors > 0
  BY LengthsAssumption
<1>2. SectorLen * Sectors \in Nat /\ SectorLen * Sectors > 0
  BY <1>1
<1> QED BY <1>1, <1>2, LengthsAssumption DEF FlashLen, RecordAddr

\* Where the flash has room for a boot record and what a unit is.
LEMMA Units ==
  /\ Erased \in Unit /\ Junk \in Unit /\ AES_init_vector \in Unit
  /\ \A i \in Images : BootRecord(i) \in Unit
  /\ \A i, n, enc : i \in Images \cup {Blank} /\ n \in Nat /\ enc \in BOOLEAN
       => FileUnit(i, n, enc) \in Unit
BY Lengths DEF Unit, Erased, Junk, AES_init_vector, BootRecord, FileUnit

\* Nothing of a fresh session is out of range.
LEMMA ResetTyped == Reset \in RamType
BY Lengths, Units DEF Reset, RamType, File, NoFile

LEMMA RemainingTyped ==
  ASSUME NEW r \in RamType
  PROVE  /\ Remaining(r) \in RamType
         /\ Remaining(r).blocks_cnt = 0 /\ Remaining(r).file_done = FALSE
BY ResetTyped DEF Remaining, RamType, Reset

\* A chunk fits into the block, the packet and what is left of the file.
Chunks(r) == Least(Least(BlockLen - r.indx_in_block, Len(r.pack)), r.file_remainder)

LEMMA ChunkFits ==
  ASSUME NEW r \in RamType
  PROVE  /\ Chunks(r) \in Nat /\ Chunks(r) <= BlockLen - r.indx_in_block
         /\ Chunks(r) <= Len(r.pack) /\ Chunks(r) <= r.file_remainder
<1>1. r.indx_in_block \in Nat /\ r.indx_in_block <= BlockLen
  BY Lengths DEF RamType
<1>2. Len(r.pack) \in Nat
  BY DEF RamType
<1>3. r.file_remainder \in Nat
  BY Lengths DEF RamType
<1> QED BY <1>1, <1>2, <1>3, Lengths DEF Chunks, Least

\* What a chunk taken from the packet changes and what it leaves.
LEMMA CopiedTyped ==
  ASSUME ram \in RamType
  PROVE  /\ Copied \in RamType
         /\ Copied.file_remainder = ram.file_remainder - Copied.chank_size
         /\ Copied.chank_size <= ram.file_remainder
         /\ Copied.blocks_cnt = ram.blocks_cnt /\ Copied.addr = ram.addr
         /\ Copied.packets_cnt = ram.packets_cnt
         /\ Copied.file_done = ram.file_done
         /\ Copied.boot_rec1 = ram.boot_rec1
<1> DEFINE c == Chunks(ram)
<1>1. /\ c \in Nat /\ c <= BlockLen - ram.indx_in_block
      /\ c <= Len(ram.pack) /\ c <= ram.file_remainder
  BY ChunkFits
<1>2. [k \in 1 .. BlockLen |-> IF k <= c THEN ram.pack[k] ELSE ram.block[k]]
        \in [1 .. BlockLen -> Unit]
  <2>1. ASSUME NEW k \in 1 .. BlockLen, k <= c PROVE ram.pack[k] \in Unit
    <3>1. ram.pack \in Seq(Unit)
      BY DEF RamType
    <3>2. k \in 1 .. Len(ram.pack)
      BY <1>1, <2>1, <3>1
    <3> QED BY <3>1, <3>2
  <2>2. ram.block \in [1 .. BlockLen -> Unit]
    BY DEF RamType
  <2> QED BY <2>1, <2>2
<1>3. SubSeq(ram.pack, c + 1, Len(ram.pack)) \in Seq(Unit)
  BY <1>1 DEF RamType
<1>4. c \in 0 .. BlockLen /\ ram.indx_in_block + c \in 0 .. BlockLen
      /\ ram.file_remainder - c \in 0 .. RecordAddr
  <2>1. ram.indx_in_block \in 0 .. BlockLen /\ ram.file_remainder \in 0 .. RecordAddr
    BY DEF RamType
  <2>2. BlockLen \in Nat /\ RecordAddr \in Nat
    BY Lengths
  <2> HIDE DEF c
  <2> QED BY <1>1, <2>1, <2>2
<1>5. Copied = [ram EXCEPT
         !.chank_size = c,
         !.block = [k \in 1 .. BlockLen |->
                      IF k <= c THEN ram.pack[k] ELSE ram.block[k]],
         !.indx_in_block = @ + c,
         !.file_remainder = @ - c,
         !.pack = SubSeq(@, c + 1, Len(@))]
  BY DEF Copied, Chunks
<1> HIDE DEF c
<1> QED BY <1>1, <1>2, <1>3, <1>4, <1>5 DEF RamType

\* Decryption changes the block and the chain.
LEMMA DecryptedTyped ==
  ASSUME NEW r \in RamType, NEW n \in 1 .. BlockLen
  PROVE  /\ Decrypted(r, n) \in RamType
         /\ \E b \in [1 .. BlockLen -> Unit], ch \in Unit :
              Decrypted(r, n) = [r EXCEPT !.block = b, !.chain = ch]
<1> DEFINE b == [k \in 1 .. BlockLen |->
       IF k > n THEN r.block[k]
       ELSE LET u == r.block[k]
                before == IF k = 1 THEN r.chain ELSE r.block[k - 1]
                chained == IF u.n = 1 THEN AES_init_vector
                           ELSE [u EXCEPT !.n = @ - 1]
            IN  IF u.enc /\ before = chained THEN [u EXCEPT !.enc = FALSE]
                ELSE Junk]
<1>1. r.block \in [1 .. BlockLen -> Unit]
  BY DEF RamType
<1>2. \A u \in Unit : [u EXCEPT !.enc = FALSE] \in Unit
  BY DEF Unit
<1>3. b \in [1 .. BlockLen -> Unit]
  BY <1>1, <1>2, Units
<1>4. r.block[n] \in Unit
  BY <1>1
<1>5. Decrypted(r, n) = [r EXCEPT !.block = b, !.chain = r.block[n]]
  BY DEF Decrypted
<1> HIDE DEF b
<1>6. [r EXCEPT !.block = b, !.chain = r.block[n]] \in RamType
  BY <1>3, <1>4 DEF RamType
<1> QED BY <1>3, <1>4, <1>5, <1>6

\* What every action between packet and flash leaves alone.
Counters(r) ==
  <<r.file_remainder, r.packets_cnt, r.file_done, r.blocks_cnt, r.addr,
    r.chank_size, r.odd>>

LEMMA DecryptedCounters ==
  ASSUME NEW r \in RamType, NEW n \in 1 .. BlockLen
  PROVE  /\ Counters(Decrypted(r, n)) = Counters(r)
         /\ Decrypted(r, n).boot_rec1 = r.boot_rec1
<1>1. PICK b \in [1 .. BlockLen -> Unit], ch \in Unit :
        Decrypted(r, n) = [r EXCEPT !.block = b, !.chain = ch]
  BY DecryptedTyped
<1> QED BY <1>1 DEF Counters, RamType

\* The header is looked for in the block, as it is or decrypted.
LEMMA HeaderTyped ==
  ASSUME NEW r \in RamType
  PROVE  Header(r) \in RamType /\ Counters(Header(r)) = Counters(r)
<1> DEFINE fresh == [r EXCEPT !.chain = AES_init_vector]
           plain == HasMagic(r.block[BlockLen])
           open == IF plain THEN fresh ELSE Decrypted(fresh, BlockLen)
           found == [open EXCEPT !.boot_rec1 = open.block[BlockLen]]
<1>1. fresh \in RamType /\ Counters(fresh) = Counters(r)
  BY Units DEF RamType, Counters
<1>2. BlockLen \in 1 .. BlockLen
  BY Lengths
<1>3. open \in RamType /\ Counters(open) = Counters(r)
  <2> HIDE DEF fresh, plain
  <2> QED BY <1>1, <1>2, DecryptedTyped, DecryptedCounters
<1>4. found \in RamType /\ Counters(found) = Counters(r)
  <2> HIDE DEF open
  <2> QED BY <1>2, <1>3 DEF RamType, Counters
<1>5. Header(r) = IF plain \/ ~HasMagic(found.boot_rec1) THEN found
                  ELSE [found EXCEPT !.boot_encrypted = TRUE]
  BY DEF Header
<1> HIDE DEF plain, found
<1> QED BY <1>4, <1>5 DEF RamType, Counters

-----------------------------------------------------------------------------
\* What the flash may hold.
Contents == [0 .. FlashLen - 1 -> Unit]

LEMMA ProgrammedTyped ==
  ASSUME NEW fl \in Contents, NEW addr \in Nat, NEW units \in Seq(Unit)
  PROVE  Programmed(fl, addr, units) \in Contents
<1> SUFFICES ASSUME NEW a \in 0 .. FlashLen - 1,
                    a \in addr .. addr + Len(units) - 1
             PROVE  units[a - addr + 1] \in Unit
  BY Units DEF Programmed, Contents
<1>1. a - addr + 1 \in 1 .. Len(units)
  BY Lengths
<1> QED BY <1>1

LEMMA ChunkTyped ==
  ASSUME ram \in RamType
  PROVE  Chunk \in Seq(Unit) /\ Len(Chunk) = ram.chank_size
         /\ \A k \in 1 .. ram.chank_size : Chunk[k] = ram.block[k]
<1>1. ram.chank_size \in Nat /\ ram.chank_size <= BlockLen
      /\ ram.block \in [1 .. BlockLen -> Unit]
  BY Lengths DEF RamType
<1> QED BY <1>1, Lengths DEF Chunk

LEMMA OverrunTyped ==
  ASSUME ram \in RamType, flash \in Contents, NEW end
  PROVE  Overrun(end) \in Contents
<1>1. Programmed(flash, ram.addr, Chunk) \in Contents
  BY ChunkTyped, ProgrammedTyped DEF RamType
<1> QED BY <1>1, Units DEF Overrun, Contents

LEMMA EraseTyped ==
  ASSUME NEW s, flash \in Contents, EraseSector(s), worn \in BOOLEAN
  PROVE  flash' \in Contents /\ worn' \in BOOLEAN
BY Units DEF EraseSector, Contents

LEMMA PartlyErasedTyped ==
  ASSUME NEW s, flash \in Contents
  PROVE  PartlyErased(s) \subseteq Contents
BY Units DEF PartlyErased, Contents

LEMMA PartlyProgrammedTyped ==
  ASSUME flash \in Contents, NEW addr \in Nat, NEW units \in Seq(Unit)
  PROVE  PartlyProgrammed(addr, units) \subseteq Contents
<1>1. ASSUME NEW k \in 0 .. Len(units)
      PROVE  Programmed(flash, addr, SubSeq(units, 1, k)) \in Contents
  <2>1. SubSeq(units, 1, k) \in Seq(Unit)
    OBVIOUS
  <2> QED BY <2>1, ProgrammedTyped
<1>2. ASSUME NEW k \in 0 .. Len(units) - 1
      PROVE  [Programmed(flash, addr, SubSeq(units, 1, k))
                EXCEPT ![addr + k] = Junk] \in Contents
  <2>1. k \in 0 .. Len(units)
    OBVIOUS
  <2>2. Programmed(flash, addr, SubSeq(units, 1, k)) \in Contents
    BY <1>1, <2>1
  <2> QED BY <2>2, Units DEF Contents
<1> QED BY <1>1, <1>2 DEF PartlyProgrammed

-----------------------------------------------------------------------------
\* The record of the image being loaded was found acceptable.
Accepted ==
  pc \in {"erase_record", "erase"} \/ ram.blocks_cnt # 0
    => Acceptable(ram.boot_rec1)

Places ==
  {"boot", "check", "app", "wait", "pack", "erase_record", "erase",
   "program", "finish", "write_record", "fault"}
Replies == Seq({"C", "ACK", "NAK", "CA"})

LEMMA AnswerTyped ==
  ASSUME NEW r \in RamType, NEW bytes \in Replies, worn \in BOOLEAN,
         Answer(r, bytes) \/ Leave(r, bytes)
  PROVE  pc' \in Places /\ ram' \in RamType /\ reply' \in Replies
         /\ worn' \in BOOLEAN
BY RemainingTyped DEF Answer, Leave, Places

LEMMA BytesTyped ==
  /\ <<"C">> \in Replies /\ <<"ACK">> \in Replies /\ <<"NAK">> \in Replies
  /\ <<"CA", "CA">> \in Replies /\ <<"ACK", "C">> \in Replies
  /\ <<>> \in Replies
BY DEF Replies

LEMMA NextChunkTyped ==
  ASSUME NEW r \in RamType, worn \in BOOLEAN, reply \in Replies,
         NextChunk(r) \/ BlockDone(r)
  PROVE  pc' \in Places /\ ram' \in RamType /\ reply' \in Replies
         /\ worn' \in BOOLEAN
<1>1. [r EXCEPT !.packets_cnt = @ + 1] \in RamType
  <2>1. r.packets_cnt \in Nat /\ r.packets_cnt + 1 \in Nat
    BY DEF RamType
  <2> QED BY <2>1 DEF RamType
<1>2. CASE NextChunk(r)
  BY <1>1, <1>2, AnswerTyped, BytesTyped DEF NextChunk, Places
<1>3. CASE BlockDone(r)
  BY <1>2, <1>3 DEF BlockDone, Places
<1> QED BY <1>2, <1>3

\* The data of a packet are units, whatever the name of the file.
LEMMA DataTyped ==
  ASSUME ram \in RamType, NEW len \in Nat
  PROVE  Data(len) \in Seq(Unit)
<1> DEFINE at == ram.blocks_cnt * BlockLen + ram.indx_in_block
<1>1. at \in Nat
  <2>1. ram.blocks_cnt \in Nat /\ ram.indx_in_block \in Nat
    BY Lengths DEF RamType
  <2>2. ram.blocks_cnt * BlockLen \in Nat
    BY <2>1, Lengths
  <2> QED BY <2>1, <2>2
<1>2. ASSUME NEW k \in 1 .. len
      PROVE  FileUnit(ram.file_name.img, at + k, ram.file_name.enc) \in Unit
  <2>1. ram.file_name.img \in Images \cup {Blank} /\ ram.file_name.enc \in BOOLEAN
    BY DEF RamType, File
  <2>2. at + k \in Nat
    BY <1>1
  <2> HIDE DEF at
  <2> QED BY <2>1, <2>2, Units
<1>3. Data(len) = [k \in 1 .. len |->
        FileUnit(ram.file_name.img, at + k, ram.file_name.enc)]
  BY DEF Data
<1> HIDE DEF at
<1> QED BY <1>2, <1>3

\* What is asked of a packet: only the first one names a file.
Receivable(p) ==
  /\ p.units \in Seq(Unit) /\ p.damaged \in BOOLEAN
  /\ ram.packets_cnt = 0
       => p.size \in Nat /\ p.odd \in BOOLEAN /\ p.file \in File

LEMMA PacketTyped ==
  ASSUME ram \in RamType,
         NEW p \in IF ram.packets_cnt = 0 THEN FirstPackets ELSE NextPackets
  PROVE  Receivable(p)
<1> USE DEF Receivable
<1>1. CASE ram.packets_cnt = 0
  <2>1. /\ p.units = <<>> /\ p.damaged = FALSE /\ p.size \in SentSizes
        /\ p.odd \in BOOLEAN /\ p.file \in Files
    BY <1>1 DEF FirstPackets
  <2>2. p.size \in Nat
    BY <2>1, LengthsAssumption
  <2>3. p.file \in File
    BY <2>1, ImagesAssumption DEF File
  <2>4. <<>> \in Seq(Unit)
    OBVIOUS
  <2> QED BY <2>1, <2>2, <2>3, <2>4
<1>2. CASE ram.packets_cnt # 0
  <2> DEFINE Whole(len) ==
               [seq : 0 .. SeqMod - 1, empty : {len = SmallLen, FALSE},
                damaged : {FALSE}, units : {Data(len)}]
             Damaged(len) ==
               [seq : 0 .. SeqMod - 1, empty : {FALSE}, damaged : {TRUE},
                units : {[k \in 1 .. len |-> Junk]}]
  <2>a. ASSUME NEW len, p \in Whole(len)
        PROVE  p.damaged \in BOOLEAN /\ p.units = Data(len)
    BY <2>a
  <2>b. ASSUME NEW len, p \in Damaged(len)
        PROVE  p.damaged \in BOOLEAN /\ p.units = [k \in 1 .. len |-> Junk]
    BY <2>b
  <2>c. p \in UNION {Whole(len) \cup Damaged(len) : len \in {SmallLen, BigLen}}
    BY <1>2 DEF NextPackets
  <2>1. PICK len \in {SmallLen, BigLen} :
          p.damaged \in BOOLEAN
          /\ (p.units = Data(len) \/ p.units = [k \in 1 .. len |-> Junk])
    <3> HIDE DEF Whole, Damaged
    <3> QED BY <2>a, <2>b, <2>c
  <2>2. len \in Nat
    BY Lengths
  <2>3. [k \in 1 .. len |-> Junk] \in Seq(Unit)
    BY <2>2, Units
  <2> QED BY <1>2, <2>1, <2>2, <2>3, DataTyped
<1> QED BY <1>1, <1>2

LEMMA NoErrors ==
  ASSUME NEW r \in RamType
  PROVE  /\ [r EXCEPT !.errors = 0] \in RamType
         /\ [r EXCEPT !.errors = 0, !.file_done = FALSE, !.packets_cnt = 0]
              \in RamType
<1>1. 0 \in 0 .. MaxErrors + 1
  BY Lengths
<1> QED BY <1>1 DEF RamType

\* The variables of a session after a packet or none.
LEMMA PacketReceived ==
  ASSUME TypeOK, NEW p, Receivable(p), Rcv_packet(p)
  PROVE  TypeOK'
<1> DEFINE r == [ram EXCEPT !.errors = 0]
           first == [r EXCEPT !.session_begin = TRUE, !.packets_cnt = 1,
                              !.blocks_cnt = 0, !.indx_in_block = 0,
                              !.file_name = p.file,
                              !.file_remainder = p.size, !.odd = p.odd]
           next == [r EXCEPT !.pack = p.units, !.damaged = p.damaged]
<1>1. r \in RamType
  BY NoErrors DEF TypeOK
<1>2. ASSUME ram.packets_cnt = 0, ~TooLong(p.size) PROVE first \in RamType
  <2>1. p.size \in 0 .. RecordAddr
    BY <1>2, Lengths DEF TooLong, Receivable
  <2>2. p.odd \in BOOLEAN /\ p.file \in File
    BY <1>2 DEF Receivable
  <2>3. 0 \in 0 .. BlockLen
    BY Lengths
  <2> HIDE DEF r
  <2> QED BY <1>1, <2>1, <2>2, <2>3 DEF RamType
<1>3. next \in RamType
  <2>1. p.units \in Seq(Unit) /\ p.damaged \in BOOLEAN
    BY DEF Receivable
  <2> HIDE DEF r
  <2> QED BY <1>1, <2>1 DEF RamType
<1>4. /\ flash' = flash
      /\ \/ Answer(r, <<"NAK">>)
         \/ Leave(r, <<"CA", "CA">>)
         \/ ram.packets_cnt = 0 /\ ~TooLong(p.size)
            /\ Answer(first, <<"ACK", "C">>)
         \/ pc' = "pack" /\ ram' = next /\ reply' = reply /\ worn' = worn
  BY DEF Rcv_packet, ABORT_SESSION
<1> HIDE DEF r, first, next
<1>5. CASE pc' = "pack" /\ ram' = next /\ reply' = reply /\ worn' = worn
  BY <1>3, <1>4, <1>5 DEF TypeOK
<1>6. CASE Answer(r, <<"NAK">>) \/ Leave(r, <<"CA", "CA">>)
  <2>1. worn \in BOOLEAN
    BY DEF TypeOK
  <2> QED BY <1>1, <1>4, <1>6, <2>1, AnswerTyped, BytesTyped DEF TypeOK, Places, Replies
<1>7. CASE /\ ram.packets_cnt = 0 /\ ~TooLong(p.size)
           /\ Answer(first, <<"ACK", "C">>)
  <2>1. worn \in BOOLEAN
    BY DEF TypeOK
  <2> QED BY <1>2, <1>4, <1>7, <2>1, AnswerTyped, BytesTyped DEF TypeOK, Places, Replies
<1> QED BY <1>4, <1>5, <1>6, <1>7

LEMMA LineTyped == TypeOK /\ Line => TypeOK'
<1> SUFFICES ASSUME TypeOK, Line PROVE TypeOK'
  OBVIOUS
<1>1. ram \in RamType /\ worn \in BOOLEAN /\ flash \in Contents
  BY DEF TypeOK, Contents
<1>t. ASSUME flash' = flash, NEW r \in RamType, NEW bytes \in Replies,
             Answer(r, bytes) \/ Leave(r, bytes)
      PROVE  TypeOK'
  BY <1>1, <1>t, AnswerTyped DEF TypeOK, Places, Replies, Contents
<1>2. CASE Rcv_timeout
  BY <1>1, <1>2, <1>t, BytesTyped DEF Rcv_timeout
<1>3. CASE Rcv_error
  <2> DEFINE r == [ram EXCEPT !.errors = @ + (IF ram.session_begin THEN 1 ELSE 0)]
  <2>1. CASE r.errors > MaxErrors
    <3>1. Leave(r, <<"CA", "CA">>) /\ flash' = flash
      BY <1>3, <2>1 DEF Rcv_error
    <3>2. Remaining(r) = Remaining(ram)
      BY <1>1 DEF Remaining, RamType
    <3>3. Leave(ram, <<"CA", "CA">>)
      BY <3>1, <3>2 DEF Leave
    <3> QED BY <1>1, <1>t, <3>1, <3>3, BytesTyped
  <2>2. CASE ~(r.errors > MaxErrors)
    <3>1. Answer(r, <<"C">>) /\ flash' = flash
      BY <1>3, <2>2 DEF Rcv_error
    <3>2. r.errors \in 0 .. MaxErrors + 1
      <4>1. ram.errors \in Nat /\ r.errors = ram.errors + (IF ram.session_begin THEN 1 ELSE 0)
        BY <1>1, Lengths DEF RamType
      <4> QED BY <2>2, <4>1, Lengths
    <3>3. r \in RamType
      <4>1. r = [ram EXCEPT !.errors = r.errors]
        BY <1>1 DEF RamType
      <4> HIDE DEF r
      <4> QED BY <1>1, <3>2, <4>1 DEF RamType
    <3> QED BY <1>t, <3>1, <3>3, BytesTyped
  <2> QED BY <2>1, <2>2
<1>4. CASE Rcv_abort \/ Rcv_CA_CA
  BY <1>1, <1>4, <1>t, BytesTyped DEF Rcv_abort, Rcv_CA_CA
<1>5. CASE Rcv_EOT
  <2>1. [ram EXCEPT !.errors = 0, !.file_done = FALSE, !.packets_cnt = 0] \in RamType
        /\ [ram EXCEPT !.errors = 0] \in RamType
    BY <1>1, NoErrors
  <2> QED BY <1>5, <2>1, <1>t, BytesTyped DEF Rcv_EOT
<1>6. CASE Arrival
  BY <1>1, <1>6, PacketTyped, PacketReceived DEF Arrival
<1> QED BY <1>2, <1>3, <1>4, <1>5, <1>6 DEF Line

\* The last sector of the flash is never counted.
LEMMA SectorsErased ==
  ASSUME Acceptable(ram.boot_rec1)
  PROVE  EraseCount \in Nat /\ EraseCount <= Sectors - 1
<1>1. ram.boot_rec1.img \in Images
  BY DEF Acceptable, HasMagic
<1>2. Size[ram.boot_rec1.img] \in Nat /\ SectorLen \in Nat /\ SectorLen > 0
  BY <1>1, ImagesAssumption, LengthsAssumption
<1>3. (Size[ram.boot_rec1.img] + SectorLen - 1) \div SectorLen \in Nat
  <2>1. Size[ram.boot_rec1.img] + SectorLen - 1 \in Nat
    BY <1>2
  <2> QED BY <1>2, <2>1, Z3
<1> QED BY <1>3, Lengths DEF EraseCount, Least

LEMMA ProgramTyped ==
  ASSUME TypeOK, Accepted, NEW new \in Contents, ProgramAndVerify(new)
  PROVE  TypeOK'
<1> DEFINE r == [ram EXCEPT !.addr = @ + ram.chank_size,
                            !.indx_in_block = 0,
                            !.blocks_cnt = Least(@ + 1, MaxBlocks)]
<1>1. ram \in RamType /\ worn \in BOOLEAN /\ reply \in Replies
  BY DEF TypeOK, Replies
<1>2. r \in RamType
  <2>1. ram.addr \in Nat /\ ram.chank_size \in Nat /\ ram.blocks_cnt \in Nat
    BY <1>1, Lengths DEF RamType
  <2>2. ram.addr + ram.chank_size \in Nat /\ 0 \in 0 .. BlockLen
    BY <2>1, Lengths
  <2>3. Least(ram.blocks_cnt + 1, MaxBlocks) \in Nat
    BY <2>1, Lengths DEF Least, MaxBlocks
  <2> QED BY <1>1, <2>2, <2>3 DEF RamType
<1>3. flash' \in Contents /\ (BlockDone(r) \/ Leave(ram, <<"CA", "CA">>))
  BY DEF ProgramAndVerify, ABORT_SESSION
<1> HIDE DEF r
<1> QED BY <1>1, <1>2, <1>3, NextChunkTyped, AnswerTyped, BytesTyped
   DEF TypeOK, Places, Replies, Contents

LEMMA ProgramStepTyped ==
  ASSUME TypeOK, Accepted, Program
  PROVE  TypeOK'
<1>1. /\ ram \in RamType /\ worn \in BOOLEAN /\ flash \in Contents
      /\ reply \in Replies /\ pc \in Places
  BY DEF TypeOK, Contents, Replies, Places
<1>t. ASSUME ram' \in RamType, flash' \in Contents, pc' \in Places,
             reply' \in Replies, worn' \in BOOLEAN
      PROVE  TypeOK'
  BY <1>t DEF TypeOK, Contents, Replies, Places
<1>2. CASE Boot_programmer \/ Check_failed
  BY <1>1, <1>2, <1>t, RemainingTyped, BytesTyped
     DEF Boot_programmer, Check_failed, StartSession, Places
<1>3. CASE Boot_alone \/ Check_and_Jump_to_App
  BY <1>1, <1>3, <1>t, BytesTyped DEF Boot_alone, Check_and_Jump_to_App, Places
<1>4. CASE Pack_gather
  BY <1>1, <1>4, <1>t, CopiedTyped, NextChunkTyped DEF Pack_gather
<1>5. CASE Pack_header
  <2>1. Header(Copied) \in RamType
    BY <1>1, CopiedTyped, HeaderTyped
  <2>2. CASE Leave(Header(Copied), <<"CA", "CA">>)
    BY <1>1, <1>5, <1>t, <2>1, <2>2, AnswerTyped, BytesTyped DEF Pack_header
  <2>3. CASE /\ pc' = "erase_record" /\ ram' = Header(Copied)
             /\ UNCHANGED <<reply, worn>>
    BY <1>1, <1>5, <1>t, <2>1, <2>3 DEF Pack_header, Places
  <2> QED BY <1>5, <2>2, <2>3 DEF Pack_header, ABORT_SESSION
<1>6. CASE Pack_data
  <2>1. Copied \in RamType
    BY <1>1, CopiedTyped
  <2>2. (IF Copied.chank_size = 0 THEN 1 ELSE Copied.chank_size) \in 1 .. BlockLen
    BY <2>1, Lengths DEF RamType
  <2>3. ram' \in RamType
    BY <1>6, <2>1, <2>2, DecryptedTyped DEF Pack_data
  <2> QED BY <1>1, <1>6, <1>t, <2>3 DEF Pack_data, Places
<1>7. CASE Erase_record
  <2>1. flash' \in Contents /\ worn' \in BOOLEAN
    BY <1>1, <1>7, EraseTyped DEF Erase_record
  <2>2. ram' \in RamType
    <3>1. 0 \in 0 .. Sectors
      BY Lengths
    <3> QED BY <1>1, <1>7, <3>1 DEF Erase_record, RamType
  <2> QED BY <1>1, <1>7, <1>t, <2>1, <2>2 DEF Erase_record, Places
<1>8. CASE Erase_sector
  <2>1. flash' \in Contents /\ worn' \in BOOLEAN
    BY <1>1, <1>8, EraseTyped DEF Erase_sector
  <2>2. ram.sector \in Nat /\ ram.sector < EraseCount
    BY <1>1, <1>8, Lengths DEF Erase_sector, RamType
  <2>3. ram.sector + 1 \in 0 .. Sectors
    BY <1>8, <2>2, SectorsErased, Lengths DEF Erase_sector, Accepted
  <2>4. ram' \in RamType
    BY <1>1, <1>8, <2>3 DEF Erase_sector, RamType
  <2> QED BY <1>1, <1>8, <1>t, <2>1, <2>4 DEF Erase_sector
<1>9. CASE Erase_done
  <2> DEFINE r == [ram EXCEPT !.addr = 0, !.indx_in_block = 0, !.blocks_cnt = 1]
  <2>1. r \in RamType
    <3>1. 0 \in 0 .. BlockLen
      BY Lengths
    <3> QED BY <1>1, <3>1 DEF RamType
  <2>2. BlockDone(r) /\ flash' = flash
    BY <1>9 DEF Erase_done
  <2> HIDE DEF r
  <2> QED BY <1>1, <1>t, <2>1, <2>2, NextChunkTyped
<1>10. CASE Program_block \/ Program_fails
  <2>1. Programmed(flash, ram.addr, Chunk) \in Contents
    BY <1>1, ChunkTyped, ProgrammedTyped DEF RamType
  <2> QED BY <1>1, <1>10, <2>1, ProgramTyped DEF Program_block, Program_fails
<1>11. CASE Program_overrun
  <2>1. \A end : Overrun(end) \in Contents
    BY <1>1, OverrunTyped
  <2>2. CASE ProgramAndVerify(Overrun(FlashLen))
    BY <2>1, <2>2, ProgramTyped
  <2>3. CASE /\ pc' = "fault" /\ UNCHANGED <<ram, reply, worn>>
             /\ \E end \in ram.addr .. FlashLen : flash' = Overrun(end)
    BY <1>1, <1>t, <2>1, <2>3 DEF Places
  <2> QED BY <1>11, <2>2, <2>3 DEF Program_overrun
<1>12. CASE Finish_check
  BY <1>1, <1>12, <1>t, AnswerTyped, BytesTyped
     DEF Finish_check, ABORT_SESSION, Places
<1>13. CASE Finish_record
  <2>1. <<ram.boot_rec1>> \in Seq(Unit) /\ RecordAddr \in Nat
    BY <1>1, Lengths DEF RamType
  <2>2. flash' \in Contents
    BY <1>1, <1>13, <2>1, ProgrammedTyped DEF Finish_record
  <2>3. [ram EXCEPT !.addr = RecordAddr, !.file_done = TRUE] \in RamType
    BY <1>1, <2>1 DEF RamType
  <2> QED BY <1>1, <1>13, <1>t, <2>2, <2>3, AnswerTyped, BytesTyped
     DEF Finish_record, ABORT_SESSION
<1> QED BY <1>2, <1>3, <1>4, <1>5, <1>6, <1>7, <1>8, <1>9, <1>10, <1>11,
   <1>12, <1>13 DEF Program

LEMMA PowerLossTyped ==
  ASSUME TypeOK, PowerLoss
  PROVE  TypeOK'
<1>1. ram \in RamType /\ worn \in BOOLEAN /\ flash \in Contents
  BY DEF TypeOK, Contents
<1>2. Interrupted \subseteq Contents
  <2>1. PartlyErased(Sectors - 1) \subseteq Contents
        /\ PartlyErased(ram.sector) \subseteq Contents
    BY <1>1, PartlyErasedTyped
  <2>2. PartlyProgrammed(ram.addr, Chunk) \subseteq Contents
    BY <1>1, ChunkTyped, PartlyProgrammedTyped DEF RamType
  <2>3. \A end : Overrun(end) \in Contents
    BY <1>1, OverrunTyped
  <2>4. PartlyProgrammed(RecordAddr, <<ram.boot_rec1>>) \subseteq Contents
    <3>1. <<ram.boot_rec1>> \in Seq(Unit) /\ RecordAddr \in Nat
      BY <1>1, Lengths DEF RamType
    <3> QED BY <1>1, <3>1, PartlyProgrammedTyped
  <2> QED BY <1>1, <2>1, <2>2, <2>3, <2>4 DEF Interrupted
<1> QED BY <1>1, <1>2, ResetTyped, BytesTyped
   DEF PowerLoss, TypeOK, Contents, Replies

-----------------------------------------------------------------------------
(***************************************************************************)
(* The control of the loader: what the place of the program says of the    *)
(* counters.                                                               *)
(***************************************************************************)
Phases ==
  /\ pc \in {"boot", "check", "app"} => ram.blocks_cnt = 0
  /\ pc \in {"pack", "erase_record", "erase", "program", "finish",
            "write_record", "fault"} => ram.packets_cnt # 0
  /\ pc \in {"erase_record", "erase"} => ram.blocks_cnt = 0
  /\ pc \in {"program", "finish", "write_record", "fault"} => ram.blocks_cnt # 0
  /\ pc \in {"finish", "write_record"} => ram.file_remainder = 0

\* After the last packet of a file its repetitions bring nothing.
Repeats ==
  ram.file_done =>
    /\ ram.packets_cnt # 0 /\ ram.blocks_cnt # 0 /\ ram.file_remainder = 0
    /\ pc # "fault" /\ (pc = "program" => ram.chank_size = 0)

\* What is still to come fits before the boot record.
Room ==
  ram.blocks_cnt # 0 =>
    ram.addr + ram.file_remainder + (IF pc = "program" THEN ram.chank_size ELSE 0)
      <= RecordAddr

ControlInv == Accepted /\ Phases /\ Repeats /\ Room

LEMMA ControlEnded ==
  ASSUME ram'.blocks_cnt = 0, ram'.file_done = FALSE,
         pc' \in {"boot", "check", "app", "wait"}
  PROVE  ControlInv'
BY DEF ControlInv, Accepted, Phases, Repeats, Room

LEMMA ControlLeft ==
  ASSUME NEW r \in RamType, NEW bytes, Leave(r, bytes)
  PROVE  ControlInv'
BY RemainingTyped, ControlEnded DEF Leave

\* What the variables must be like when a chunk has been dealt with.
Proceeds(r) ==
  /\ r.packets_cnt # 0
  /\ r.blocks_cnt # 0 => /\ Acceptable(r.boot_rec1)
                         /\ r.addr + r.file_remainder <= RecordAddr
  /\ r.file_done => r.blocks_cnt # 0 /\ r.file_remainder = 0

LEMMA ControlProceeds ==
  ASSUME NEW r \in RamType, Proceeds(r),
         NextChunk(r) \/ (r.blocks_cnt # 0 /\ BlockDone(r))
  PROVE  ControlInv'
<1>0. r.addr \in Nat /\ r.file_remainder \in Nat /\ r.packets_cnt \in Nat
  BY Lengths DEF RamType
<1>1. CASE NextChunk(r)
  <2>1. CASE r.pack = <<>>
    <3>1. pc' = "wait" /\ ram' = [r EXCEPT !.packets_cnt = @ + 1]
      BY <1>1, <2>1 DEF NextChunk, Answer
    <3>2. /\ ram'.packets_cnt = r.packets_cnt + 1
          /\ ram'.blocks_cnt = r.blocks_cnt /\ ram'.boot_rec1 = r.boot_rec1
          /\ ram'.addr = r.addr /\ ram'.file_remainder = r.file_remainder
          /\ ram'.file_done = r.file_done
      BY <3>1 DEF RamType
    <3> QED BY <1>0, <3>1, <3>2
       DEF Proceeds, ControlInv, Accepted, Phases, Repeats, Room
  <2>2. CASE r.pack # <<>>
    <3>1. pc' = "pack" /\ ram' = r
      BY <1>1, <2>2 DEF NextChunk
    <3> QED BY <1>0, <3>1
       DEF Proceeds, ControlInv, Accepted, Phases, Repeats, Room
  <2> QED BY <2>1, <2>2
<1>2. CASE r.file_remainder = 0 /\ r.blocks_cnt # 0 /\ BlockDone(r)
  <2>1. pc' = "finish" /\ ram' = r
    BY <1>2 DEF BlockDone
  <2> QED BY <1>0, <1>2, <2>1
     DEF Proceeds, ControlInv, Accepted, Phases, Repeats, Room
<1> QED BY <1>1, <1>2 DEF BlockDone

LEMMA CopiedProceeds ==
  ASSUME TypeOK, ControlInv, pc = "pack"
  PROVE  /\ Copied \in RamType /\ Proceeds(Copied)
         /\ Copied.file_done => Copied.chank_size = 0
         /\ Copied.blocks_cnt # 0 =>
              Copied.addr + Copied.file_remainder + Copied.chank_size <= RecordAddr
<1>1. ram \in RamType /\ Copied \in RamType
  BY CopiedTyped DEF TypeOK
<1>2. /\ ram.addr \in Nat /\ ram.file_remainder \in Nat
      /\ Copied.chank_size \in Nat
  BY <1>1, Lengths DEF RamType
<1> QED BY <1>1, <1>2, CopiedTyped, Lengths
   DEF ControlInv, Accepted, Phases, Repeats, Room, Proceeds

\* An answer, or the start of a packet, that leaves the counters alone.
LEMMA ControlKept ==
  ASSUME ram \in RamType, ControlInv, pc = "wait",
         pc' \in {"wait", "pack"}, pc' = "pack" => ram.packets_cnt # 0,
         ram'.packets_cnt = ram.packets_cnt,
         ram'.blocks_cnt = ram.blocks_cnt, ram'.boot_rec1 = ram.boot_rec1,
         ram'.addr = ram.addr, ram'.file_remainder = ram.file_remainder,
         ram'.file_done = ram.file_done
  PROVE  ControlInv'
BY DEF ControlInv, Accepted, Phases, Repeats, Room

LEMMA ErrorsControl ==
  ASSUME TypeOK, ControlInv, pc = "wait", NEW n, NEW bytes,
         \/ Answer([ram EXCEPT !.errors = n], bytes)
         \/ Leave([ram EXCEPT !.errors = n], bytes)
  PROVE  ControlInv'
<1>1. ram \in RamType
  BY DEF TypeOK
<1>2. CASE Answer([ram EXCEPT !.errors = n], bytes)
  BY <1>1, <1>2, ControlKept DEF Answer, RamType
<1>3. CASE Leave([ram EXCEPT !.errors = n], bytes)
  <2>1. Remaining([ram EXCEPT !.errors = n]) = Remaining(ram)
    BY <1>1 DEF Remaining, RamType
  <2> QED BY <1>1, <1>3, <2>1, ControlLeft DEF Leave
<1> QED BY <1>2, <1>3

\* What Rcv_packet does, without the order of its conditions.
LEMMA PacketSteps ==
  ASSUME TypeOK, ControlInv, NEW p, Rcv_packet(p)
  PROVE  /\ pc = "wait" /\ flash' = flash /\ worn' = worn
         /\ \/ Answer([ram EXCEPT !.errors = 0], <<"NAK">>)
            \/ Leave([ram EXCEPT !.errors = 0], <<"CA", "CA">>)
            \/ /\ pc' = "wait" /\ ram.packets_cnt = 0
               /\ ram'.blocks_cnt = 0 /\ ram'.file_done = FALSE
            \/ /\ pc' = "pack" /\ ram.packets_cnt # 0
               /\ ram'.packets_cnt = ram.packets_cnt
               /\ ram'.blocks_cnt = ram.blocks_cnt
               /\ ram'.boot_rec1 = ram.boot_rec1 /\ ram'.addr = ram.addr
               /\ ram'.file_remainder = ram.file_remainder
               /\ ram'.file_done = ram.file_done
<1> DEFINE r == [ram EXCEPT !.errors = 0]
           first == [r EXCEPT !.session_begin = TRUE, !.packets_cnt = 1,
                              !.blocks_cnt = 0, !.indx_in_block = 0,
                              !.file_name = p.file,
                              !.file_remainder = p.size, !.odd = p.odd]
           next == [r EXCEPT !.pack = p.units, !.damaged = p.damaged]
<1>1. ram \in RamType
  BY DEF TypeOK
<1>2. /\ pc = "wait" /\ flash' = flash /\ worn' = worn
      /\ \/ Answer(r, <<"NAK">>) \/ Leave(r, <<"CA", "CA">>)
         \/ ram.packets_cnt = 0 /\ Answer(first, <<"ACK", "C">>)
         \/ ram.packets_cnt # 0 /\ pc' = "pack" /\ ram' = next
  BY DEF Rcv_packet, ABORT_SESSION, Answer, Leave
<1>3. CASE ram.packets_cnt = 0 /\ Answer(first, <<"ACK", "C">>)
  <2>1. ram'.blocks_cnt = 0 /\ ram'.file_done = ram.file_done /\ pc' = "wait"
    BY <1>1, <1>3 DEF Answer, RamType
  <2>2. ram.file_done = FALSE
    BY <1>1, <1>3 DEF ControlInv, Repeats, RamType
  <2> QED BY <1>2, <1>3, <2>1, <2>2
<1>4. CASE ram.packets_cnt # 0 /\ pc' = "pack" /\ ram' = next
  BY <1>1, <1>2, <1>4 DEF RamType
<1> QED BY <1>2, <1>3, <1>4

LEMMA PacketControl ==
  ASSUME TypeOK, ControlInv, NEW p, Rcv_packet(p)
  PROVE  ControlInv'
<1>1. ram \in RamType
  BY DEF TypeOK
<1> QED BY <1>1, PacketSteps, ErrorsControl, ControlEnded, ControlKept

\* Nothing that arrives on the line disturbs the control.
LEMMA LineControl == TypeOK /\ ControlInv /\ Line => ControlInv'
<1> SUFFICES ASSUME TypeOK, ControlInv, Line PROVE ControlInv'
  OBVIOUS
<1>1. ram \in RamType /\ pc = "wait"
  BY DEF TypeOK, Line, Rcv_timeout, Rcv_error, Rcv_abort, Rcv_CA_CA, Rcv_EOT,
     Arrival, Rcv_packet
<1>2. CASE Rcv_timeout
  BY <1>1, <1>2, ControlKept DEF Rcv_timeout, Answer
<1>3. CASE Rcv_error
  <2>1. [ram EXCEPT !.errors = @ + (IF ram.session_begin THEN 1 ELSE 0)]
          = [ram EXCEPT !.errors = ram.errors + (IF ram.session_begin THEN 1 ELSE 0)]
    BY <1>1 DEF RamType
  <2> QED BY <1>1, <1>3, ErrorsControl, <2>1 DEF Rcv_error
<1>4. CASE Rcv_abort \/ Rcv_CA_CA
  BY <1>1, <1>4, ControlLeft DEF Rcv_abort, Rcv_CA_CA
<1>5. CASE Rcv_EOT
  <2>1. CASE ram.file_done
    <3>1. /\ pc' = "wait" /\ ram' = [ram EXCEPT !.errors = 0, !.file_done = FALSE,
                                                !.packets_cnt = 0]
      BY <1>5, <2>1 DEF Rcv_EOT, Answer
    <3>2. /\ ram'.file_done = FALSE
          /\ ram'.blocks_cnt = ram.blocks_cnt /\ ram'.boot_rec1 = ram.boot_rec1
          /\ ram'.addr = ram.addr /\ ram'.file_remainder = ram.file_remainder
      BY <1>1, <3>1 DEF RamType
    <3> QED BY <1>1, <3>1, <3>2 DEF ControlInv, Accepted, Phases, Repeats, Room
  <2>2. CASE ~ram.file_done
    BY <1>1, <1>5, ErrorsControl, <2>2 DEF Rcv_EOT
  <2> QED BY <2>1, <2>2
<1>6. CASE Arrival
  BY <1>6, PacketControl DEF Arrival
<1> QED BY <1>2, <1>3, <1>4, <1>5, <1>6 DEF Line

\* A block that was programmed leaves as much room as before.
LEMMA VerifyControl ==
  ASSUME TypeOK, ControlInv, pc = "program", NEW new, ProgramAndVerify(new)
  PROVE  ControlInv'
<1> DEFINE r == [ram EXCEPT !.addr = @ + ram.chank_size,
                            !.indx_in_block = 0,
                            !.blocks_cnt = Least(@ + 1, MaxBlocks)]
<1>1. /\ ram \in RamType /\ ram.addr \in Nat /\ ram.chank_size \in Nat
      /\ ram.blocks_cnt \in Nat /\ ram.file_remainder \in Nat
  BY Lengths DEF TypeOK, RamType
<1>2. Least(ram.blocks_cnt + 1, MaxBlocks) \in Nat
      /\ Least(ram.blocks_cnt + 1, MaxBlocks) # 0
  BY <1>1, Lengths DEF Least, MaxBlocks
<1>3. r \in RamType
  <2>1. ram.addr + ram.chank_size \in Nat /\ 0 \in 0 .. BlockLen
    BY <1>1, Lengths
  <2> QED BY <1>1, <1>2, <2>1 DEF RamType
<1>4. /\ r.blocks_cnt # 0 /\ r.addr = ram.addr + ram.chank_size
      /\ r.file_remainder = ram.file_remainder /\ r.boot_rec1 = ram.boot_rec1
      /\ r.packets_cnt = ram.packets_cnt /\ r.file_done = ram.file_done
  BY <1>1, <1>2 DEF RamType
<1>5. BlockDone(r) \/ Leave(ram, <<"CA", "CA">>)
  BY DEF ProgramAndVerify, ABORT_SESSION
<1> HIDE DEF r
<1>6. Proceeds(r)
  BY <1>1, <1>4, Lengths
     DEF Proceeds, ControlInv, Accepted, Phases, Repeats, Room
<1> QED BY <1>1, <1>3, <1>4, <1>5, <1>6, ControlProceeds, ControlLeft

LEMMA ProgramControl == TypeOK /\ ControlInv /\ Program => ControlInv'
<1> SUFFICES ASSUME TypeOK, ControlInv, Program PROVE ControlInv'
  OBVIOUS
<1>1. ram \in RamType
  BY DEF TypeOK
<1>2. CASE Boot_programmer \/ Check_failed
  BY <1>1, <1>2, RemainingTyped, ControlEnded
     DEF Boot_programmer, Check_failed, StartSession
<1>3. CASE Boot_alone \/ Check_and_Jump_to_App
  BY <1>3 DEF Boot_alone, Check_and_Jump_to_App,
     ControlInv, Accepted, Phases, Repeats, Room
<1>4. CASE Pack_gather
  BY <1>4, CopiedProceeds, ControlProceeds DEF Pack_gather
<1>5. CASE Pack_header
  <2> DEFINE h == Header(Copied)
  <2>1. /\ pc = "pack" /\ Copied \in RamType /\ Proceeds(Copied)
        /\ Copied.blocks_cnt = 0
    BY <1>5, CopiedProceeds DEF Pack_header
  <2>2. h \in RamType /\ Counters(h) = Counters(Copied)
    BY <2>1, HeaderTyped
  <2>3. CASE Leave(h, <<"CA", "CA">>)
    BY <2>2, <2>3, ControlLeft
  <2>4. CASE pc' = "erase_record" /\ ram' = h /\ Acceptable(h.boot_rec1)
    <3>1. /\ ram'.blocks_cnt = 0 /\ ~ram'.file_done /\ ram'.packets_cnt # 0
      BY <2>1, <2>2, <2>4 DEF Counters, Proceeds
    <3> QED BY <2>4, <3>1 DEF ControlInv, Accepted, Phases, Repeats, Room
  <2> QED BY <1>5, <2>3, <2>4 DEF Pack_header, ABORT_SESSION
<1>6. CASE Pack_data
  <2>1. /\ pc = "pack" /\ Copied \in RamType /\ Proceeds(Copied)
        /\ Copied.blocks_cnt # 0
        /\ Copied.file_done => Copied.chank_size = 0
        /\ Copied.addr + Copied.file_remainder + Copied.chank_size <= RecordAddr
    BY <1>6, CopiedProceeds DEF Pack_data
  <2>2. (IF Copied.chank_size = 0 THEN 1 ELSE Copied.chank_size) \in 1 .. BlockLen
    BY <2>1, Lengths DEF RamType
  <2>3. /\ pc' = "program" /\ Counters(ram') = Counters(Copied)
        /\ ram'.boot_rec1 = Copied.boot_rec1
    BY <1>6, <2>1, <2>2, DecryptedCounters DEF Pack_data
  <2> QED BY <2>1, <2>3
     DEF Counters, Proceeds, ControlInv, Accepted, Phases, Repeats, Room
<1>7. CASE Erase_record \/ Erase_sector
  <2>1. /\ pc \in {"erase_record", "erase"} /\ pc' = "erase"
        /\ ram'.blocks_cnt = ram.blocks_cnt
        /\ ram'.packets_cnt = ram.packets_cnt
        /\ ram'.boot_rec1 = ram.boot_rec1 /\ ram'.file_done = ram.file_done
    BY <1>1, <1>7 DEF Erase_record, Erase_sector, RamType
  <2> QED BY <2>1 DEF ControlInv, Accepted, Phases, Repeats, Room
<1>9. CASE Erase_done
  <2> DEFINE r == [ram EXCEPT !.addr = 0, !.indx_in_block = 0, !.blocks_cnt = 1]
  <2>1. r \in RamType
    <3>1. 0 \in 0 .. BlockLen
      BY Lengths
    <3> QED BY <1>1, <3>1 DEF RamType
  <2>2. BlockDone(r) /\ pc = "erase"
    BY <1>9 DEF Erase_done
  <2>3. /\ r.addr = 0 /\ r.blocks_cnt = 1 /\ r.packets_cnt = ram.packets_cnt
        /\ r.file_remainder = ram.file_remainder /\ r.boot_rec1 = ram.boot_rec1
        /\ r.file_done = ram.file_done
    BY <1>1 DEF RamType
  <2>4. 0 + ram.file_remainder <= RecordAddr
    BY <1>1, Lengths DEF RamType
  <2> HIDE DEF r
  <2>5. Proceeds(r)
    BY <2>2, <2>3, <2>4 DEF Proceeds, ControlInv, Accepted, Phases, Repeats
  <2> QED BY <2>1, <2>2, <2>3, <2>5, ControlProceeds
<1>10. CASE Program_block \/ Program_fails
  BY <1>10, VerifyControl DEF Program_block, Program_fails
<1>11. CASE Program_overrun
  <2>1. CASE ProgramAndVerify(Overrun(FlashLen))
    BY <1>11, <2>1, VerifyControl DEF Program_overrun
  <2>2. CASE pc' = "fault" /\ UNCHANGED ram
    <3>1. /\ pc = "program" /\ ram.chank_size > 0
          /\ ram.addr \in Nat /\ ram.file_remainder \in Nat
          /\ ram.chank_size \in Nat
      BY <1>1, <1>11, Lengths DEF Program_overrun, Overruns, RamType
    <3> QED BY <2>2, <3>1, Lengths
       DEF ControlInv, Accepted, Phases, Repeats, Room
  <2> QED BY <1>11, <2>1, <2>2 DEF Program_overrun
<1>12. CASE Finish_check
  <2>1. CASE Leave(ram, <<"CA", "CA">>)
    BY <1>1, <2>1, ControlLeft
  <2>2. CASE pc = "finish" /\ pc' = "write_record" /\ UNCHANGED ram
    BY <2>2 DEF ControlInv, Accepted, Phases, Repeats, Room
  <2> QED BY <1>12, <2>1, <2>2 DEF Finish_check, ABORT_SESSION
<1>13. CASE Finish_record
  <2>1. CASE Leave(ram, <<"CA", "CA">>)
    BY <1>1, <2>1, ControlLeft
  <2>2. CASE Answer([ram EXCEPT !.addr = RecordAddr, !.file_done = TRUE], <<"ACK">>)
    <3>1. /\ pc = "write_record" /\ pc' = "wait"
          /\ ram'.addr = RecordAddr /\ ram'.boot_rec1 = ram.boot_rec1
          /\ ram'.blocks_cnt = ram.blocks_cnt
          /\ ram'.packets_cnt = ram.packets_cnt
          /\ ram'.file_remainder = ram.file_remainder
      BY <1>1, <1>13, <2>2 DEF Finish_record, Answer, RamType
    <3>2. ram.file_remainder = 0
      BY <3>1 DEF ControlInv, Phases
    <3> QED BY <3>1, <3>2, Lengths DEF ControlInv, Accepted, Phases, Repeats, Room
  <2> QED BY <1>13, <2>1, <2>2 DEF Finish_record, ABORT_SESSION
<1> QED BY <1>2, <1>3, <1>4, <1>5, <1>6, <1>7, <1>9, <1>10, <1>11, <1>12, <1>13
   DEF Program

LEMMA ControlStep == TypeOK /\ ControlInv /\ [Next]_vars => ControlInv'
<1> SUFFICES ASSUME TypeOK, ControlInv, [Next]_vars PROVE ControlInv'
  OBVIOUS
<1>1. CASE PowerLoss
  BY <1>1, ControlEnded DEF PowerLoss, Reset
<1>2. CASE UNCHANGED vars
  BY <1>2 DEF vars, ControlInv, Accepted, Phases, Repeats, Room
<1> QED BY <1>1, <1>2, LineControl, ProgramControl DEF Next

LEMMA TypeStep == TypeOK /\ ControlInv /\ [Next]_vars => TypeOK'
<1>1. TypeOK /\ UNCHANGED vars => TypeOK'
  BY DEF TypeOK, vars
<1> QED BY <1>1, LineTyped, ProgramStepTyped, PowerLossTyped DEF Next, ControlInv

LEMMA InitControl == Init => TypeOK /\ ControlInv
<1> SUFFICES ASSUME Init PROVE TypeOK /\ ControlInv
  OBVIOUS
<1>1. flash \in Contents
  <2>1. Factory \in Contents
    BY Units DEF Factory, Contents
  <2>2. ASSUME NEW i \in Images PROVE Shipped(i) \in Contents
    <3>1. \A n \in Nat : [img |-> i, n |-> n, enc |-> FALSE] \in Unit
      BY DEF Unit
    <3>2. \A a \in 0 .. FlashLen - 1 : BlockLen + a + 1 \in Nat
      BY Lengths
    <3> QED BY <3>1, <3>2, Units DEF Shipped, Contents
  <2> QED BY <2>1, <2>2 DEF Init
<1>2. TypeOK
  BY <1>1, ResetTyped, BytesTyped DEF Init, TypeOK, Contents, Replies
<1>3. ControlInv
  BY DEF Init, Reset, ControlInv, Accepted, Phases, Repeats, Room
<1> QED BY <1>2, <1>3

\* The variables keep their types, and the counters their ranges.
THEOREM LoaderTyped == Spec => []TypeOK
<1>1. TypeOK /\ ControlInv /\ [Next]_vars => (TypeOK /\ ControlInv)'
  BY TypeStep, ControlStep
<1> QED BY <1>1, InitControl, PTL DEF Spec

\* Nothing is programmed at or behind the place of the boot record.
THEOREM RecordSafe == Spec => []RecordNotOverwritten
<1>1. TypeOK /\ ControlInv /\ [Next]_vars => (TypeOK /\ ControlInv)'
  BY TypeStep, ControlStep
<1>2. TypeOK /\ ControlInv => RecordNotOverwritten
  <2> SUFFICES ASSUME TypeOK, ControlInv, pc = "program"
               PROVE  ram.addr + ram.chank_size <= RecordAddr
    BY DEF RecordNotOverwritten
  <2>1. ram.addr \in Nat /\ ram.file_remainder \in Nat /\ ram.chank_size \in Nat
    BY Lengths DEF TypeOK, RamType
  <2> QED BY <2>1, Lengths DEF ControlInv, Phases, Room
<1> QED BY <1>1, <1>2, InitControl, PTL DEF Spec

-----------------------------------------------------------------------------
(***************************************************************************)
(* The flash.                                                              *)
(***************************************************************************)
LEMMA NoMagic ==
  /\ \A u : u.img = Blank => ~HasMagic(u)
  /\ Erased.img = Blank /\ Junk.img = Blank
  /\ \A i \in Images : i # Blank
BY ImagesAssumption DEF HasMagic, Erased, Junk

LEMMA RecordPlace == RecordAddr \in 0 .. FlashLen - 1
BY Lengths

LEMMA LastSector == RecordAddr \in Sector(Sectors - 1)
<1>1. SectorLen \in Nat /\ SectorLen > 0 /\ Sectors \in Nat
  BY LengthsAssumption
<1>2. (Sectors - 1) * SectorLen = SectorLen * Sectors - SectorLen
  BY <1>1
<1>3. (Sectors - 1) * SectorLen \in Int /\ SectorLen * Sectors \in Int
  BY <1>1
<1> QED BY <1>1, <1>2, <1>3 DEF Sector, RecordAddr, FlashLen

\* What is stored is an image or nothing.
LEMMA StoredTyped ==
  ASSUME NEW fl
  PROVE  /\ Stored(fl) \in Images \cup {Blank}
         /\ Stored(fl) # Blank <=> /\ HasMagic(fl[RecordAddr])
                                   /\ Md5Matches(fl, fl[RecordAddr].img)
         /\ Stored(fl) # Blank => Stored(fl) = fl[RecordAddr].img
BY NoMagic DEF Stored, HasMagic

\* Units that are erased or damaged complete no image.
LEMMA Damage ==
  ASSUME NEW old, NEW new,
         \A a \in 0 .. FlashLen - 1 : new[a] = old[a] \/ new[a].img = Blank
  PROVE  /\ HasMagic(new[RecordAddr]) => new[RecordAddr] = old[RecordAddr]
         /\ \A i \in Images : Md5Matches(new, i) => Md5Matches(old, i)
         /\ Stored(new) \in {Stored(old), Blank}
<1>1. HasMagic(new[RecordAddr]) => new[RecordAddr] = old[RecordAddr]
  BY RecordPlace, NoMagic
<1>2. ASSUME NEW i \in Images, Md5Matches(new, i) PROVE Md5Matches(old, i)
  <2>1. Size[i] \in Nat /\ Size[i] <= FlashLen
    BY <1>2, ImagesAssumption DEF Md5Matches
  <2>2. ASSUME NEW a \in 0 .. Size[i] - 1
        PROVE  old[a] = [img |-> i, n |-> BlockLen + a + 1, enc |-> FALSE]
    <3>1. a \in 0 .. FlashLen - 1
      BY <2>1, Lengths
    <3>2. new[a] = [img |-> i, n |-> BlockLen + a + 1, enc |-> FALSE]
      BY <1>2 DEF Md5Matches
    <3>3. new[a].img # Blank
      BY <3>2, NoMagic
    <3> QED BY <3>1, <3>2, <3>3
  <2> QED BY <2>1, <2>2 DEF Md5Matches
<1>3. Stored(new) \in {Stored(old), Blank}
  <2> SUFFICES ASSUME Stored(new) # Blank PROVE Stored(new) = Stored(old)
    OBVIOUS
  <2>1. /\ HasMagic(new[RecordAddr]) /\ Md5Matches(new, new[RecordAddr].img)
        /\ Stored(new) = new[RecordAddr].img
    BY StoredTyped
  <2>2. new[RecordAddr].img \in Images
    BY <2>1 DEF HasMagic
  <2>3. old[RecordAddr] = new[RecordAddr]
    BY <1>1, <2>1
  <2>4. Md5Matches(old, old[RecordAddr].img)
    BY <1>2, <2>1, <2>2, <2>3
  <2> QED BY <2>1, <2>3, <2>4 DEF Stored
<1> QED BY <1>1, <1>2, <1>3

\* Erasing, or losing power while erasing.
LEMMA ErasedDamage ==
  ASSUME NEW s, flash \in Contents,
         NEW new, new \in PartlyErased(s)
                  \/ new = [a \in DOMAIN flash |->
                              IF a \in Sector(s) THEN Erased ELSE flash[a]]
  PROVE  \A a \in 0 .. FlashLen - 1 : new[a] = flash[a] \/ new[a].img = Blank
BY NoMagic DEF PartlyErased, Contents

\* The last sector takes the record with it.
LEMMA RecordErased ==
  ASSUME flash \in Contents,
         NEW new, new \in PartlyErased(Sectors - 1)
                  \/ new = [a \in DOMAIN flash |->
                         IF a \in Sector(Sectors - 1) THEN Erased ELSE flash[a]]
  PROVE  new = flash \/ ~HasMagic(new[RecordAddr])
BY NoMagic, LastSector, RecordPlace DEF PartlyErased, Contents

LEMMA Extensional ==
  ASSUME NEW f \in Contents, NEW g \in Contents,
         \A a \in 0 .. FlashLen - 1 : f[a] = g[a]
  PROVE  f = g
<1> DEFINE D == 0 .. FlashLen - 1
<1>1. f \in [D -> Unit] /\ g \in [D -> Unit] /\ \A a \in D : f[a] = g[a]
  BY DEF Contents
<1> HIDE DEF D
<1> QED BY <1>1

\* Programming changes the units at its address only.
LEMMA Elsewhere ==
  ASSUME NEW fl \in Contents, NEW addr \in Nat, NEW units \in Seq(Unit)
  PROVE  /\ \A a \in 0 .. FlashLen - 1 :
              a \notin addr .. addr + Len(units) - 1
                => Programmed(fl, addr, units)[a] = fl[a]
         /\ Len(units) = 0 => Programmed(fl, addr, units) = fl
<1>1. Programmed(fl, addr, units) \in Contents
  BY ProgrammedTyped
<1>2. \A a \in 0 .. FlashLen - 1 :
        a \notin addr .. addr + Len(units) - 1
          => Programmed(fl, addr, units)[a] = fl[a]
  BY DEF Programmed, Contents
<1>3. ASSUME Len(units) = 0 PROVE Programmed(fl, addr, units) = fl
  <2>1. \A a \in 0 .. FlashLen - 1 : a \notin addr .. addr + Len(units) - 1
    BY <1>3
  <2> DEFINE new == Programmed(fl, addr, units)
  <2>2. new \in Contents /\ \A a \in 0 .. FlashLen - 1 : new[a] = fl[a]
    BY <1>1, <1>2, <2>1
  <2> HIDE DEF new
  <2>3. new = fl
    BY <2>2, Extensional
  <2> QED BY <2>3 DEF new
<1> QED BY <1>2, <1>3

\* What programming a block, or losing power in it, makes of the flash.
BlockOutcomes ==
  {flash, Programmed(flash, ram.addr, Chunk)} \cup PartlyProgrammed(ram.addr, Chunk)
    \cup {Overrun(end) : end \in IF Overruns THEN 0 .. FlashLen ELSE {}}

LEMMA BlockPlace ==
  ASSUME TypeOK, ControlInv, pc = "program", NEW new \in BlockOutcomes
  PROVE  /\ new[RecordAddr] = flash[RecordAddr] \/ new[RecordAddr] = Junk
         /\ ram.file_done => new = flash
<1>1. /\ ram \in RamType /\ flash \in Contents /\ ram.addr \in Nat
      /\ ram.file_remainder \in Nat /\ ram.chank_size \in Nat
  BY Lengths DEF TypeOK, RamType, Contents
<1>2. ram.addr + ram.chank_size <= RecordAddr
  BY <1>1, Lengths DEF ControlInv, Phases, Room
<1>3. Chunk \in Seq(Unit) /\ Len(Chunk) = ram.chank_size
  BY <1>1, ChunkTyped
<1>4. ram.file_done => ram.chank_size = 0
  BY DEF ControlInv, Repeats
<1>5. ASSUME NEW units \in Seq(Unit), Len(units) <= ram.chank_size
      PROVE  /\ Programmed(flash, ram.addr, units)[RecordAddr] = flash[RecordAddr]
             /\ ram.file_done => Programmed(flash, ram.addr, units) = flash
  <2>1. Len(units) \in Nat
    OBVIOUS
  <2>2. RecordAddr \notin ram.addr .. ram.addr + Len(units) - 1
    BY <1>1, <1>2, <1>5, <2>1, Lengths
  <2> QED BY <1>1, <1>4, <1>5, <2>1, <2>2, Elsewhere, RecordPlace
<1>6. CASE new \in {flash, Programmed(flash, ram.addr, Chunk)}
  BY <1>1, <1>3, <1>5, <1>6
<1>7. CASE new \in PartlyProgrammed(ram.addr, Chunk)
  <2>1. ASSUME NEW k \in 0 .. Len(Chunk)
        PROVE  SubSeq(Chunk, 1, k) \in Seq(Unit) /\ Len(SubSeq(Chunk, 1, k)) = k
    BY <1>3
  <2>2. ASSUME NEW k \in 0 .. Len(Chunk),
               new = Programmed(flash, ram.addr, SubSeq(Chunk, 1, k))
        PROVE  /\ new[RecordAddr] = flash[RecordAddr]
               /\ ram.file_done => new = flash
    <3> DEFINE units == SubSeq(Chunk, 1, k)
    <3>1. units \in Seq(Unit) /\ Len(units) <= ram.chank_size
      BY <1>1, <1>3, <2>1
    <3> HIDE DEF units
    <3>2. /\ Programmed(flash, ram.addr, units)[RecordAddr] = flash[RecordAddr]
          /\ ram.file_done => Programmed(flash, ram.addr, units) = flash
      BY <1>5, <3>1
    <3> QED BY <2>2, <3>2 DEF units
  <2>3. ASSUME NEW k \in 0 .. Len(Chunk) - 1,
               new = [Programmed(flash, ram.addr, SubSeq(Chunk, 1, k))
                        EXCEPT ![ram.addr + k] = Junk]
        PROVE  /\ new[RecordAddr] = flash[RecordAddr]
               /\ ~ram.file_done
    <3>1. k \in 0 .. Len(Chunk) /\ ram.addr + k # RecordAddr /\ Len(Chunk) # 0
      BY <1>1, <1>2, <1>3, Lengths
    <3>2. Programmed(flash, ram.addr, SubSeq(Chunk, 1, k)) \in Contents
          /\ Programmed(flash, ram.addr, SubSeq(Chunk, 1, k))[RecordAddr]
               = flash[RecordAddr]
      <4> DEFINE units == SubSeq(Chunk, 1, k)
      <4>1. units \in Seq(Unit) /\ Len(units) <= ram.chank_size
        BY <1>1, <1>3, <2>1, <3>1
      <4> HIDE DEF units
      <4>2. /\ Programmed(flash, ram.addr, units) \in Contents
            /\ Programmed(flash, ram.addr, units)[RecordAddr] = flash[RecordAddr]
        BY <1>1, <1>5, <4>1, ProgrammedTyped
      <4> QED BY <4>2 DEF units
    <3> QED BY <1>3, <1>4, <2>3, <3>1, <3>2, RecordPlace DEF Contents
  <2> QED BY <1>7, <2>2, <2>3 DEF PartlyProgrammed
<1>8. CASE \E end : new = Overrun(end) /\ Overruns
  <2>1. PICK end : new = Overrun(end) /\ Overruns
    BY <1>8
  <2>2. ~ram.file_done
    BY <1>1, <1>4, <2>1 DEF Overruns
  <2>3. new[RecordAddr] = flash[RecordAddr] \/ new[RecordAddr] = Junk
    BY <1>1, <1>3, <1>5, <2>1, RecordPlace DEF Overrun, Contents
  <2> QED BY <2>2, <2>3
<1> QED BY <1>6, <1>7, <1>8 DEF BlockOutcomes

\* What writing the record, or losing power in it, makes of the flash.
RecordOutcomes ==
  {flash, Programmed(flash, RecordAddr, <<ram.boot_rec1>>)}
    \cup PartlyProgrammed(RecordAddr, <<ram.boot_rec1>>)

LEMMA RecordWritten ==
  ASSUME TypeOK, NEW new \in RecordOutcomes
  PROVE  /\ \A a \in 0 .. RecordAddr - 1 : new[a] = flash[a]
         /\ \/ new = flash \/ new[RecordAddr] = Junk
            \/ flash[RecordAddr] = Erased /\ new[RecordAddr] = ram.boot_rec1
<1> DEFINE rec == <<ram.boot_rec1>>
<1>1. /\ rec \in Seq(Unit) /\ Len(rec) = 1 /\ rec[1] = ram.boot_rec1
      /\ flash \in Contents /\ RecordAddr \in Nat
  BY Lengths DEF TypeOK, RamType, Contents
<1>2. /\ SubSeq(rec, 1, 1) = rec
      /\ SubSeq(rec, 1, 0) \in Seq(Unit) /\ Len(SubSeq(rec, 1, 0)) = 0
  <2>1. SubSeq(rec, 1, Len(rec)) = rec
    BY <1>1, SubSeqFull
  <2>2. SubSeq(rec, 1, 0) = <<>>
    BY SubSeqEmpty
  <2> QED BY <1>1, <2>1, <2>2
<1> DEFINE whole == Programmed(flash, RecordAddr, rec)
<1>3. /\ whole \in Contents
      /\ \A a \in 0 .. RecordAddr - 1 : whole[a] = flash[a]
      /\ \/ whole[RecordAddr] = flash[RecordAddr] \/ whole[RecordAddr] = Junk
         \/ flash[RecordAddr] = Erased /\ whole[RecordAddr] = ram.boot_rec1
  <2>1. \A a \in 0 .. RecordAddr - 1 :
          a \in 0 .. FlashLen - 1 /\ a \notin RecordAddr .. RecordAddr + 1 - 1
    BY Lengths
  <2>2. \A a \in 0 .. RecordAddr - 1 : whole[a] = flash[a]
    BY <1>1, <2>1, Elsewhere
  <2>3. RecordAddr \in RecordAddr .. RecordAddr + Len(rec) - 1
        /\ RecordAddr - RecordAddr + 1 = 1
    BY <1>1
  <2>4. whole[RecordAddr]
          = IF flash[RecordAddr] = Erased \/ flash[RecordAddr] = rec[1]
              THEN rec[1] ELSE Junk
    BY <1>1, <2>3, RecordPlace DEF Programmed, Contents
  <2> QED BY <1>1, <2>2, <2>4, ProgrammedTyped
<1>4. CASE new = whole
  <2>1. ASSUME whole[RecordAddr] = flash[RecordAddr] PROVE whole = flash
    <3>1. \A a \in 0 .. FlashLen - 1 : a \in 0 .. RecordAddr - 1 \/ a = RecordAddr
      BY Lengths
    <3>2. whole \in Contents /\ \A a \in 0 .. FlashLen - 1 : whole[a] = flash[a]
      BY <1>3, <2>1, <3>1
    <3> HIDE DEF whole
    <3> QED BY <1>1, <3>2, Extensional
  <2> QED BY <1>3, <1>4, <2>1
<1>5. CASE new = [Programmed(flash, RecordAddr, SubSeq(rec, 1, 0))
                    EXCEPT ![RecordAddr + 0] = Junk]
  <2>1. Programmed(flash, RecordAddr, SubSeq(rec, 1, 0)) = flash
    BY <1>1, <1>2, Elsewhere
  <2>2. RecordAddr + 0 = RecordAddr
    BY <1>1
  <2>3. new = [flash EXCEPT ![RecordAddr] = Junk]
    BY <1>5, <2>1, <2>2
  <2>4. \A a \in 0 .. RecordAddr - 1 : a # RecordAddr /\ a \in 0 .. FlashLen - 1
    BY <1>1, Lengths
  <2> QED BY <1>1, <2>3, <2>4, RecordPlace DEF Contents
<1>6. CASE new = Programmed(flash, RecordAddr, SubSeq(rec, 1, 0))
  BY <1>1, <1>2, <1>6, Elsewhere
<1>7. new \in PartlyProgrammed(RecordAddr, rec) =>
        \/ new = whole
        \/ new = Programmed(flash, RecordAddr, SubSeq(rec, 1, 0))
        \/ new = [Programmed(flash, RecordAddr, SubSeq(rec, 1, 0))
                    EXCEPT ![RecordAddr + 0] = Junk]
  <2>1. 0 .. Len(rec) = {0, 1} /\ 0 .. Len(rec) - 1 = {0}
    BY <1>1
  <2> HIDE DEF rec
  <2> QED BY <1>2, <2>1 DEF PartlyProgrammed
<1> QED BY <1>4, <1>5, <1>6, <1>7 DEF RecordOutcomes

-----------------------------------------------------------------------------
(***************************************************************************)
(* The kinds of steps, by what they do to the loading of an image.         *)
(***************************************************************************)
Ends ==
  /\ ram'.blocks_cnt = 0 /\ ram'.file_done = FALSE
  /\ pc' \in {"boot", "check", "app", "wait"}
  /\ pc' = "app" => pc = "check" /\ Stored(flash) # Blank /\ flash' = flash

Continues ==
  /\ ram'.boot_rec1 = ram.boot_rec1
  /\ ram'.blocks_cnt = 0 <=> ram.blocks_cnt = 0
  /\ ram'.file_done => ram.file_done
  /\ ram'.packets_cnt # 0 /\ ~ram'.file_done
       => ram.packets_cnt # 0 /\ ~ram.file_done
  /\ pc \in {"wait", "pack", "program"}
  /\ pc' \in {"wait", "pack", "program", "finish", "fault"}

Accepts ==
  /\ pc = "pack" /\ pc' = "erase_record"
  /\ ram.blocks_cnt = 0 /\ ram'.blocks_cnt = 0 /\ ~ram'.file_done
  /\ ram'.boot_rec1.img \in Images
  /\ flash' = flash /\ worn' = worn

Erases ==
  /\ Erase_record \/ Erase_sector \/ Erase_done
  /\ pc' \in {"erase", "finish", "wait", "pack"}
  /\ ram'.boot_rec1 = ram.boot_rec1 /\ ~ram'.file_done
  /\ pc' # "erase" => pc = "erase" /\ ram'.blocks_cnt # 0

Completes ==
  /\ pc = "finish" /\ pc' = "write_record" /\ ram' = ram
  /\ flash' = flash /\ worn' = worn
  /\ Md5Matches(flash, ram.boot_rec1.img)

Records ==
  /\ pc = "write_record" /\ pc' = "wait"
  /\ ram'.boot_rec1 = ram.boot_rec1 /\ ram'.blocks_cnt # 0
  /\ ram'.file_done /\ flash'[RecordAddr] = ram.boot_rec1

LEMMA LeaveEnds ==
  ASSUME NEW r \in RamType, NEW bytes, Leave(r, bytes)
  PROVE  Ends
BY RemainingTyped DEF Leave, Ends

LEMMA ProceedContinues ==
  ASSUME NEW r \in RamType, NextChunk(r) \/ BlockDone(r),
         ram.packets_cnt # 0, pc \in {"pack", "program"},
         r.boot_rec1 = ram.boot_rec1, r.file_done = ram.file_done,
         r.blocks_cnt = 0 <=> ram.blocks_cnt = 0
  PROVE  Continues
<1>1. \/ pc' = "wait" /\ ram' = [r EXCEPT !.packets_cnt = @ + 1]
      \/ pc' \in {"pack", "finish"} /\ ram' = r
  BY DEF NextChunk, BlockDone, Answer
<1>2. /\ ram'.boot_rec1 = r.boot_rec1 /\ ram'.blocks_cnt = r.blocks_cnt
      /\ ram'.file_done = r.file_done
  BY <1>1 DEF RamType
<1> QED BY <1>1, <1>2 DEF Continues

LEMMA ErrorsKinds ==
  ASSUME TypeOK, pc = "wait", NEW n, NEW bytes,
         \/ Answer([ram EXCEPT !.errors = n], bytes)
         \/ Leave([ram EXCEPT !.errors = n], bytes)
  PROVE  Ends \/ Continues
<1>1. ram \in RamType
  BY DEF TypeOK
<1>2. CASE Answer([ram EXCEPT !.errors = n], bytes)
  BY <1>1, <1>2 DEF Answer, RamType, Continues
<1>3. CASE Leave([ram EXCEPT !.errors = n], bytes)
  <2>1. Remaining([ram EXCEPT !.errors = n]) = Remaining(ram)
    BY <1>1 DEF Remaining, RamType
  <2> QED BY <1>1, <1>3, <2>1, LeaveEnds DEF Leave
<1> QED BY <1>2, <1>3

LEMMA PacketKinds ==
  ASSUME TypeOK, ControlInv, NEW p, Rcv_packet(p)
  PROVE  Ends \/ Continues
<1>1. pc = "wait"
  BY PacketSteps
<1>2. CASE /\ pc' = "wait" /\ ram.packets_cnt = 0
           /\ ram'.blocks_cnt = 0 /\ ram'.file_done = FALSE
  BY <1>2 DEF Ends
<1>3. CASE /\ pc' = "pack" /\ ram.packets_cnt # 0
           /\ ram'.packets_cnt = ram.packets_cnt
           /\ ram'.blocks_cnt = ram.blocks_cnt
           /\ ram'.boot_rec1 = ram.boot_rec1 /\ ram'.addr = ram.addr
           /\ ram'.file_remainder = ram.file_remainder
           /\ ram'.file_done = ram.file_done
  BY <1>1, <1>3 DEF Continues
<1> QED BY <1>1, <1>2, <1>3, PacketSteps, ErrorsKinds

LEMMA LineKinds == TypeOK /\ ControlInv /\ Line => Ends \/ Continues
<1> SUFFICES ASSUME TypeOK, ControlInv, Line PROVE Ends \/ Continues
  OBVIOUS
<1>1. ram \in RamType /\ pc = "wait"
  BY DEF TypeOK, Line, Rcv_timeout, Rcv_error, Rcv_abort, Rcv_CA_CA, Rcv_EOT,
     Arrival, Rcv_packet
<1>2. CASE Rcv_timeout
  BY <1>1, <1>2 DEF Rcv_timeout, Answer, Continues
<1>3. CASE Rcv_error
  <2>1. [ram EXCEPT !.errors = @ + (IF ram.session_begin THEN 1 ELSE 0)]
          = [ram EXCEPT !.errors = ram.errors + (IF ram.session_begin THEN 1 ELSE 0)]
    BY <1>1 DEF RamType
  <2> QED BY <1>1, <1>3, <2>1, ErrorsKinds DEF Rcv_error
<1>4. CASE Rcv_abort \/ Rcv_CA_CA
  BY <1>1, <1>4, LeaveEnds DEF Rcv_abort, Rcv_CA_CA
<1>5. CASE Rcv_EOT
  <2>1. CASE ram.file_done
    <3>1. /\ pc' = "wait" /\ ram' = [ram EXCEPT !.errors = 0, !.file_done = FALSE,
                                                !.packets_cnt = 0]
      BY <1>5, <2>1 DEF Rcv_EOT, Answer
    <3> QED BY <1>1, <3>1 DEF RamType, Continues
  <2>2. CASE ~ram.file_done
    BY <1>1, <1>5, <2>2, ErrorsKinds DEF Rcv_EOT
  <2> QED BY <2>1, <2>2
<1>6. CASE Arrival
  BY <1>6, PacketKinds DEF Arrival
<1> QED BY <1>2, <1>3, <1>4, <1>5, <1>6 DEF Line

LEMMA VerifyKinds ==
  ASSUME TypeOK, ControlInv, pc = "program", NEW new, ProgramAndVerify(new)
  PROVE  Ends \/ Continues
<1> DEFINE r == [ram EXCEPT !.addr = @ + ram.chank_size,
                            !.indx_in_block = 0,
                            !.blocks_cnt = Least(@ + 1, MaxBlocks)]
<1>1. /\ ram \in RamType /\ ram.addr \in Nat /\ ram.chank_size \in Nat
      /\ ram.blocks_cnt \in Nat
  BY Lengths DEF TypeOK, RamType
<1>2. Least(ram.blocks_cnt + 1, MaxBlocks) \in Nat
      /\ Least(ram.blocks_cnt + 1, MaxBlocks) # 0
  BY <1>1, Lengths DEF Least, MaxBlocks
<1>3. r \in RamType
  <2>1. ram.addr + ram.chank_size \in Nat /\ 0 \in 0 .. BlockLen
    BY <1>1, Lengths
  <2> QED BY <1>1, <1>2, <2>1 DEF RamType
<1>4. /\ r.blocks_cnt # 0 /\ r.boot_rec1 = ram.boot_rec1
      /\ r.file_done = ram.file_done
  BY <1>1, <1>2 DEF RamType
<1>5. BlockDone(r) \/ Leave(ram, <<"CA", "CA">>)
  BY DEF ProgramAndVerify, ABORT_SESSION
<1>6. ram.packets_cnt # 0 /\ ram.blocks_cnt # 0
  BY DEF ControlInv, Phases
<1> HIDE DEF r
<1> QED BY <1>1, <1>3, <1>4, <1>5, <1>6, ProceedContinues, LeaveEnds

LEMMA ProgramKinds ==
  TypeOK /\ ControlInv /\ Program
    => Ends \/ Continues \/ Accepts \/ Erases \/ Completes \/ Records
<1> SUFFICES ASSUME TypeOK, ControlInv, Program
             PROVE  Ends \/ Continues \/ Accepts \/ Erases \/ Completes \/ Records
  OBVIOUS
<1>1. ram \in RamType
  BY DEF TypeOK
<1>2. CASE Boot_programmer \/ Check_failed
  BY <1>1, <1>2, RemainingTyped DEF Boot_programmer, Check_failed, StartSession, Ends
<1>3. CASE Boot_alone \/ Check_and_Jump_to_App
  <2>1. pc \in {"boot", "check"} /\ ram' = ram /\ flash' = flash
    BY <1>3 DEF Boot_alone, Check_and_Jump_to_App
  <2>2. ram.blocks_cnt = 0 /\ ram.file_done = FALSE
    BY <1>1, <2>1 DEF ControlInv, Phases, Repeats, RamType
  <2> QED BY <1>3, <2>1, <2>2 DEF Boot_alone, Check_and_Jump_to_App, Ends
<1>4. CASE Pack_gather
  <2>1. pc = "pack" /\ NextChunk(Copied) /\ ram.packets_cnt # 0
    BY <1>4 DEF Pack_gather, ControlInv, Phases
  <2>2. /\ Copied \in RamType /\ Copied.boot_rec1 = ram.boot_rec1
        /\ Copied.file_done = ram.file_done /\ Copied.blocks_cnt = ram.blocks_cnt
    BY <1>1, CopiedTyped
  <2> QED BY <2>1, <2>2, ProceedContinues
<1>5. CASE Pack_header
  <2> DEFINE h == Header(Copied)
  <2>1. /\ pc = "pack" /\ Copied \in RamType /\ Proceeds(Copied)
        /\ Copied.blocks_cnt = 0 /\ ram.blocks_cnt = 0
    BY <1>1, <1>5, CopiedProceeds, CopiedTyped DEF Pack_header
  <2>2. h \in RamType /\ Counters(h) = Counters(Copied)
    BY <2>1, HeaderTyped
  <2>3. CASE Leave(h, <<"CA", "CA">>)
    BY <2>2, <2>3, LeaveEnds
  <2>4. CASE /\ pc' = "erase_record" /\ ram' = h /\ Acceptable(h.boot_rec1)
             /\ worn' = worn
    <3>1. h.blocks_cnt = 0 /\ ~h.file_done
      BY <2>1, <2>2 DEF Counters, Proceeds
    <3>2. h.boot_rec1.img \in Images
      BY <2>4 DEF Acceptable, HasMagic
    <3> HIDE DEF h
    <3> QED BY <1>5, <2>1, <2>4, <3>1, <3>2 DEF Pack_header, Accepts
  <2> QED BY <1>5, <2>3, <2>4 DEF Pack_header, ABORT_SESSION
<1>6. CASE Pack_data
  <2>1. /\ pc = "pack" /\ Copied \in RamType /\ Proceeds(Copied)
    BY <1>6, CopiedProceeds DEF Pack_data
  <2>2. (IF Copied.chank_size = 0 THEN 1 ELSE Copied.chank_size) \in 1 .. BlockLen
    BY <2>1, Lengths DEF RamType
  <2>3. /\ pc' = "program" /\ Counters(ram') = Counters(Copied)
        /\ ram'.boot_rec1 = Copied.boot_rec1
    BY <1>6, <2>1, <2>2, DecryptedCounters DEF Pack_data
  <2>4. /\ Copied.boot_rec1 = ram.boot_rec1 /\ Copied.file_done = ram.file_done
        /\ Copied.blocks_cnt = ram.blocks_cnt
        /\ Copied.packets_cnt = ram.packets_cnt
    BY <1>1, CopiedTyped
  <2> QED BY <2>1, <2>3, <2>4 DEF Counters, Continues
<1>7. CASE Erase_record \/ Erase_sector
  <2>1. /\ pc \in {"erase_record", "erase"} /\ pc' = "erase"
        /\ ram'.boot_rec1 = ram.boot_rec1 /\ ram'.file_done = ram.file_done
    BY <1>1, <1>7 DEF Erase_record, Erase_sector, RamType
  <2> QED BY <1>7, <2>1 DEF ControlInv, Phases, Repeats, Erases
<1>9. CASE Erase_done
  <2> DEFINE r == [ram EXCEPT !.addr = 0, !.indx_in_block = 0, !.blocks_cnt = 1]
  <2>1. r \in RamType
    <3>1. 0 \in 0 .. BlockLen
      BY Lengths
    <3> QED BY <1>1, <3>1 DEF RamType
  <2>2. BlockDone(r) /\ pc = "erase" /\ ~ram.file_done
    BY <1>9 DEF Erase_done, ControlInv, Phases, Repeats
  <2>3. /\ r.blocks_cnt = 1 /\ r.boot_rec1 = ram.boot_rec1
        /\ r.file_done = ram.file_done
    BY <1>1 DEF RamType
  <2> HIDE DEF r
  <2>4. \/ pc' = "wait" /\ ram' = [r EXCEPT !.packets_cnt = @ + 1]
        \/ pc' \in {"pack", "finish"} /\ ram' = r
    BY <2>2 DEF NextChunk, BlockDone, Answer
  <2>5. /\ ram'.boot_rec1 = r.boot_rec1 /\ ram'.blocks_cnt = r.blocks_cnt
        /\ ram'.file_done = r.file_done
    BY <2>1, <2>4 DEF RamType
  <2> QED BY <1>9, <2>2, <2>3, <2>4, <2>5 DEF Erases
<1>10. CASE Program_block \/ Program_fails
  BY <1>10, VerifyKinds DEF Program_block, Program_fails
<1>11. CASE Program_overrun
  <2>1. CASE ProgramAndVerify(Overrun(FlashLen))
    BY <1>11, <2>1, VerifyKinds DEF Program_overrun
  <2>2. CASE pc' = "fault" /\ UNCHANGED ram
    BY <1>11, <2>2 DEF Program_overrun, Continues
  <2> QED BY <1>11, <2>1, <2>2 DEF Program_overrun
<1>12. CASE Finish_check
  BY <1>1, <1>12, LeaveEnds DEF Finish_check, ABORT_SESSION, Completes
<1>13. CASE Finish_record
  <2>1. CASE Leave(ram, <<"CA", "CA">>)
    BY <1>1, <2>1, LeaveEnds
  <2>2. CASE /\ flash'[RecordAddr] = ram.boot_rec1
             /\ Answer([ram EXCEPT !.addr = RecordAddr, !.file_done = TRUE], <<"ACK">>)
    BY <1>1, <1>13, <2>2 DEF Finish_record, Answer, RamType, ControlInv, Phases, Records
  <2> QED BY <1>13, <2>1, <2>2 DEF Finish_record, ABORT_SESSION
<1> QED BY <1>2, <1>3, <1>4, <1>5, <1>6, <1>7, <1>9, <1>10, <1>11, <1>12, <1>13
   DEF Program

LEMMA Kinds ==
  TypeOK /\ ControlInv /\ Next
    => Ends \/ Continues \/ Accepts \/ Erases \/ Completes \/ Records
<1>1. PowerLoss => Ends
  BY DEF PowerLoss, Reset, Ends
<1> QED BY <1>1, LineKinds, ProgramKinds DEF Next

\* What a step or a loss of power makes of the flash, by the place it hits.
Damaged == \A a \in 0 .. FlashLen - 1 : flash'[a] = flash[a] \/ flash'[a].img = Blank

FlashSteps ==
  \/ flash' = flash
  \/ pc = "erase_record" /\ Damaged /\ ~HasMagic(flash'[RecordAddr])
  \/ pc = "erase" /\ Damaged
  \/ pc = "program" /\ flash' \in BlockOutcomes
  \/ pc = "write_record" /\ flash' \in RecordOutcomes

\* An erase command that succeeds, or fails and is remembered.
LEMMA EraseSteps ==
  ASSUME flash \in Contents, NEW s, EraseSector(s)
  PROVE  \/ flash' = flash /\ worn' = TRUE
         \/ /\ Damaged /\ worn' = worn
            /\ s = Sectors - 1 => ~HasMagic(flash'[RecordAddr])
<1> DEFINE new == [a \in DOMAIN flash |->
                     IF a \in Sector(s) THEN Erased ELSE flash[a]]
<1>1. CASE flash' = new /\ worn' = worn
  <2>1. Damaged
    BY <1>1, ErasedDamage DEF Damaged
  <2>2. ASSUME s = Sectors - 1 PROVE ~HasMagic(flash'[RecordAddr])
    BY <1>1, <2>2, LastSector, RecordPlace, NoMagic DEF Contents
  <2> QED BY <1>1, <2>1, <2>2
<1> QED BY <1>1 DEF EraseSector

\* Where the flash changes, and that only a failing erase command counts.
LEMMA FlashStep ==
  TypeOK /\ ControlInv /\ Next
    => /\ FlashSteps
       /\ worn' = worn \/ (worn' = TRUE /\ flash' = flash /\ Erases /\ pc' = "erase")
<1> SUFFICES ASSUME TypeOK, ControlInv, Next
             PROVE  /\ FlashSteps
                    /\ \/ worn' = worn
                       \/ worn' = TRUE /\ flash' = flash /\ Erases /\ pc' = "erase"
  OBVIOUS
<1>1. flash \in Contents /\ ram \in RamType
  BY DEF TypeOK, Contents
<1>2. CASE Line
  BY <1>2 DEF Line, Rcv_timeout, Rcv_error, Rcv_abort, Rcv_CA_CA, Rcv_EOT, Arrival,
     Rcv_packet, Answer, Leave, ABORT_SESSION, FlashSteps
<1>3. CASE PowerLoss
  <2>1. flash' \in Interrupted /\ worn' = worn
    BY <1>3 DEF PowerLoss
  <2>2. CASE pc = "erase_record"
    <3>1. flash' \in PartlyErased(Sectors - 1)
      BY <2>1, <2>2 DEF Interrupted
    <3>2. Damaged /\ (flash' = flash \/ ~HasMagic(flash'[RecordAddr]))
      BY <1>1, <3>1, ErasedDamage, RecordErased DEF Damaged
    <3> QED BY <2>1, <2>2, <3>2 DEF FlashSteps
  <2>3. CASE pc = "erase"
    <3>1. flash' = flash \/ flash' \in PartlyErased(ram.sector)
      BY <2>1, <2>3 DEF Interrupted
    <3>2. flash' = flash \/ Damaged
      BY <1>1, <3>1, ErasedDamage DEF Damaged
    <3> QED BY <2>1, <2>3, <3>2 DEF FlashSteps
  <2>4. CASE pc = "program"
    <3>1. ram.addr .. FlashLen \subseteq 0 .. FlashLen
      BY <1>1, Lengths DEF RamType
    <3>2. flash' \in PartlyProgrammed(ram.addr, Chunk)
                   \cup {Overrun(end) : end \in
                            IF Overruns THEN ram.addr .. FlashLen ELSE {}}
      BY <2>1, <2>4 DEF Interrupted
    <3>3. flash' \in BlockOutcomes
      BY <3>1, <3>2 DEF BlockOutcomes
    <3> QED BY <2>1, <2>4, <3>3 DEF FlashSteps
  <2>5. CASE pc = "write_record"
    <3>1. flash' \in PartlyProgrammed(RecordAddr, <<ram.boot_rec1>>)
      BY <2>1, <2>5 DEF Interrupted
    <3> QED BY <2>1, <2>5, <3>1 DEF FlashSteps, RecordOutcomes
  <2>6. CASE pc \notin {"erase_record", "erase", "program", "write_record"}
    BY <2>1, <2>6 DEF Interrupted, FlashSteps
  <2> QED BY <2>2, <2>3, <2>4, <2>5, <2>6
<1>4. CASE Program
  <2>1. CASE Erase_record
    <3>1. Erases /\ pc' = "erase"
      <4>1. ram'.boot_rec1 = ram.boot_rec1 /\ ram'.file_done = ram.file_done
            /\ pc = "erase_record" /\ pc' = "erase"
        BY <1>1, <2>1 DEF Erase_record, RamType
      <4> QED BY <2>1, <4>1 DEF Erases, ControlInv, Phases, Repeats
    <3>2. EraseSector(Sectors - 1) /\ pc = "erase_record"
      BY <2>1 DEF Erase_record
    <3>3. \/ flash' = flash /\ worn' = TRUE
          \/ Damaged /\ worn' = worn /\ ~HasMagic(flash'[RecordAddr])
      BY <1>1, <3>2, EraseSteps
    <3> QED BY <3>1, <3>2, <3>3 DEF FlashSteps
  <2>2. CASE Erase_sector
    <3>1. Erases /\ pc' = "erase"
      <4>1. ram'.boot_rec1 = ram.boot_rec1 /\ ram'.file_done = ram.file_done
            /\ pc = "erase" /\ pc' = "erase"
        BY <1>1, <2>2 DEF Erase_sector, RamType
      <4> QED BY <2>2, <4>1 DEF Erases, ControlInv, Phases, Repeats
    <3>2. EraseSector(ram.sector) /\ pc = "erase"
      BY <2>2 DEF Erase_sector
    <3>3. \/ flash' = flash /\ worn' = TRUE
          \/ Damaged /\ worn' = worn
      BY <1>1, <3>2, EraseSteps
    <3> QED BY <3>1, <3>2, <3>3 DEF FlashSteps
  <2>3. CASE Program_block \/ Program_fails \/ Program_overrun
    <3>1. pc = "program" /\ worn' = worn
      BY <2>3 DEF Program_block, Program_fails, Program_overrun, ProgramAndVerify,
         BlockDone, NextChunk, Answer, Leave, ABORT_SESSION
    <3>2. ram.addr .. FlashLen \subseteq 0 .. FlashLen /\ FlashLen \in 0 .. FlashLen
      BY <1>1, Lengths DEF RamType
    <3>3. flash' \in BlockOutcomes
      BY <2>3, <3>2 DEF Program_block, Program_fails, Program_overrun,
         ProgramAndVerify, BlockOutcomes
    <3> QED BY <3>1, <3>3 DEF FlashSteps
  <2>4. CASE Finish_record
    <3>1. pc = "write_record" /\ worn' = worn
      BY <2>4 DEF Finish_record, Answer, Leave, ABORT_SESSION
    <3>2. flash' \in RecordOutcomes
      BY <2>4 DEF Finish_record, RecordOutcomes
    <3> QED BY <3>1, <3>2 DEF FlashSteps
  <2>5. CASE Boot_programmer \/ Boot_alone \/ Check_and_Jump_to_App \/ Check_failed
    BY <2>5 DEF Boot_programmer, Boot_alone, Check_and_Jump_to_App, Check_failed,
       StartSession, FlashSteps
  <2>6. CASE Pack_gather \/ Pack_header \/ Pack_data \/ Erase_done \/ Finish_check
    BY <2>6 DEF Pack_gather, Pack_header, Pack_data, Erase_done, Finish_check,
       BlockDone, NextChunk, Answer, Leave, ABORT_SESSION, FlashSteps
  <2> QED BY <1>4, <2>1, <2>2, <2>3, <2>4, <2>5, <2>6 DEF Program
<1> QED BY <1>2, <1>3, <1>4 DEF Next

-----------------------------------------------------------------------------
(***************************************************************************)
(* What the flash holds while an image is loaded: no record, unless it     *)
(* could not be erased, until the image is complete.                       *)
(***************************************************************************)
Loads ==
  pc = "erase" \/ (ram.blocks_cnt # 0 /\ ram.packets_cnt # 0 /\ ~ram.file_done)

Unrecorded == ~worn /\ Loads => ~HasMagic(flash[RecordAddr])
Complete == pc = "write_record" => Md5Matches(flash, ram.boot_rec1.img)
Started == pc = "app" => Stored(flash) # Blank

FlashInv == Unrecorded /\ Complete /\ Started /\ RecordMeansImage /\ DoneMeansStored

\* An image that ends before the record does not mind its being written.
LEMMA RecordApart ==
  ASSUME NEW old, NEW new, \A a \in 0 .. RecordAddr - 1 : new[a] = old[a],
         NEW u, Acceptable(u), Md5Matches(old, u.img), new[RecordAddr] = u
  PROVE  Md5Matches(new, u.img) /\ Stored(new) = u.img /\ u.img \in Images
<1>1. u.img \in Images /\ Size[u.img] \in Nat /\ Size[u.img] <= RecordAddr
      /\ HasMagic(u)
  BY ImagesAssumption DEF Acceptable, HasMagic
<1>2. \A a \in 0 .. Size[u.img] - 1 : a \in 0 .. RecordAddr - 1
  BY <1>1, Lengths
<1>3. Md5Matches(new, u.img)
  BY <1>1, <1>2 DEF Md5Matches
<1> QED BY <1>1, <1>3 DEF Stored

\* A finished file: the flash holds its record and is not changed.
LEMMA DoneKeeps ==
  ASSUME TypeOK, ControlInv, DoneMeansStored, FlashSteps, ram.file_done
  PROVE  /\ flash[RecordAddr] = ram.boot_rec1 /\ Stored(flash) = ram.boot_rec1.img
         /\ Acceptable(ram.boot_rec1)
         /\ pc # "write_record" => flash' = flash
<1>1. Stored(flash) = ram.boot_rec1.img /\ Acceptable(ram.boot_rec1)
  BY DEF DoneMeansStored, ControlInv, Accepted, Repeats
<1>2. HasMagic(ram.boot_rec1) /\ ram.boot_rec1.img \in Images
  BY <1>1 DEF Acceptable, HasMagic
<1>3. HasMagic(flash[RecordAddr]) /\ flash[RecordAddr].img = ram.boot_rec1.img
  BY <1>1, <1>2, StoredTyped, NoMagic
<1>4. flash[RecordAddr] = ram.boot_rec1
  BY <1>2, <1>3 DEF HasMagic
<1>5. pc \notin {"erase_record", "erase"}
  BY DEF ControlInv, Phases, Repeats
<1>6. pc # "write_record" => flash' = flash
  BY <1>5, BlockPlace DEF FlashSteps
<1> QED BY <1>1, <1>4, <1>6

LEMMA RecordStep ==
  ASSUME TypeOK, ControlInv, FlashInv, FlashSteps, worn' = worn \/ worn' = TRUE
  PROVE  RecordMeansImage'
<1> SUFFICES ASSUME HasMagic(flash'[RecordAddr]), ~worn'
             PROVE  Md5Matches(flash', flash'[RecordAddr].img)
  BY DEF RecordMeansImage
<1>1. ~worn
  OBVIOUS
<1>2. HasMagic(flash[RecordAddr]) => Md5Matches(flash, flash[RecordAddr].img)
  BY <1>1 DEF FlashInv, RecordMeansImage
<1>3. CASE flash' = flash
  BY <1>2, <1>3
<1>4. CASE pc = "erase" /\ Damaged
  <2>1. flash'[RecordAddr] = flash[RecordAddr]
    BY <1>4, RecordPlace, NoMagic DEF Damaged
  <2> QED BY <1>1, <1>4, <2>1 DEF FlashInv, Unrecorded, Loads
<1>5. CASE pc = "program" /\ flash' \in BlockOutcomes
  <2>1. CASE ram.file_done
    BY <1>2, <1>5, <2>1, BlockPlace
  <2>2. CASE ~ram.file_done
    <3>1. flash'[RecordAddr] = flash[RecordAddr]
      BY <1>5, BlockPlace, NoMagic
    <3>2. Loads
      BY <1>5, <2>2 DEF Loads, ControlInv, Phases
    <3> QED BY <1>1, <3>1, <3>2 DEF FlashInv, Unrecorded
  <2> QED BY <2>1, <2>2
<1>6. CASE pc = "write_record" /\ flash' \in RecordOutcomes
  <2>1. \A a \in 0 .. RecordAddr - 1 : flash'[a] = flash[a]
    BY <1>6, RecordWritten
  <2>2. flash' = flash \/ flash'[RecordAddr] = ram.boot_rec1
    BY <1>6, RecordWritten, NoMagic
  <2>3. Acceptable(ram.boot_rec1) /\ Md5Matches(flash, ram.boot_rec1.img)
    BY <1>6 DEF ControlInv, Accepted, Phases, FlashInv, Complete
  <2> QED BY <1>2, <2>1, <2>2, <2>3, RecordApart
<1> QED BY <1>3, <1>4, <1>5, <1>6 DEF FlashSteps

\* Whatever the step is, its kind and what it does to the flash suffice.
LEMMA FlashKept ==
  ASSUME TypeOK, ControlInv, FlashInv, FlashSteps,
         Ends \/ Continues \/ Accepts \/ Erases \/ Completes \/ Records,
         worn' = worn \/ (worn' = TRUE /\ flash' = flash /\ Erases /\ pc' = "erase")
  PROVE  FlashInv'
<1>1. /\ FlashSteps
      /\ \/ worn' = worn
         \/ worn' = TRUE /\ flash' = flash /\ Erases /\ pc' = "erase"
  OBVIOUS
<1>2. RecordMeansImage'
  BY <1>1, RecordStep
<1>3. Unrecorded'
  <2> SUFFICES ASSUME ~worn', Loads' PROVE ~HasMagic(flash'[RecordAddr])
    BY DEF Unrecorded
  <2>1. ~worn /\ worn' = worn
    BY <1>1
  <2>2. CASE Loads /\ pc # "write_record"
    <3>1. ~HasMagic(flash[RecordAddr])
      BY <2>1, <2>2 DEF FlashInv, Unrecorded
    <3>2. CASE pc = "program" /\ flash' \in BlockOutcomes
      BY <3>1, <3>2, BlockPlace, NoMagic
    <3>3. CASE Damaged
      BY <3>1, <3>3, RecordPlace, NoMagic DEF Damaged
    <3> QED BY <1>1, <2>2, <3>1, <3>2, <3>3 DEF FlashSteps
  <2>3. CASE Erase_record
    <3>1. pc = "erase_record" /\ EraseSector(Sectors - 1) /\ flash \in Contents
      BY <2>3 DEF Erase_record, TypeOK, Contents
    <3>2. CASE flash' = flash /\ worn' = TRUE
      BY <2>1, <3>2
    <3>3. CASE ~HasMagic(flash'[RecordAddr])
      BY <3>3
    <3> QED BY <3>1, <3>2, <3>3, EraseSteps
  <2>4. CASE Ends \/ Accepts \/ Records
    BY <2>4 DEF Ends, Accepts, Records, Loads
  <2>5. CASE Continues
    <3>1. Loads /\ pc # "write_record"
      BY <2>5 DEF Continues, Loads
    <3> QED BY <2>2, <3>1
  <2>6. CASE Erases /\ ~Erase_record
    <3>1. pc = "erase"
      BY <2>6 DEF Erases, Erase_sector, Erase_done
    <3> QED BY <2>2, <3>1 DEF Loads
  <2>7. CASE Completes
    <3>1. Loads /\ pc # "write_record"
      BY <2>7 DEF Completes, Loads
    <3> QED BY <2>2, <3>1
  <2> QED BY <2>3, <2>4, <2>5, <2>6, <2>7
<1>4. Complete'
  <2> SUFFICES ASSUME pc' = "write_record" PROVE Md5Matches(flash', ram'.boot_rec1.img)
    BY DEF Complete
  <2>1. Completes
    BY DEF Ends, Continues, Accepts, Erases, Records
  <2> QED BY <2>1 DEF Completes
<1>5. Started'
  <2> SUFFICES ASSUME pc' = "app" PROVE Stored(flash') # Blank
    BY DEF Started
  <2>1. Ends
    BY DEF Continues, Accepts, Erases, Completes, Records
  <2> QED BY <2>1 DEF Ends
<1>6. DoneMeansStored'
  <2> SUFFICES ASSUME ram'.file_done PROVE Stored(flash') = ram'.boot_rec1.img
    BY DEF DoneMeansStored
  <2>1. CASE Records
    <3>1. /\ pc = "write_record" /\ flash'[RecordAddr] = ram.boot_rec1
          /\ ram'.boot_rec1 = ram.boot_rec1
      BY <2>1 DEF Records
    <3>2. Acceptable(ram.boot_rec1) /\ Md5Matches(flash, ram.boot_rec1.img)
      BY <3>1 DEF ControlInv, Accepted, Phases, FlashInv, Complete
    <3>3. \A a \in 0 .. RecordAddr - 1 : flash'[a] = flash[a]
      BY <1>1, <3>1, RecordWritten DEF FlashSteps
    <3> QED BY <3>1, <3>2, <3>3, RecordApart
  <2>2. CASE ~Records
    <3>1. /\ ram.file_done /\ ram'.boot_rec1 = ram.boot_rec1
          /\ pc # "write_record"
      BY <2>2 DEF Ends, Continues, Accepts, Erases, Completes
    <3> QED BY <1>1, <3>1, DoneKeeps DEF FlashInv
  <2> QED BY <2>1, <2>2
<1> QED BY <1>2, <1>3, <1>4, <1>5, <1>6 DEF FlashInv

LEMMA FlashNext == TypeOK /\ ControlInv /\ FlashInv /\ Next => FlashInv'
BY Kinds, FlashStep, FlashKept

LEMMA InitFlash == Init => FlashInv
<1> SUFFICES ASSUME Init PROVE FlashInv
  OBVIOUS
<1>1. Unrecorded /\ Complete /\ Started /\ DoneMeansStored
  BY DEF Init, Reset, Unrecorded, Loads, Complete, Started, DoneMeansStored
<1>2. RecordMeansImage
  <2>1. CASE flash = Factory
    BY <2>1, RecordPlace, NoMagic DEF Factory, RecordMeansImage
  <2>2. CASE \E i \in Images : Size[i] < RecordAddr /\ flash = Shipped(i)
    <3>1. PICK i \in Images : Size[i] < RecordAddr /\ flash = Shipped(i)
      BY <2>2
    <3>2. flash[RecordAddr] = BootRecord(i) /\ flash[RecordAddr].img = i
      BY <3>1, RecordPlace DEF Shipped, BootRecord
    <3>3. Size[i] \in Nat
      BY ImagesAssumption
    <3>4. \A a \in 0 .. Size[i] - 1 :
            a \in 0 .. FlashLen - 1 /\ a # RecordAddr /\ a < Size[i]
      BY <3>1, <3>3, Lengths
    <3>5. Size[i] <= FlashLen
      BY <3>1, <3>3, Lengths
    <3> QED BY <3>1, <3>2, <3>4, <3>5 DEF Shipped, Md5Matches, RecordMeansImage
  <2> QED BY <2>1, <2>2 DEF Init
<1> QED BY <1>1, <1>2 DEF FlashInv

\* The loader's invariant: types, control and flash.
LoaderInv == TypeOK /\ ControlInv /\ FlashInv

LEMMA LoaderStep == LoaderInv /\ [Next]_vars => LoaderInv'
<1>1. LoaderInv /\ UNCHANGED vars => FlashInv'
  BY DEF LoaderInv, vars, FlashInv, Unrecorded, Loads, Complete, Started,
     RecordMeansImage, DoneMeansStored
<1> QED BY <1>1, TypeStep, ControlStep, FlashNext DEF LoaderInv

\* A packet may come from any sender.
LEMMA PacketLoader ==
  ASSUME LoaderInv, NEW p, Receivable(p), Rcv_packet(p)
  PROVE  LoaderInv'
<1>1. TypeOK /\ ControlInv /\ FlashInv
  BY DEF LoaderInv
<1>2. TypeOK' /\ ControlInv'
  BY <1>1, PacketReceived, PacketControl
<1>3. flash' = flash /\ worn' = worn /\ (Ends \/ Continues)
  BY <1>1, PacketSteps, PacketKinds
<1>4. FlashInv'
  BY <1>1, <1>3, FlashKept DEF FlashSteps
<1> QED BY <1>2, <1>4 DEF LoaderInv

LEMMA InitLoader == Init => LoaderInv
BY InitControl, InitFlash DEF LoaderInv

\* The answer "programming is over" is given only while the image whose
\* header was received is complete in flash with its record
\* (Y_Loader.c:114-126, 415-446).
THEOREM DoneStored == Spec => []DoneMeansStored
<1>1. LoaderInv => DoneMeansStored
  BY DEF LoaderInv, FlashInv
<1> QED BY <1>1, LoaderStep, InitLoader, PTL DEF Spec

\* Unless an erase command has failed, a boot record in flash has its image
\* before it at every point where the power may fail (Y_Loader.c:505-532).
THEOREM RecordComplete == Spec => []RecordMeansImage
<1>1. LoaderInv => RecordMeansImage
  BY DEF LoaderInv, FlashInv
<1> QED BY <1>1, LoaderStep, InitLoader, PTL DEF Spec

-----------------------------------------------------------------------------
(***************************************************************************)
(* The refinement.                                                         *)
(***************************************************************************)
\* What a step does to the image that is stored.
StoredSteps ==
  \/ Stored(flash') = Stored(flash)
  \/ Stored(flash') = Blank
  \/ /\ Stored(flash) = Blank
     /\ Stored(flash') \in IF worn THEN Images ELSE {ram.boot_rec1.img}

LEMMA StoredStep ==
  ASSUME LoaderInv, FlashSteps
  PROVE  StoredSteps
<1>1. TypeOK /\ ControlInv /\ FlashInv
  BY DEF LoaderInv
<1>2. CASE flash' = flash
  BY <1>2 DEF StoredSteps
<1>3. CASE Damaged
  BY <1>3, Damage DEF Damaged, StoredSteps
<1>4. CASE pc = "program" /\ flash' \in BlockOutcomes
  <2>1. CASE ram.file_done
    BY <1>1, <1>4, <2>1, BlockPlace DEF StoredSteps
  <2>2. CASE ~ram.file_done
    <3> SUFFICES ASSUME Stored(flash') # Blank PROVE StoredSteps
      BY DEF StoredSteps
    <3>1. HasMagic(flash'[RecordAddr]) /\ Stored(flash') = flash'[RecordAddr].img
          /\ Stored(flash') \in Images
      BY StoredTyped
    <3>2. flash'[RecordAddr] = flash[RecordAddr]
      BY <1>1, <1>4, <3>1, BlockPlace, NoMagic
    <3>3. Loads
      BY <1>1, <1>4, <2>2 DEF Loads, ControlInv, Phases
    <3>4. worn
      BY <1>1, <3>1, <3>2, <3>3 DEF FlashInv, Unrecorded
    <3>5. Stored(flash) = Blank \/ Stored(flash) = Stored(flash')
      BY <3>1, <3>2, StoredTyped
    <3> QED BY <3>1, <3>4, <3>5 DEF StoredSteps
  <2> QED BY <2>1, <2>2
<1>5. CASE pc = "write_record" /\ flash' \in RecordOutcomes
  <2>1. \A a \in 0 .. RecordAddr - 1 : flash'[a] = flash[a]
    BY <1>1, <1>5, RecordWritten
  <2>2. Acceptable(ram.boot_rec1) /\ Md5Matches(flash, ram.boot_rec1.img)
    BY <1>1, <1>5 DEF ControlInv, Accepted, Phases, FlashInv, Complete
  <2>3. CASE flash'[RecordAddr] = Junk
    BY <2>3, StoredTyped, NoMagic DEF StoredSteps
  <2>4. CASE flash[RecordAddr] = Erased /\ flash'[RecordAddr] = ram.boot_rec1
    <3>1. Stored(flash) = Blank
      BY <2>4, StoredTyped, NoMagic
    <3>2. Stored(flash') = ram.boot_rec1.img /\ ram.boot_rec1.img \in Images
      BY <2>1, <2>2, <2>4, RecordApart
    <3> QED BY <3>1, <3>2 DEF StoredSteps
  <2> QED BY <1>1, <1>2, <1>5, <2>3, <2>4, RecordWritten
<1> QED BY <1>2, <1>3, <1>4, <1>5 DEF FlashSteps

\* What a step does to the image that is being loaded.
LEMMA LoadingStep ==
  ASSUME LoaderInv, Next
  PROVE  /\ Loading' = Loading \/ Loading' = Blank
            \/ (Accepts /\ Loading = Blank /\ Loading' \in Images)
         /\ flash' # flash => Loading = ram.boot_rec1.img /\ Loading \in Images
         /\ Erases => Loading' = Loading
         /\ pc \in {"boot", "check", "app"} => Loading = Blank
<1>1. TypeOK /\ ControlInv /\ ram.blocks_cnt \in Nat
  BY DEF LoaderInv, TypeOK, RamType
<1>p. TypeOK'
  BY <1>1, TypeStep
<1>q. ram'.blocks_cnt \in Nat
  BY <1>p DEF TypeOK, RamType
<1>2. pc \in {"erase_record", "erase", "program", "write_record"}
        => Loading = ram.boot_rec1.img /\ Loading \in Images
  BY <1>1 DEF Loading, ControlInv, Accepted, Phases, Acceptable, HasMagic
<1>3. flash' # flash => Loading = ram.boot_rec1.img /\ Loading \in Images
  BY <1>1, <1>2, FlashStep DEF FlashSteps
<1>4. pc \in {"boot", "check", "app"} => Loading = Blank
  BY <1>1 DEF Loading, ControlInv, Phases
<1>5. ASSUME Ends PROVE Loading' = Blank
  BY <1>5 DEF Ends, Loading
<1>6. ASSUME Continues PROVE Loading' = Loading
  BY <1>1, <1>q, <1>6 DEF Continues, Loading
<1>7. ASSUME Accepts PROVE Loading = Blank /\ Loading' \in Images
  BY <1>7 DEF Accepts, Loading
<1>8. ASSUME Erases PROVE Loading' = Loading
  <2>1. pc \in {"erase_record", "erase"}
    BY <1>8 DEF Erases, Erase_record, Erase_sector, Erase_done
  <2>2. pc' = "erase" \/ ram'.blocks_cnt > 0
    BY <1>q, <1>8 DEF Erases
  <2> QED BY <1>8, <2>1, <2>2 DEF Erases, Loading
<1>9. ASSUME Completes PROVE Loading' = Loading
  BY <1>9 DEF Completes, Loading
<1>10. ASSUME Records PROVE Loading' = Loading
  BY <1>1, <1>q, <1>10 DEF Records, Loading, ControlInv, Phases
<1> QED BY <1>1, <1>3, <1>4, <1>5, <1>6, <1>7, <1>8, <1>9, <1>10, Kinds

\* A stored image runs, and nothing is loaded or written while it does.
LEMMA RunningStep ==
  ASSUME LoaderInv, Next
  PROVE  \/ Running' = Running /\ Running = Blank
         \/ /\ Running = Blank /\ Running' = Stored(flash) /\ Stored(flash) # Blank
            /\ Loading = Blank /\ Loading' = Blank
            /\ flash' = flash /\ worn' = worn
         \/ Running' \in {Running, Blank} /\ Loading' = Blank /\ flash' = flash /\ worn' = worn
<1>1. TypeOK /\ ControlInv
  BY DEF LoaderInv
<1>2. CASE pc = "app"
  <2>1. PowerLoss
    BY <1>2 DEF Next, Program, Boot_programmer, Boot_alone, Check_and_Jump_to_App,
       Check_failed, Pack_gather, Pack_header, Pack_data, Erase_record,
       Erase_sector, Erase_done, Program_block, Program_fails, Program_overrun,
       Finish_check, Finish_record, Line, Rcv_timeout, Rcv_error, Rcv_abort,
       Rcv_CA_CA, Rcv_EOT, Arrival, Rcv_packet
  <2>2. flash' = flash /\ worn' = worn /\ pc' = "boot" /\ ram' = Reset
    BY <1>2, <2>1 DEF PowerLoss, Interrupted
  <2> QED BY <2>2 DEF Running, Loading, Reset
<1>3. CASE pc # "app" /\ pc' = "app"
  <2>1. Ends
    BY <1>1, <1>3, Kinds DEF Continues, Accepts, Erases, Completes, Records
  <2>2. worn' = worn
    BY <1>1, <1>3, FlashStep
  <2> QED BY <1>3, <2>1, <2>2, LoadingStep DEF Ends, Running, Loading
<1>4. CASE pc # "app" /\ pc' # "app"
  BY <1>4 DEF Running
<1> QED BY <1>2, <1>3, <1>4

\* Every step of the loader is one of ImageStore's, or none.
LEMMA StoreStep == LoaderInv /\ [Next]_vars => [Store!Next]_(Store!vars)
<1>1. ASSUME LoaderInv, UNCHANGED vars PROVE UNCHANGED Store!vars
  BY <1>1 DEF vars, Store!vars, Stored, Loading, Running
<1>2. ASSUME LoaderInv, Next PROVE [Store!Next]_(Store!vars)
  <2>1. TypeOK /\ ControlInv
    BY <1>2 DEF LoaderInv
  <2>2. /\ FlashSteps
        /\ \/ worn' = worn
           \/ worn' = TRUE /\ flash' = flash /\ Erases /\ pc' = "erase"
    BY <1>2, <2>1, FlashStep
  <2>3. StoredSteps
    BY <1>2, <2>2, StoredStep
  <2>4. /\ \/ Loading' = Loading \/ Loading' = Blank
           \/ Accepts /\ Loading = Blank /\ Loading' \in Images
        /\ flash' # flash => Loading = ram.boot_rec1.img /\ Loading \in Images
        /\ Erases => Loading' = Loading
    BY <1>2, LoadingStep
  <2>5. flash' = flash => Stored(flash') = Stored(flash)
    OBVIOUS
  <2>6. CASE /\ Running = Blank /\ Running' = Stored(flash) /\ Stored(flash) # Blank
             /\ Loading = Blank /\ Loading' = Blank
             /\ flash' = flash /\ worn' = worn
    BY <2>5, <2>6 DEF Store!Next, Store!Start
  <2>7. CASE /\ Running' \in {Running, Blank} /\ Loading' = Blank
             /\ flash' = flash /\ worn' = worn
    <3>1. CASE Running' = Running
      BY <2>5, <2>7, <3>1 DEF Store!Next, Store!GiveUp
    <3>2. CASE Running' = Blank
      BY <2>5, <2>7, <3>2 DEF Store!Next, Store!PowerOff
    <3> QED BY <2>7, <3>1, <3>2
  <2>8. CASE Running' = Running /\ Running = Blank
    <3>1. CASE worn' = TRUE /\ flash' = flash /\ Erases
      BY <2>4, <2>5, <2>8, <3>1 DEF Store!Next, Store!Wear
    <3>2. CASE worn' = worn /\ Stored(flash') = Stored(flash)
      <4>1. CASE Loading' = Loading
        BY <2>8, <3>2, <4>1 DEF Store!vars
      <4>2. CASE Loading' = Blank
        BY <2>8, <3>2, <4>2 DEF Store!Next, Store!GiveUp
      <4>3. CASE Loading = Blank /\ Loading' \in Images
        BY <2>8, <3>2, <4>3 DEF Store!Next, Store!Accept
      <4> QED BY <2>4, <4>1, <4>2, <4>3
    <3>3. CASE worn' = worn /\ Stored(flash') # Stored(flash)
      <4>1. /\ Loading = ram.boot_rec1.img /\ Loading \in Images /\ Loading # Blank
            /\ Loading' \in {Loading, Blank}
        BY <2>4, <2>5, <3>3, NoMagic
      <4>2. CASE Stored(flash') = Blank
        BY <2>8, <3>3, <4>1, <4>2 DEF Store!Next, Store!Discard
      <4>3. CASE /\ Stored(flash) = Blank
                 /\ Stored(flash') \in IF worn THEN Images ELSE {ram.boot_rec1.img}
        BY <2>8, <3>3, <4>1, <4>3 DEF Store!Next, Store!Install
      <4> QED BY <2>3, <3>3, <4>2, <4>3 DEF StoredSteps
    <3> QED BY <2>2, <3>1, <3>2, <3>3
  <2> QED BY <1>2, <2>6, <2>7, <2>8, RunningStep
<1> QED BY <1>1, <1>2

LEMMA InitStore == Init => Store!Init
BY StoredTyped DEF Init, Reset, Store!Init, Loading, Running

\* The bootloader implements ImageStore: only a complete image is started,
\* and only an image that was found acceptable replaces another.
THEOREM StoreImplemented == Spec => ImplementsImageStore
BY InitLoader, LoaderStep, InitStore, StoreStep, PTL
   DEF Spec, ImplementsImageStore, Store!Spec

=============================================================================
