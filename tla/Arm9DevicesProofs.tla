-------------------------- MODULE Arm9DevicesProofs --------------------------
(***************************************************************************)
(* Proofs about Arm9Devices, for any jobs: the keys that come through the  *)
(* FIFOs of the AES engine are whole, the hash of a SHA job is the digest  *)
(* of its message, and what most drivers deliver is what they should.      *)
(*                                                                         *)
(* Keys: what a key FIFO holds of a key are its first words in the order   *)
(* of writing, placed from the end that CNT's order names (Partial); a     *)
(* change of that order empties the FIFO, so that a key is never placed    *)
(* from both ends.  A key of a slot is made whenever its Y is written.     *)
(* The other drivers, the DMAs and a reset leave the slots alone, and no   *)
(* access of the FIFOs of data changes the order (KeysRest).               *)
(*                                                                         *)
(* Digests: the engine has always taken the first words of the job's       *)
(* message, as many as channel 0 and the processor have given it           *)
(* (Accepted): the whole blocks among them are its hash, in order, and the *)
(* rest is in its FIFO (Taken).  Channel 0 is at the word that comes next  *)
(* whenever it copies, and in between its registers say how far it is      *)
(* (Working); nobody else writes to the engine, and the processor begins   *)
(* when the channel has ended.  The final round makes of the hash and the  *)
(* FIFO the blocks of the padded message (FinalIsDigest).                  *)
(*                                                                         *)
(* Deliveries: only the memory and the FIFO of the job's device are on the *)
(* bus of the DMA, no channel repeats or reloads, and the driver does only *)
(* the job's steps (BusInv).  For each kind of job an invariant says how   *)
(* far the driver, the channel and the device are, and which words there   *)
(* are at that point, for those that read back what they wrote as well as  *)
(* for the others (CopyInv, SdInv, CardInv, Card2Inv, RsaInv, SaveInv).    *)
(***************************************************************************)
EXTENDS Arm9Devices, TLAPS, SequenceTheorems, FiniteSetTheorems, NumberLemmas

Vectors == [1..4 -> Nat]
Material == Vectors \union ({"3ds", "dsi"} \X Vectors \X Vectors)

KeysType ==
    keys \in [slot : [Slots -> [KeyKinds -> Material]], KEYCNT : Slots, KEYSEL : Slots,
              fifo : [KeyKinds -> Vectors], ctr : [KeyKinds -> 0..3]]

(* The fields of the engine and of the driver that matter here exist. *)
Fields_ ==
    /\ "in_word_order" \in DOMAIN aes
    /\ {"j", "todo", "left", "fed"} \subseteq DOMAIN job

(* The places of the first c words. *)
Places(c, order) == {i \in 1..4 : IF order THEN i <= c ELSE i > 4 - c}

(* The words of a vector at the places of its first c ones are in order.    *)
Partial(v, c, order, bound) ==
    \A i \in Places(c, order) :
        /\ v[i] < bound
        /\ \A k \in Places(c, order) : i < k => IF order THEN v[i] < v[k] ELSE v[i] > v[k]

HalfKinds == {"x", "y"}

Filling ==
    /\ job.left = 1 /\ job.fed \in Nat
    /\ aes.in_word_order \in BOOLEAN
    /\ \A k \in HalfKinds :
           Partial(keys.fifo[k], keys.ctr[k], aes.in_word_order, 10 + job.fed)
    /\ \A s \in Slots :
           /\ keys.slot[s]["x"] \in Vectors /\ keys.slot[s]["y"] \in Vectors
           /\ keys.slot[s]["normal"] # None4 =>
                  keys.slot[s]["normal"][3] = keys.slot[s]["y"]
    /\ \A s \in Slots : Ordered(keys.slot[s]["x"])
    /\ Ordered(keys.slot[63]["y"])

Blank == keys.slot = [s \in Slots |-> [k \in KeyKinds |-> None4]]

KeyInv ==
    /\ KeysType /\ Fields_
    /\ IF job.j.route = "keys" THEN Filling ELSE Blank

-----------------------------------------------------------------------------
(* What leaves the keys alone. *)

(* The keys, the order of the words, and the driver's place.                *)
KeysRest ==
    /\ keys' = keys
    /\ DOMAIN aes' = DOMAIN aes /\ aes'.in_word_order = aes.in_word_order

(* A step of another driver: of the keys it changes the FIFOs' counters and *)
(* selectors at most.                                                       *)
Elsewhere ==
    /\ KeysType' /\ keys'.slot = keys.slot /\ DOMAIN aes' = DOMAIN aes

LEMMA CryptKeeps ==
    ASSUME Fields_, NEW a, DOMAIN a = DOMAIN aes, a.in_word_order = aes.in_word_order,
           CryptCheck(a)
    PROVE  KeysRest
<1>1. DOMAIN Crypt(a) = DOMAIN a /\ Crypt(a).in_word_order = a.in_word_order
  BY DEF Crypt, Fields_
<1> QED BY <1>1 DEF CryptCheck, KeysRest

LEMMA DataKeeps ==
    ASSUME Fields_
    PROVE  /\ \A word : write_input_fifo(word) => KeysRest
           /\ ReadRdFifo => KeysRest
<1>1. ASSUME NEW word, write_input_fifo(word)
      PROVE  KeysRest
  <2> DEFINE temp == Placed(aes.temp, aes.temp_ctr, word, aes.in_word_order)
             a == IF aes.temp_ctr < 3
                  THEN [aes EXCEPT !.temp = temp, !.temp_ctr = @ + 1]
                  ELSE [aes EXCEPT !.temp = temp, !.temp_ctr = 0, !.input = @ \o temp]
  <2>1. DOMAIN a = DOMAIN aes /\ a.in_word_order = aes.in_word_order
    BY DEF Fields_
  <2>2. CryptCheck(a)
    BY <1>1 DEF write_input_fifo
  <2> HIDE DEF a
  <2> QED BY <2>1, <2>2, CryptKeeps
<1>2. ASSUME ReadRdFifo
      PROVE  KeysRest
  <2> DEFINE a == IF aes.output = <<>> THEN aes
                  ELSE [aes EXCEPT !.most_recent = Head(aes.output), !.output = Tail(@)]
  <2>1. DOMAIN a = DOMAIN aes /\ a.in_word_order = aes.in_word_order
    BY DEF Fields_
  <2>2. CryptCheck(a)
    BY <1>2 DEF ReadRdFifo
  <2> HIDE DEF a
  <2> QED BY <2>1, <2>2, CryptKeeps
<1> QED BY <1>1, <1>2

LEMMA UntouchedRests == UNCHANGED aesVars => KeysRest
BY DEF aesVars, KeysRest

(* An access of the bus. *)
LEMMA BusKeeps ==
    ASSUME Fields_
    PROVE  /\ \A addr : arm9_read32(addr) => KeysRest
           /\ \A addr, word : arm9_write32(addr, word) => KeysRest
<1>1. BySha \/ ByMmc \/ ByCard \/ NoDevice => UNCHANGED aesVars
  BY DEF BySha, ByMmc, ByCard, NoDevice, devices, aesVars
<1>2. ASSUME NEW addr, arm9_read32(addr)
      PROVE  KeysRest
  BY <1>1, <1>2, DataKeeps, UntouchedRests DEF arm9_read32
<1>3. ASSUME NEW addr, NEW word, arm9_write32(addr, word)
      PROVE  KeysRest
  BY <1>1, <1>3, DataKeeps, UntouchedRests DEF arm9_write32
<1> QED BY <1>2, <1>3

(* The DMAs and the events. *)
LEMMA DmaKeeps ==
    ASSUME Fields_, Dma \/ Defer \/ Deliver \/ EndSlice
    PROVE  KeysRest /\ job' = job
<1>1. UNCHANGED devices => UNCHANGED aesVars
  BY DEF devices, aesVars
<1>2. CASE DmaRead \/ DmaWrite
  BY <1>2, BusKeeps DEF DmaRead, DmaWrite
<1>3. CASE XdmaLoad \/ XdmaStore
  BY <1>3, BusKeeps DEF XdmaLoad, XdmaStore
<1>4. CASE Ndma \/ Xdma \/ Defer \/ Deliver \/ EndSlice
  BY <1>1, <1>4, UntouchedRests DEF Ndma, Xdma, Defer, Deliver, Events, EndSlice
<1> QED BY <1>2, <1>3, <1>4 DEF Dma

LEMMA RestKeeps == KeyInv /\ KeysRest /\ job' = job => KeyInv'
BY DEF KeyInv, KeysRest, KeysType, Fields_, Filling, Blank

-----------------------------------------------------------------------------
(* The other drivers. *)

(* A driver's step leaves the kind of its jobs as it is. *)
SameRoute == /\ {"j", "todo", "left", "fed"} \subseteq DOMAIN job'
             /\ job'.j = job.j

LEMMA JobKeeps ==
    ASSUME Fields_
    PROVE  /\ \A name, needed : Step(name, needed) => SameRoute
           /\ \A words : Fed(words) => SameRoute
           /\ \A todo : job' = [job EXCEPT !.todo = todo] => SameRoute
           /\ job' = job => SameRoute
BY DEF Step, Fed, SameRoute, Fields_

LEMMA ControlKeeps ==
    ASSUME KeysType, Fields_, NEW cnt, NEW select, "in_word_order" \in DOMAIN cnt,
           WriteCnt(cnt, select)
    PROVE  /\ Elsewhere
           /\ keys' = [keys EXCEPT !.ctr = Flushed(cnt.in_word_order)]
           /\ aes'.in_word_order = cnt.in_word_order
<1>1. /\ DOMAIN aes' = DOMAIN aes
      /\ aes'.in_word_order = cnt.in_word_order
  BY DEF WriteCnt, Updated, Fields_
<1>2. keys' = [keys EXCEPT !.ctr = Flushed(cnt.in_word_order)]
  BY DEF WriteCnt
<1>3. Flushed(cnt.in_word_order) \in [KeyKinds -> 0..3]
  BY DEF Flushed, KeysType
<1> QED BY <1>1, <1>2, <1>3 DEF KeysType, Elsewhere

LEMMA UntouchedIsElsewhere ==
    /\ KeysType /\ UNCHANGED aesVars => Elsewhere
    /\ UNCHANGED devices => UNCHANGED aesVars
    /\ BySha \/ ByMmc \/ ByCard \/ ByRsa \/ OnlyDma \/ OnlyXdma => UNCHANGED aesVars
BY DEF Elsewhere, KeysType, aesVars, devices, BySha, ByMmc, ByCard, ByRsa, OnlyDma, OnlyXdma

LEMMA AesJobKeeps ==
    ASSUME KeysType, Fields_, AesJob
    PROVE  Elsewhere /\ SameRoute
<1>1. ASSUME \E n : write_block_count(n)
      PROVE  Elsewhere
  BY <1>1 DEF write_block_count, Elsewhere, KeysType
<1>2. ASSUME \E n : write_ctr(n)
      PROVE  Elsewhere
  BY <1>2 DEF write_ctr, Elsewhere, KeysType
<1>3. ASSUME NEW mode, NEW inorder, NEW outorder,
             WriteCnt([mode |-> mode, in_word_order |-> inorder, out_word_order |-> outorder,
                       irq_enable |-> TRUE, busy |-> TRUE], TRUE)
      PROVE  Elsewhere
  BY <1>3, ControlKeeps
<1>4. ASSUME OnlyDma
      PROVE  Elsewhere
  BY <1>4, UntouchedIsElsewhere
<1>5. Elsewhere
  BY <1>1, <1>2, <1>3, <1>4 DEF AesJob, SetUp, Launch
<1> QED BY <1>5, JobKeeps DEF AesJob, SetUp, Launch

LEMMA ShaJobKeeps ==
    ASSUME KeysType, Fields_, ShaJob
    PROVE  Elsewhere /\ SameRoute
<1>1. ASSUME NEW order, WriteCnt([in_word_order |-> order], FALSE)
      PROVE  Elsewhere
  BY <1>1, ControlKeeps
<1>2. ASSUME BySha \/ OnlyDma
      PROVE  Elsewhere
  BY <1>2, UntouchedIsElsewhere
<1>3. Elsewhere
  BY <1>1, <1>2 DEF ShaJob, ShaChannels, SetUp, Launch
<1> QED BY <1>3, JobKeeps DEF ShaJob, ShaChannels, SetUp, Launch

LEMMA StorageJobsKeep ==
    ASSUME KeysType, Fields_, MmcJob \/ SdJob \/ MmcStopChannel \/ MmcStop
    PROVE  Elsewhere /\ SameRoute
<1>1. ASSUME ByMmc \/ OnlyDma
      PROVE  Elsewhere
  BY <1>1, UntouchedIsElsewhere
<1>2. CASE MmcJob
  BY <1>1, <1>2, JobKeeps DEF MmcJob, MmcSetUp, MmcWord, SetUp, Launch
<1>3. CASE SdJob
  BY <1>1, <1>3, JobKeeps DEF SdJob
<1>4. CASE MmcStopChannel \/ MmcStop
  BY <1>1, <1>4, JobKeeps DEF MmcStopChannel, MmcStop
<1> QED BY <1>2, <1>3, <1>4

LEMMA CardJobsKeep ==
    ASSUME KeysType, Fields_, CardJob \/ Card2Job \/ SaveJob
    PROVE  Elsewhere /\ SameRoute
<1>1. ASSUME ByCard \/ OnlyDma
      PROVE  Elsewhere
  BY <1>1, UntouchedIsElsewhere
<1>2. CASE CardJob
  BY <1>1, <1>2, JobKeeps DEF CardJob, CardWord, SetUp, Launch
<1>3. CASE Card2Job
  BY <1>1, <1>3, JobKeeps DEF Card2Job
<1>4. CASE SaveJob
  BY <1>1, <1>4, JobKeeps DEF SaveJob
<1> QED BY <1>2, <1>3, <1>4

LEMMA OtherJobsKeep ==
    ASSUME KeysType, Fields_, XdmaJob \/ RsaJob \/ CopyJob
    PROVE  Elsewhere /\ SameRoute
<1>1. ASSUME BySha \/ ByRsa \/ OnlyDma \/ OnlyXdma
      PROVE  Elsewhere
  BY <1>1, UntouchedIsElsewhere
<1>2. CASE XdmaJob
  BY <1>1, <1>2, JobKeeps DEF XdmaJob, SetUp, Launch
<1>3. CASE RsaJob
  <2>1. job' = [job EXCEPT !.fed = @ + 1] => SameRoute
    BY DEF Fields_, SameRoute
  <2> QED BY <1>1, <1>3, <2>1, JobKeeps DEF RsaJob
<1>4. CASE CopyJob
  BY <1>1, <1>4, JobKeeps DEF CopyJob, SetUp
<1> QED BY <1>2, <1>3, <1>4

(* Another job, after a reset or not. *)
LEMMA NextProgramKeeps ==
    ASSUME Fields_, NextProgram
    PROVE  /\ {"j", "todo", "left", "fed"} \subseteq DOMAIN job'
           /\ job'.j.route = job.j.route
BY DEF NextProgram, Program

LEMMA ElsewhereStep ==
    ASSUME KeyInv, Elsewhere, job.j.route # "keys", job'.j.route = job.j.route,
           {"j", "todo", "left", "fed"} \subseteq DOMAIN job'
    PROVE  KeyInv'
BY DEF KeyInv, Elsewhere, Fields_, Blank

LEMMA OtherDriverStep ==
    ASSUME KeyInv, Reset \/ (Driver /\ ~KeyJob)
    PROVE  KeyInv'
<1>1. KeysType /\ Fields_
  BY DEF KeyInv
<1>2. job.j.route = "keys" => ~(job.left > 1)
  BY DEF KeyInv, Filling
<1>3. CASE Reset
  <2>1. Elsewhere
    <3>1. 0 \in Slots /\ [k \in KeyKinds |-> 0] \in [KeyKinds -> 0..3]
      BY DEF Slots
    <3>2. DOMAIN aes' = DOMAIN aes
      BY <1>3 DEF Reset, AesReset
    <3>3. KeysType' /\ keys'.slot = keys.slot
      BY <1>1, <1>3, <3>1 DEF Reset, AesReset, KeysType
    <3> QED BY <3>2, <3>3 DEF Elsewhere
  <2> QED BY <1>1, <1>2, <1>3, <2>1, NextProgramKeeps, ElsewhereStep DEF Reset
<1>4. CASE NextJob
  <2>1. Elsewhere
    BY <1>1, <1>4, UntouchedIsElsewhere DEF NextJob
  <2> QED BY <1>1, <1>2, <1>4, <2>1, NextProgramKeeps, ElsewhereStep DEF NextJob
<1>5. CASE AesJob \/ ShaJob \/ XdmaJob \/ MmcJob \/ SdJob \/ MmcStopChannel \/ MmcStop
           \/ CardJob \/ Card2Job \/ SaveJob \/ RsaJob \/ CopyJob
  <2>1. Elsewhere /\ SameRoute
    BY <1>1, <1>5, AesJobKeeps, ShaJobKeeps, StorageJobsKeep, CardJobsKeep, OtherJobsKeep
  <2>2. job.j.route # "keys"
    BY <1>5 DEF AesJob, ShaJob, XdmaJob, MmcJob, SdJob, MmcStopChannel, MmcStop, CardJob,
                Card2Job, SaveJob, RsaJob, CopyJob, On
  <2> QED BY <2>1, <2>2, ElsewhereStep DEF SameRoute
<1> QED BY <1>3, <1>4, <1>5 DEF Driver

-----------------------------------------------------------------------------
(* The driver of the keys. *)

LEMMA FourPlaces == 1..4 = {1, 2, 3, 4} /\ 0..3 = {0, 1, 2, 3} /\ 1..3 = {1, 2, 3}
OBVIOUS

LEMMA NoneIsVector == None4 \in Vectors /\ Ordered(None4)
<1>1. DOMAIN None4 = 1..4 /\ None4 = [i \in 1..4 |-> 0]
  BY FourPlaces DEF None4
<1> QED BY <1>1 DEF Vectors, Ordered

(* A word goes to the place that is next. *)
LEMMA PlacedNext ==
    ASSUME NEW v \in Vectors, NEW c \in 0..3, NEW order \in BOOLEAN, NEW word \in Nat,
           Partial(v, c, order, word)
    PROVE  /\ Placed(v, c, word, order) \in Vectors
           /\ Partial(Placed(v, c, word, order), c + 1, order, word + 1)
<1> DEFINE place == IF order THEN c + 1 ELSE 4 - c
           w == Placed(v, c, word, order)
<1>1. place \in 1..4 /\ w = [v EXCEPT ![place] = word]
  BY DEF Placed
<1>2. w \in Vectors /\ (\A i \in 1..4 : w[i] = IF i = place THEN word ELSE v[i])
  BY <1>1 DEF Vectors
<1>3. Places(c + 1, order) = Places(c, order) \union {place}
  BY FourPlaces DEF Places
<1>4. \A i \in Places(c, order) : i \in 1..4 /\ i # place /\ w[i] = v[i] /\ v[i] \in Nat
  BY <1>2 DEF Places, Vectors
<1>5. w[place] = word
  BY <1>1, <1>2
<1>6. \A i \in Places(c, order) : IF order THEN i < place ELSE place < i
  BY DEF Places
<1> HIDE DEF place, w
<1>7. Partial(w, c + 1, order, word + 1)
  BY <1>1, <1>3, <1>4, <1>5, <1>6 DEF Partial
<1> QED BY <1>2, <1>7 DEF w

(* Four of them are a half of a key. *)
LEMMA FullIsOrdered ==
    ASSUME NEW v \in Vectors, NEW order \in BOOLEAN, NEW bound, Partial(v, 4, order, bound)
    PROVE  Ordered(v)
<1>1. Places(4, order) = 1..4
  BY DEF Places
<1> QED BY <1>1, FourPlaces DEF Partial, Ordered

LEMMA NothingIsPartial ==
    ASSUME NEW v, NEW order \in BOOLEAN, NEW bound
    PROVE  Partial(v, 0, order, bound)
BY DEF Partial, Places

LEMMA MoreIsPartial ==
    ASSUME NEW v \in Vectors, NEW c, NEW order, NEW bound \in Nat, Partial(v, c, order, bound)
    PROVE  Partial(v, c, order, bound + 1)
BY DEF Partial, Places, Vectors

LEMMA GeneratedIs ==
    ASSUME NEW x \in Vectors, NEW y \in Vectors, NEW scheme \in {"3ds", "dsi"}
    PROVE  Generated(scheme, x, y) \in Material /\ Generated(scheme, x, y)[3] = y
BY DEF Generated, Material

(* What a key FIFO does, by fields. *)
LEMMA WriteKeyFifoIs ==
    ASSUME KeysType, NEW kind \in HalfKinds, NEW word \in Nat, WriteKeyFifo(kind, word),
           NEW filled \in Vectors,
           filled = Placed(keys.fifo[kind], keys.ctr[kind], word, aes.in_word_order),
           \A s \in Slots : keys.slot[s]["x"] \in Vectors /\ keys.slot[s]["y"] \in Vectors
    PROVE  /\ KeysType' /\ aes' = aes
           /\ \A k \in KeyKinds :
                  /\ keys'.fifo[k] = IF k = kind THEN filled ELSE keys.fifo[k]
                  /\ keys'.ctr[k] = IF k = kind THEN (keys.ctr[k] + 1) % 4 ELSE keys.ctr[k]
           /\ \A s \in Slots : \A k \in HalfKinds :
                  keys'.slot[s][k] = IF s = keys.KEYCNT /\ k = kind /\ keys.ctr[kind] = 3
                                     THEN filled ELSE keys.slot[s][k]
           /\ \A s \in Slots :
                  \/ /\ keys'.slot[s]["normal"] = keys.slot[s]["normal"]
                     /\ keys'.slot[s]["y"] = keys.slot[s]["y"]
                  \/ keys'.slot[s]["normal"][3] = keys'.slot[s]["y"]
<1> DEFINE old == keys.slot[keys.KEYCNT]
           whole == [old EXCEPT ![kind] = filled]
           new == IF keys.ctr[kind] < 3 THEN old
                  ELSE IF kind # "y" THEN whole
                  ELSE [whole EXCEPT !["normal"] = Generated("3ds", whole["x"], whole["y"])]
<1>1. /\ aes' = aes
      /\ keys' = [keys EXCEPT !.fifo[kind] = filled, !.ctr[kind] = (@ + 1) % 4,
                              !.slot[keys.KEYCNT] = new]
  BY DEF WriteKeyFifo
<1>2. /\ kind \in KeyKinds /\ keys.KEYCNT \in Slots /\ keys.ctr[kind] \in 0..3
      /\ old \in [KeyKinds -> Material] /\ old["x"] \in Vectors /\ old["y"] \in Vectors
  BY DEF KeysType, HalfKinds, KeyKinds
<1>3. whole \in [KeyKinds -> Material] /\ whole["x"] \in Vectors /\ whole["y"] \in Vectors
  BY <1>2 DEF HalfKinds, KeyKinds, Material
<1>4. /\ new \in [KeyKinds -> Material]
      /\ \A k \in HalfKinds :
             new[k] = IF k = kind /\ keys.ctr[kind] = 3 THEN filled ELSE old[k]
      /\ (new["normal"] = old["normal"] /\ new["y"] = old["y"]) \/ new["normal"][3] = new["y"]
  <2> DEFINE made == Generated("3ds", whole["x"], whole["y"])
  <2>1. made \in Material /\ made[3] = whole["y"]
    BY <1>3, GeneratedIs
  <2>2. CASE keys.ctr[kind] < 3
    BY <1>2, <2>2
  <2>3. CASE ~(keys.ctr[kind] < 3)
    <3>1. keys.ctr[kind] = 3
      BY <1>2, <2>3
    <3>2. \A k \in KeyKinds : whole[k] = IF k = kind THEN filled ELSE old[k]
      BY <1>2
    <3>3. CASE kind # "y"
      <4>1. new = whole
        BY <2>3, <3>3
      <4> HIDE DEF new, whole, old
      <4> QED BY <1>3, <3>1, <3>2, <3>3, <4>1 DEF HalfKinds, KeyKinds
    <3>4. CASE kind = "y"
      <4>1. new = [whole EXCEPT !["normal"] = made]
        BY <2>3, <3>4
      <4> HIDE DEF new, whole, old, made
      <4>2. \A k \in KeyKinds : new[k] = IF k = "normal" THEN made ELSE whole[k]
        BY <1>3, <4>1
      <4>3. new \in [KeyKinds -> Material]
        BY <1>3, <2>1, <4>1
      <4> QED BY <2>1, <3>1, <3>2, <3>4, <4>2, <4>3 DEF HalfKinds, KeyKinds
    <3> QED BY <3>3, <3>4
  <2> QED BY <2>2, <2>3
<1> HIDE DEF new, whole
<1>5. (keys.ctr[kind] + 1) % 4 \in 0..3
  BY <1>2, FourPlaces
<1>6. /\ keys'.fifo = [keys.fifo EXCEPT ![kind] = filled]
      /\ keys'.ctr = [keys.ctr EXCEPT ![kind] = (keys.ctr[kind] + 1) % 4]
      /\ keys'.slot = [keys.slot EXCEPT ![keys.KEYCNT] = new]
      /\ KeysType'
  BY <1>1, <1>2, <1>4, <1>5 DEF KeysType
<1>7. \A s \in Slots : keys'.slot[s] = IF s = keys.KEYCNT THEN new ELSE keys.slot[s]
  BY <1>2, <1>6 DEF KeysType
<1>8. \A k \in KeyKinds :
         /\ keys'.fifo[k] = IF k = kind THEN filled ELSE keys.fifo[k]
         /\ keys'.ctr[k] = IF k = kind THEN (keys.ctr[k] + 1) % 4 ELSE keys.ctr[k]
  BY <1>2, <1>6 DEF KeysType
<1> QED BY <1>1, <1>2, <1>4, <1>6, <1>7, <1>8
LEMMA HalfIsWritten ==
    ASSUME KeysType, Fields_, Filling, NEW kind \in HalfKinds,
           WriteKeyFifo(kind, 10 + job.fed), Fed(1)
    PROVE  KeysType' /\ aes' = aes /\ Filling'
<1> DEFINE word == 10 + job.fed
           order == aes.in_word_order
           filled == Placed(keys.fifo[kind], keys.ctr[kind], word, order)
<1>1. /\ word \in Nat /\ order \in BOOLEAN /\ HalfKinds \subseteq KeyKinds
      /\ kind \in KeyKinds /\ 63 \in Slots
      /\ \A k \in KeyKinds : keys.fifo[k] \in Vectors /\ keys.ctr[k] \in 0..3
      /\ \A k \in HalfKinds : Partial(keys.fifo[k], keys.ctr[k], order, word)
  BY DEF KeysType, Filling, HalfKinds, KeyKinds, Slots
<1>2. job'.left = 1 /\ job'.fed = job.fed + 1 /\ job'.fed \in Nat
  BY DEF Fed, Fields_, Filling
<1>3. 10 + job'.fed = word + 1
  BY <1>2 DEF Filling
<1> HIDE DEF word
<1>4. filled \in Vectors /\ Partial(filled, keys.ctr[kind] + 1, order, word + 1)
  BY <1>1, PlacedNext
<1> HIDE DEF filled
<1>5. /\ KeysType' /\ aes' = aes
      /\ \A k \in KeyKinds :
             /\ keys'.fifo[k] = IF k = kind THEN filled ELSE keys.fifo[k]
             /\ keys'.ctr[k] = IF k = kind THEN (keys.ctr[k] + 1) % 4 ELSE keys.ctr[k]
      /\ \A s \in Slots : \A k \in HalfKinds :
             keys'.slot[s][k] = IF s = keys.KEYCNT /\ k = kind /\ keys.ctr[kind] = 3
                                THEN filled ELSE keys.slot[s][k]
      /\ \A s \in Slots :
             \/ /\ keys'.slot[s]["normal"] = keys.slot[s]["normal"]
                /\ keys'.slot[s]["y"] = keys.slot[s]["y"]
             \/ keys'.slot[s]["normal"][3] = keys'.slot[s]["y"]
  BY <1>1, <1>4, WriteKeyFifoIs DEF Filling, word, filled
<1>6. \A k \in HalfKinds : Partial(keys'.fifo[k], keys'.ctr[k], order, word + 1)
  <2> TAKE k \in HalfKinds
  <2>1. CASE k # kind
    BY <1>1, <1>5, <2>1, MoreIsPartial
  <2>2. CASE k = kind /\ keys.ctr[kind] = 3
    <3>1. keys'.ctr[k] = 0
      BY <1>1, <1>5, <2>2
    <3> QED BY <1>1, <3>1, NothingIsPartial
  <2>3. CASE k = kind /\ keys.ctr[kind] # 3
    <3>1. (keys.ctr[kind] + 1) % 4 = keys.ctr[kind] + 1
      BY <1>1, <2>3, FourPlaces
    <3> QED BY <1>1, <1>4, <1>5, <2>3, <3>1
  <2> QED BY <2>1, <2>2, <2>3
<1>7. keys.ctr[kind] = 3 => Ordered(filled)
  BY <1>1, <1>4, FullIsOrdered
<1>8. /\ \A s \in Slots : keys'.slot[s]["x"] \in Vectors /\ keys'.slot[s]["y"] \in Vectors
      /\ \A s \in Slots : Ordered(keys'.slot[s]["x"])
      /\ Ordered(keys'.slot[63]["y"])
  BY <1>1, <1>4, <1>5, <1>7 DEF Filling, HalfKinds
<1>9. \A s \in Slots : keys'.slot[s]["normal"] # None4 =>
                           keys'.slot[s]["normal"][3] = keys'.slot[s]["y"]
  BY <1>5 DEF Filling
<1> QED BY <1>1, <1>2, <1>3, <1>5, <1>6, <1>8, <1>9 DEF Filling

LEMMA DsiIsWritten ==
    ASSUME KeysType, Fields_, Filling, NEW i \in 0..3,
           WriteDsiKey(0, "y", i, 10 + job.fed), job'.left = job.left, job'.fed = job.fed
    PROVE  KeysType' /\ aes' = aes /\ Filling'
<1> DEFINE old == keys.slot[0]
           half == Placed(old["y"], i, 10 + job.fed, TRUE)
           written == [old EXCEPT !["y"] = half]
           made == Generated("dsi", written["x"], written["y"])
           new == [written EXCEPT !["normal"] = made]
<1>1. /\ 0 \in Slots /\ 63 \in Slots /\ old \in [KeyKinds -> Material]
      /\ old["x"] \in Vectors /\ old["y"] \in Vectors /\ 10 + job.fed \in Nat
  BY DEF KeysType, Filling, Slots
<1>2. aes' = aes /\ keys' = [keys EXCEPT !.slot[0] = new]
  BY DEF WriteDsiKey
<1>3. half \in Vectors
  BY <1>1 DEF Placed, Vectors
<1> HIDE DEF half
<1>4. /\ written \in [KeyKinds -> Material]
      /\ written["x"] = old["x"] /\ written["y"] = half
  BY <1>1, <1>3 DEF KeyKinds, Material
<1> HIDE DEF written
<1>5. made \in Material /\ made[3] = half
  BY <1>1, <1>3, <1>4, GeneratedIs
<1> HIDE DEF made
<1>6. /\ new \in [KeyKinds -> Material]
      /\ new["x"] = old["x"] /\ new["y"] = half /\ new["normal"] = made
  BY <1>4, <1>5 DEF KeyKinds
<1> HIDE DEF new
<1>7. /\ keys'.slot = [keys.slot EXCEPT ![0] = new]
      /\ keys'.fifo = keys.fifo /\ keys'.ctr = keys.ctr /\ KeysType'
  BY <1>1, <1>2, <1>6 DEF KeysType
<1>8. \A s \in Slots : keys'.slot[s] = IF s = 0 THEN new ELSE keys.slot[s]
  BY <1>7 DEF KeysType
<1>9. \A s \in Slots :
          /\ keys'.slot[s]["x"] \in Vectors /\ keys'.slot[s]["y"] \in Vectors
          /\ Ordered(keys'.slot[s]["x"])
          /\ keys'.slot[s]["normal"] # None4 =>
                 keys'.slot[s]["normal"][3] = keys'.slot[s]["y"]
  BY <1>1, <1>3, <1>5, <1>6, <1>8 DEF Filling
<1>10. Ordered(keys'.slot[63]["y"])
  BY <1>1, <1>8 DEF Filling
<1> QED BY <1>2, <1>7, <1>9, <1>10 DEF Filling

LEMMA KeyJobStep == KeyInv /\ KeyJob => KeyInv'
<1> SUFFICES ASSUME KeyInv, KeyJob
             PROVE  KeyInv'
  OBVIOUS
<1>1. KeysType /\ Fields_ /\ Filling /\ job.j.route = "keys"
  BY DEF KeyJob, On, KeyInv
<1>2. \A name, needed : Step(name, needed) =>
          SameRoute /\ job'.left = job.left /\ job'.fed = job.fed
  BY <1>1, JobKeeps DEF Step, Fields_
<1>3. SameRoute
  BY <1>1, <1>2, JobKeeps DEF KeyJob
<1>4. CASE \E kind \in HalfKinds : WriteKeyFifo(kind, 10 + job.fed) /\ Fed(1)
  BY <1>1, <1>3, <1>4, HalfIsWritten DEF KeyInv, Fields_, SameRoute
<1>5. CASE Step("dsi", {}) /\ \E i \in 0..3 : WriteDsiKey(0, "y", i, 10 + job.fed)
  BY <1>1, <1>2, <1>3, <1>5, DsiIsWritten DEF KeyInv, Fields_, SameRoute
<1>6. CASE Step("flip", {}) /\ WriteCnt([in_word_order |-> ~aes.in_word_order], TRUE)
  <2> DEFINE cnt == [in_word_order |-> ~aes.in_word_order]
  <2>1. "in_word_order" \in DOMAIN cnt /\ cnt.in_word_order = ~aes.in_word_order
    OBVIOUS
  <2>2. WriteCnt(cnt, TRUE)
    BY <1>6
  <2> HIDE DEF cnt
  <2>3. /\ Elsewhere /\ aes'.in_word_order = ~aes.in_word_order
        /\ keys' = [keys EXCEPT !.ctr = Flushed(~aes.in_word_order)]
    BY <1>1, <2>1, <2>2, ControlKeeps
  <2>4. aes.in_word_order \in BOOLEAN
    BY <1>1 DEF Filling
  <2>5. Flushed(~aes.in_word_order) = [k \in KeyKinds |-> 0]
    BY <2>4 DEF Flushed
  <2>6. /\ \A k \in HalfKinds : keys'.ctr[k] = 0
        /\ keys'.slot = keys.slot
    BY <1>1, <2>3, <2>5 DEF KeysType, HalfKinds, KeyKinds
  <2>7. aes'.in_word_order \in BOOLEAN
    BY <2>3, <2>4
  <2>8. Filling'
    BY <1>1, <1>2, <1>6, <2>6, <2>7, NothingIsPartial DEF Filling
  <2> QED BY <1>1, <1>3, <2>3, <2>8 DEF KeyInv, Elsewhere, Fields_, SameRoute
<1>7. CASE Step("slot", {}) /\ WriteKeySelectors(0, 63)
  <2>1. aes' = aes /\ keys' = [keys EXCEPT !.KEYCNT = 0, !.KEYSEL = 63]
    BY <1>7 DEF WriteKeySelectors
  <2>2. /\ KeysType' /\ keys'.slot = keys.slot /\ keys'.fifo = keys.fifo
        /\ keys'.ctr = keys.ctr
    BY <1>1, <2>1 DEF KeysType, Slots
  <2>3. Filling'
    BY <1>1, <1>2, <1>7, <2>1, <2>2 DEF Filling
  <2> QED BY <1>1, <1>3, <2>1, <2>2, <2>3 DEF KeyInv, Fields_, SameRoute
<1> QED BY <1>4, <1>5, <1>6, <1>7 DEF KeyJob, HalfKinds

-----------------------------------------------------------------------------

LEMMA KeyInit == Init => KeyInv
<1> SUFFICES ASSUME Init PROVE KeyInv
  OBVIOUS
<1>1. None4 \in Vectors /\ None4 \in Material /\ Ordered(None4)
  BY NoneIsVector DEF Material
<1>2. /\ keys.slot = [s \in Slots |-> [k \in KeyKinds |-> None4]]
      /\ keys.fifo = [k \in KeyKinds |-> None4] /\ keys.ctr = [k \in KeyKinds |-> 0]
      /\ aes.in_word_order = FALSE /\ "in_word_order" \in DOMAIN aes
  BY DEF Init, AesInit
<1>3. KeysType
  BY <1>1 DEF Init, AesInit, KeysType, Slots
<1>4. Fields_ /\ (job.j.route = "keys" => job.left = 1) /\ job.fed = 0
  BY <1>2 DEF Init, Fields_, Program
<1>5. ASSUME job.j.route = "keys"
      PROVE  Filling
  <2>1. \A k \in HalfKinds : Partial(keys.fifo[k], keys.ctr[k], FALSE, 10)
    <3>1. \A k \in HalfKinds : keys.ctr[k] = 0
      BY <1>2 DEF HalfKinds, KeyKinds
    <3> QED BY <3>1, NothingIsPartial
  <2>2. \A s \in Slots : \A k \in KeyKinds : keys.slot[s][k] = None4
    BY <1>2
  <2>3. "x" \in KeyKinds /\ "y" \in KeyKinds /\ "normal" \in KeyKinds /\ 63 \in Slots
    BY DEF KeyKinds, Slots
  <2>4. 10 + job.fed = 10
    BY <1>4
  <2>5. \A k \in HalfKinds :
            Partial(keys.fifo[k], keys.ctr[k], aes.in_word_order, 10 + job.fed)
    BY <1>2, <2>1, <2>4
  <2>6. job.left = 1 /\ job.fed \in Nat
    BY <1>4, <1>5
  <2>8. aes.in_word_order \in BOOLEAN
    BY <1>2
  <2>7. \A s \in Slots : /\ keys.slot[s]["x"] = None4 /\ keys.slot[s]["y"] = None4
                         /\ keys.slot[s]["normal"] = None4
    BY <2>2, <2>3
  <2> QED BY <1>1, <2>3, <2>5, <2>6, <2>7, <2>8 DEF Filling
<1> QED BY <1>2, <1>3, <1>4, <1>5 DEF KeyInv, Blank

LEMMA KeyNext == KeyInv /\ [Next]_vars => KeyInv'
<1>1. KeyInv => Fields_
  BY DEF KeyInv
<1>2. ASSUME KeyInv, Dma \/ Defer \/ Deliver \/ EndSlice
      PROVE  KeyInv'
  BY <1>1, <1>2, DmaKeeps, RestKeeps
<1>3. ASSUME KeyInv, UNCHANGED vars
      PROVE  KeyInv'
  <2>1. UNCHANGED aesVars /\ job' = job
    BY <1>3 DEF vars, devices, aesVars
  <2> QED BY <1>3, <2>1, UntouchedRests, RestKeeps
<1> QED BY <1>2, <1>3, KeyJobStep, OtherDriverStep DEF Next

(* A half of a key that came through a FIFO is four words in the order of   *)
(* writing, in one of the two directions, and the key of a slot is made of  *)
(* its last Y, however often the order is changed between two words.        *)
THEOREM Arm9KeysAreWhole == Spec => []KeysAreWhole
<1>1. KeyInv => KeysAreWhole
  <2>1. ASSUME KeyInv, Blank
        PROVE  KeysAreWhole
    BY <2>1, NoneIsVector DEF Blank, KeysAreWhole, Slots, KeyKinds
  <2> QED BY <2>1 DEF KeyInv, Filling, KeysAreWhole
<1> QED BY <1>1, KeyInit, KeyNext, PTL DEF Spec

-----------------------------------------------------------------------------
(* Sequences of words, and the padded message. *)

(* A function on 1..n is a sequence. *)
LEMMA FunctionIsSequence ==
    ASSUME NEW n \in Nat, NEW S, NEW s \in [1..n -> S]
    PROVE  s \in Seq(S) /\ Len(s) = n
OBVIOUS

LEMMA PartsOfConcat ==
    ASSUME NEW S, NEW s \in Seq(S), NEW t \in Seq(S)
    PROVE  /\ s \o t \in Seq(S) /\ Len(s \o t) = Len(s) + Len(t)
           /\ \A i \in 1..Len(s) : (s \o t)[i] = s[i]
           /\ \A i \in 1..Len(t) : (s \o t)[Len(s) + i] = t[i]
<1> DEFINE u == s \o t
<1>1. /\ u \in Seq(S) /\ Len(u) = Len(s) + Len(t)
      /\ \A i \in 1..(Len(s) + Len(t)) : u[i] = IF i <= Len(s) THEN s[i] ELSE t[i - Len(s)]
  BY ConcatProperties
<1>2. Len(s) \in Nat /\ Len(t) \in Nat
  BY LenProperties
<1> HIDE DEF u
<1>3. \A i \in 1..Len(t) : u[Len(s) + i] = t[i]
  <2> TAKE i \in 1..Len(t)
  <2>1. /\ Len(s) + i \in 1..(Len(s) + Len(t)) /\ ~(Len(s) + i <= Len(s))
        /\ (Len(s) + i) - Len(s) = i
    BY <1>2
  <2> QED BY <1>1, <2>1
<1> QED BY <1>1, <1>2, <1>3 DEF u

(* The elements of a concatenation. *)
Joins(u, s, t) ==
    /\ \A i \in 1..Len(s) : u[i] = s[i]
    /\ \A i \in 1..Len(t) : u[Len(s) + i] = t[i]

LEMMA ConcatJoins ==
    ASSUME NEW S, NEW s \in Seq(S), NEW t \in Seq(S)
    PROVE  Joins(s \o t, s, t)
BY PartsOfConcat DEF Joins

(* Functions with the same values. *)
LEMMA FunctionsEqual ==
    ASSUME NEW D, NEW S, NEW f \in [D -> S], NEW g \in [D -> S], \A i \in D : f[i] = g[i]
    PROVE  f = g
OBVIOUS

(* A sequence of a known length is a function.                              *)
LEMMA SequenceIsFunction ==
    ASSUME NEW S, NEW n \in Nat, NEW s \in Seq(S), Len(s) = n, NEW f \in [1..n -> S],
           \A i \in 1..n : s[i] = f[i]
    PROVE  s = f
<1>1. f \in Seq(S) /\ Len(f) = n
  BY FunctionIsSequence
<1>2. Len(s) = Len(f) /\ \A i \in 1..Len(s) : s[i] = f[i]
  BY <1>1
<1> QED BY <1>1, <1>2, SeqEqual

(* Words, a one and zeros. *)
LEMMA FilledIs ==
    ASSUME NEW S, NEW s \in Seq(S), NEW k \in Nat, One \in S, Zero \in S
    PROVE  /\ s \o <<One>> \o Zeros(k) \in Seq(S)
           /\ Len(s \o <<One>> \o Zeros(k)) = Len(s) + 1 + k
           /\ \A i \in 1..(Len(s) + 1 + k) :
                  (s \o <<One>> \o Zeros(k))[i] =
                      IF i <= Len(s) THEN s[i] ELSE IF i = Len(s) + 1 THEN One ELSE Zero
<1> DEFINE one == <<One>>
           zeros == Zeros(k)
           a == s \o one
           b == a \o zeros
<1>1. one \in Seq(S)
  OBVIOUS
<1>2. Len(one) = 1 /\ one[1] = One
  OBVIOUS
<1>3. zeros \in Seq(S) /\ Len(zeros) = k /\ \A i \in 1..k : zeros[i] = Zero
  <2>1. zeros \in [1..k -> S] /\ \A i \in 1..k : zeros[i] = Zero
    BY DEF Zeros
  <2> QED BY <2>1, FunctionIsSequence
<1>4. zeros \in Seq(S)
  BY <1>3
<1> HIDE DEF one, zeros
<1>5. /\ a \in Seq(S) /\ Len(a) = Len(s) + Len(one)
      /\ \A i \in 1..Len(s) : a[i] = s[i]
      /\ \A i \in 1..Len(one) : a[Len(s) + i] = one[i]
  BY <1>1, PartsOfConcat
<1> HIDE DEF a
<1>6. a \in Seq(S)
  BY <1>5
<1>7. /\ b \in Seq(S) /\ Len(b) = Len(a) + Len(zeros)
      /\ \A i \in 1..Len(a) : b[i] = a[i]
      /\ \A i \in 1..Len(zeros) : b[Len(a) + i] = zeros[i]
  BY <1>4, <1>6, PartsOfConcat
<1>8. b = s \o <<One>> \o Zeros(k)
  BY DEF a, one, zeros
<1> HIDE DEF b
<1>9. Len(s) \in Nat /\ 1 \in 1..Len(one)
  BY <1>2, LenProperties
<1>10. Len(a) = Len(s) + 1 /\ Len(b) = Len(s) + 1 + k /\ a[Len(s) + 1] = One
  BY <1>2, <1>3, <1>5, <1>7, <1>9
<1>11. ASSUME NEW i \in 1..(Len(s) + 1 + k)
       PROVE  b[i] = IF i <= Len(s) THEN s[i] ELSE IF i = Len(s) + 1 THEN One ELSE Zero
  <2>1. CASE i \in 1..Len(s)
    <3>1. i \in 1..Len(a) /\ i <= Len(s)
      BY <1>9, <1>10, <2>1
    <3> QED BY <1>5, <1>7, <2>1, <3>1
  <2>2. CASE i = Len(s) + 1
    <3>1. i \in 1..Len(a) /\ ~(i <= Len(s))
      BY <1>9, <1>10, <2>2
    <3> QED BY <1>7, <1>10, <2>2, <3>1
  <2>3. CASE i \in (Len(s) + 2)..(Len(s) + 1 + k)
    <3>1. /\ i - Len(a) \in 1..k /\ Len(a) + (i - Len(a)) = i
          /\ i - Len(a) \in 1..Len(zeros) /\ ~(i <= Len(s)) /\ i # Len(s) + 1
      BY <1>3, <1>9, <1>10, <2>3
    <3> QED BY <1>3, <1>7, <3>1
  <2> QED BY <1>9, <2>1, <2>2, <2>3
<1>12. b \in Seq(S)
  BY <1>7
<1> QED BY <1>8, <1>10, <1>11, <1>12

(* A sequence and one element more. *)
LEMMA EndedIs ==
    ASSUME NEW S, NEW s \in Seq(S), NEW last \in S
    PROVE  /\ s \o <<last>> \in Seq(S)
           /\ Len(s \o <<last>>) = Len(s) + 1
           /\ \A i \in 1..(Len(s) + 1) :
                  (s \o <<last>>)[i] = IF i <= Len(s) THEN s[i] ELSE last
<1> DEFINE end == <<last>>
           b == s \o end
<1>1. end \in Seq(S)
  OBVIOUS
<1>2. Len(end) = 1 /\ end[1] = last
  OBVIOUS
<1> HIDE DEF end
<1>3. /\ b \in Seq(S) /\ Len(b) = Len(s) + Len(end)
      /\ \A i \in 1..Len(s) : b[i] = s[i]
      /\ \A i \in 1..Len(end) : b[Len(s) + i] = end[i]
  BY <1>1, PartsOfConcat
<1>4. b = s \o <<last>>
  BY DEF end
<1> HIDE DEF b
<1>5. Len(s) \in Nat /\ 1 \in 1..Len(end)
  BY <1>2, LenProperties
<1>6. ASSUME NEW i \in 1..(Len(s) + 1)
      PROVE  b[i] = IF i <= Len(s) THEN s[i] ELSE last
  BY <1>2, <1>3, <1>5
<1> QED BY <1>2, <1>3, <1>4, <1>6

(* The padded message, and a last block. *)
PaddedAt(w, s, k, last) ==
    \A i \in 1..(Len(s) + k + 2) :
        w[i] = IF i <= Len(s) THEN s[i] ELSE IF i = Len(s) + 1 THEN One
               ELSE IF i = Len(s) + k + 2 THEN last ELSE Zero

LEMMA PaddedIs ==
    ASSUME NEW S, NEW s \in Seq(S), NEW k \in Nat, NEW last \in S, One \in S, Zero \in S
    PROVE  /\ s \o <<One>> \o Zeros(k) \o <<last>> \in Seq(S)
           /\ Len(s \o <<One>> \o Zeros(k) \o <<last>>) = Len(s) + k + 2
           /\ PaddedAt(s \o <<One>> \o Zeros(k) \o <<last>>, s, k, last)
<1> DEFINE b == s \o <<One>> \o Zeros(k)
           w == b \o <<last>>
           n == Len(s) + k + 2
<1>1. /\ b \in Seq(S) /\ Len(b) = Len(s) + 1 + k
      /\ \A i \in 1..(Len(s) + 1 + k) :
             b[i] = IF i <= Len(s) THEN s[i] ELSE IF i = Len(s) + 1 THEN One ELSE Zero
  BY FilledIs
<1>2. b \in Seq(S)
  BY <1>1
<1>3. w = s \o <<One>> \o Zeros(k) \o <<last>>
  OBVIOUS
<1> HIDE DEF b
<1>4. /\ w \in Seq(S)
      /\ Len(w) = Len(b) + 1
      /\ \A i \in 1..(Len(b) + 1) : w[i] = IF i <= Len(b) THEN b[i] ELSE last
  BY <1>2, EndedIs
<1> HIDE DEF w
<1>5. Len(s) \in Nat
  BY LenProperties
<1>6. Len(b) + 1 = n
  BY <1>1, <1>5
<1>7. ASSUME NEW i \in 1..n
      PROVE  w[i] = IF i <= Len(s) THEN s[i] ELSE IF i = Len(s) + 1 THEN One
                    ELSE IF i = n THEN last ELSE Zero
  <2>1. CASE i <= Len(s) + 1 + k
    <3>1. i \in 1..(Len(s) + 1 + k) /\ i # n /\ i <= Len(b) /\ i \in 1..(Len(b) + 1)
      BY <2>1, <1>5, <1>6
    <3>2. w[i] = b[i]
      BY <3>1, <1>4
    <3>3. b[i] = IF i <= Len(s) THEN s[i] ELSE IF i = Len(s) + 1 THEN One ELSE Zero
      BY <3>1, <1>1
    <3> QED BY <3>1, <3>2, <3>3
  <2>2. CASE ~(i <= Len(s) + 1 + k)
    <3>1. /\ i = n /\ i \in 1..(Len(b) + 1) /\ ~(i <= Len(b))
          /\ ~(i <= Len(s)) /\ i # Len(s) + 1
      BY <2>2, <1>5, <1>6
    <3>2. w[i] = last
      BY <3>1, <1>4
    <3> QED BY <3>1, <3>2
  <2> QED BY <2>1, <2>2
<1>8. w \in Seq(S) /\ Len(w) = n
  BY <1>4, <1>6
<1>9. PaddedAt(w, s, k, last)
  BY <1>7 DEF PaddedAt
<1> QED BY <1>3, <1>8, <1>9

(* How many zeros fill the last block of a message. *)
Fill(r) == IF r < 14 THEN 13 - r ELSE 29 - r

LEMMA PaddedBlocks ==
    ASSUME NEW q \in Nat, NEW r \in 0..15, NEW n, n = 16 * q + r
    PROVE  /\ (16 - ((n + 3) % 16)) % 16 = Fill(r)
           /\ n + (Fill(r) + 1) + 2 = 16 * (q + (IF r < 14 THEN 1 ELSE 2))
           /\ (16 * (q + (IF r < 14 THEN 1 ELSE 2))) \div 16 = q + (IF r < 14 THEN 1 ELSE 2)
<1>1. CASE r <= 12
  <2>1. n + 3 = 16 * q + (r + 3) /\ r + 3 \in 0..15 /\ q \in Int
    BY <1>1
  <2>2. (n + 3) % 16 = r + 3
    BY <2>1, DivUnique
  <2>3. (16 - (r + 3)) % 16 = Fill(r)
    BY <1>1 DEF Fill
  <2> QED BY <1>1, <2>2, <2>3 DEF Fill
<1>2. CASE r > 12
  <2>1. n + 3 = 16 * (q + 1) + (r - 13) /\ r - 13 \in 0..15 /\ q + 1 \in Int
    BY <1>2
  <2>2. (n + 3) % 16 = r - 13
    BY <2>1, DivUnique
  <2>3. (16 - (r - 13)) % 16 = Fill(r)
    BY <1>2 DEF Fill
  <2> QED BY <1>2, <2>2, <2>3 DEF Fill
<1> QED BY <1>1, <1>2

LEMMA IsBlock ==
    ASSUME NEW S, NEW w \in Seq(S), Len(w) = 16
    PROVE  w \in [1..16 -> S]
<1>1. w \in [1..Len(w) -> S]
  BY LenProperties
<1> QED BY <1>1

(* A block that is cut out of words. *)
CutAt(words, b) == [i \in 1..16 |-> words[16 * (b - 1) + i]]

LEMMA BlockIs ==
    ASSUME NEW S, NEW words \in Seq(S), NEW b \in Nat \ {0}, 16 * b <= Len(words)
    PROVE  /\ SubSeq(words, (b - 1) * 16 + 1, b * 16) = CutAt(words, b)
           /\ CutAt(words, b) \in [1..16 -> S]
<1> DEFINE m == (b - 1) * 16 + 1
           n == b * 16
           s == SubSeq(words, m, n)
           f == [i \in 1..16 |-> words[16 * (b - 1) + i]]
<1>0. Len(words) \in Nat
  BY LenProperties
<1>1. m \in Int /\ n \in Int /\ n - m + 1 = 16 /\ m <= n /\ m..n \subseteq 1..Len(words)
  BY <1>0
<1>2. \A i \in 1..16 : m + i - 1 = 16 * (b - 1) + i /\ m + i - 1 \in m..n
  BY <1>1
<1> HIDE DEF m, n
<1>3. \A i \in m..n : words[i] \in S
  BY <1>1, ElementOfSeq
<1>4. /\ s \in Seq(S) /\ Len(s) = IF m <= n THEN n - m + 1 ELSE 0
      /\ \A i \in 1..(n - m + 1) : s[i] = words[m + i - 1]
  BY <1>1, <1>3, SubSeqProperties
<1> HIDE DEF s
<1>5. Len(s) = 16 /\ \A i \in 1..16 : s[i] = f[i]
  BY <1>1, <1>2, <1>4
<1>6. f \in [1..16 -> S]
  BY <1>2, <1>3
<1>7. s \in [1..16 -> S]
  BY <1>4, <1>5, IsBlock
<1>8. s = f
  BY <1>5, <1>6, <1>7
<1> QED BY <1>6, <1>8 DEF s, f, m, n, CutAt

(* The words of the last block and of the last two. *)
WordsOfLast(w, input, last) ==
    \A i \in 1..16 : w[i] = IF i <= Len(input) THEN input[i]
                            ELSE IF i = Len(input) + 1 THEN One
                            ELSE IF i = 16 THEN last ELSE Zero
WordsButLength(w, input) ==
    \A i \in 1..16 : w[i] = IF i <= Len(input) THEN input[i]
                            ELSE IF i = Len(input) + 1 THEN One ELSE Zero
OnlyLength(w, last) == \A i \in 1..16 : w[i] = IF i = 16 THEN last ELSE Zero

EndsInOneBlock(S, input, last, w) ==
    /\ input \in Seq(S) /\ Len(input) <= 13 /\ last \in S /\ One \in S /\ Zero \in S
    /\ w = input \o <<One>> \o Zeros(14 - Len(input)) \o <<last>>

LEMMA LastBlockIs ==
    ASSUME NEW S, NEW input, NEW last, NEW w, EndsInOneBlock(S, input, last, w)
    PROVE  w \in [1..16 -> S] /\ WordsOfLast(w, input, last)
<1>0. /\ input \in Seq(S) /\ Len(input) <= 13 /\ last \in S /\ One \in S /\ Zero \in S
      /\ w = input \o <<One>> \o Zeros(14 - Len(input)) \o <<last>>
  BY DEF EndsInOneBlock
<1> DEFINE k == 14 - Len(input)
           v == input \o <<One>> \o Zeros(k) \o <<last>>
<1>1. Len(input) \in Nat
  BY <1>0, LenProperties
<1>2. k \in Nat
  BY <1>0, <1>1
<1>3. Len(input) + k + 2 = 16
  BY <1>1
<1>4. w = v
  BY <1>0
<1> HIDE DEF k
<1>5. v \in Seq(S)
  BY <1>0, <1>2, PaddedIs
<1>6. Len(v) = Len(input) + k + 2
  BY <1>0, <1>2, PaddedIs
<1>7. PaddedAt(v, input, k, last)
  BY <1>0, <1>2, PaddedIs
<1> HIDE DEF v
<1>8. Len(v) = 16
  BY <1>3, <1>6
<1>9. v \in [1..16 -> S]
  BY <1>5, <1>8, IsBlock
<1>10. WordsOfLast(v, input, last)
  BY <1>3, <1>7 DEF PaddedAt, WordsOfLast
<1> QED BY <1>4, <1>9, <1>10

LEMMA LastTwoBlocksAre ==
    ASSUME NEW S, NEW input \in Seq(S), Len(input) \in Nat, Len(input) <= 15, NEW last \in S,
           One \in S, Zero \in S,
           NEW w, w = input \o <<One>> \o Zeros(15 - Len(input)),
           NEW x, x = Zeros(15) \o <<last>>
    PROVE  /\ w \in [1..16 -> S] /\ WordsButLength(w, input)
           /\ x \in [1..16 -> S] /\ OnlyLength(x, last)
<1>1. w \in [1..16 -> S] /\ WordsButLength(w, input)
  <2> DEFINE k == 15 - Len(input)
             v == input \o <<One>> \o Zeros(k)
  <2>1. k \in Nat
    OBVIOUS
  <2>2. Len(input) + 1 + k = 16
    OBVIOUS
  <2>3. w = v
    OBVIOUS
  <2> HIDE DEF k
  <2>4. v \in Seq(S)
    BY <2>1, FilledIs
  <2>5. Len(v) = Len(input) + 1 + k
    BY <2>1, FilledIs
  <2>6. \A i \in 1..(Len(input) + 1 + k) :
            v[i] = IF i <= Len(input) THEN input[i]
                   ELSE IF i = Len(input) + 1 THEN One ELSE Zero
    BY <2>1, FilledIs
  <2> HIDE DEF v
  <2>7. Len(v) = 16
    BY <2>2, <2>5
  <2>8. v \in [1..16 -> S]
    BY <2>4, <2>7, IsBlock
  <2>9. WordsButLength(v, input)
    BY <2>2, <2>6 DEF WordsButLength
  <2> QED BY <2>3, <2>8, <2>9
<1>2. x \in [1..16 -> S] /\ OnlyLength(x, last)
  <2> DEFINE k == 15
             zeros == Zeros(k)
             v == zeros \o <<last>>
  <2>1. k \in Nat /\ k + 1 = 16
    OBVIOUS
  <2>2. x = v
    OBVIOUS
  <2> HIDE DEF k
  <2>3. zeros \in Seq(S) /\ Len(zeros) = k /\ \A i \in 1..k : zeros[i] = Zero
    <3>1. zeros \in [1..k -> S] /\ \A i \in 1..k : zeros[i] = Zero
      BY DEF Zeros
    <3> QED BY <2>1, <3>1, FunctionIsSequence
  <2> HIDE DEF zeros
  <2>4. zeros \in Seq(S)
    BY <2>3
  <2>5. v \in Seq(S)
    BY <2>4, EndedIs
  <2>6. Len(v) = Len(zeros) + 1
    BY <2>4, EndedIs
  <2>7. \A i \in 1..(Len(zeros) + 1) : v[i] = IF i <= Len(zeros) THEN zeros[i] ELSE last
    BY <2>4, EndedIs
  <2> HIDE DEF v
  <2>8. Len(v) = 16
    BY <2>1, <2>3, <2>6
  <2>9. v \in [1..16 -> S]
    BY <2>5, <2>8, IsBlock
  <2>10. OnlyLength(v, last)
    <3>1. Len(zeros) = k /\ Len(zeros) + 1 = 16
      BY <2>1, <2>3
    <3>2. ASSUME NEW i \in 1..16
          PROVE  v[i] = IF i = 16 THEN last ELSE Zero
      <4>1. v[i] = IF i <= k THEN zeros[i] ELSE last
        BY <2>7, <3>1
      <4>2. i <= k <=> i # 16
        BY <2>1
      <4>3. i <= k => zeros[i] = Zero
        BY <2>1, <2>3
      <4> QED BY <4>1, <4>2, <4>3
    <3> QED BY <3>2 DEF OnlyLength
  <2> QED BY <2>2, <2>9, <2>10
<1> QED BY <1>1, <1>2

(* A message of n words is q blocks and r words, padded to k blocks. *)
InBlocks(n, q, r, k) ==
    /\ n \in Nat /\ q \in Nat /\ r \in 0..15 /\ n = 16 * q + r
    /\ k = q + (IF r < 14 THEN 1 ELSE 2)

(* A padded message, by words. *)
PaddedWords(w, message, k) ==
    \A i \in 1..(16 * k) :
        w[i] = IF i <= Len(message) THEN message[i]
               ELSE IF i = Len(message) + 1 THEN One
               ELSE IF i = 16 * k THEN Length(Len(message)) ELSE Zero

LEMMA PaddedMessageIs ==
    ASSUME NEW S, NEW message \in Seq(S), One \in S, Zero \in S, Length(Len(message)) \in S,
           NEW q, NEW r, NEW k, InBlocks(Len(message), q, r, k)
    PROVE  /\ Padded(message) \in Seq(S) /\ Len(Padded(message)) = 16 * k
           /\ PaddedWords(Padded(message), message, k)
           /\ Len(Padded(message)) \div 16 = k
<1> DEFINE n == Len(message)
           z == Fill(r) + 1
           last == Length(n)
           w == message \o <<One>> \o Zeros(z) \o <<last>>
<1>1. /\ (16 - ((n + 3) % 16)) % 16 = Fill(r)
      /\ n + (Fill(r) + 1) + 2 = 16 * k /\ (16 * k) \div 16 = k
  BY PaddedBlocks DEF InBlocks
<1>2. Padded(message) = w
  BY <1>1 DEF Padded, BlockWords
<1>3. z \in Nat
  BY DEF Fill, InBlocks
<1>4. n + z + 2 = 16 * k
  BY <1>1
<1> HIDE DEF z
<1>5. w \in Seq(S)
  BY <1>3, PaddedIs
<1>6. Len(w) = n + z + 2
  BY <1>3, PaddedIs
<1>7. PaddedAt(w, message, z, last)
  BY <1>3, PaddedIs
<1> HIDE DEF w
<1>8. Len(w) = 16 * k
  BY <1>4, <1>6
<1>9. PaddedWords(w, message, k)
  BY <1>4, <1>7 DEF PaddedAt, PaddedWords
<1> QED BY <1>1, <1>2, <1>5, <1>8, <1>9

(* A digest is the padded message cut into blocks. *)
LEMMA DigestIs ==
    ASSUME NEW S, NEW message \in Seq(S), One \in S, Zero \in S, Length(Len(message)) \in S,
           NEW q, NEW r, NEW k, InBlocks(Len(message), q, r, k)
    PROVE  /\ Digest(message) = [b \in 1..k |-> CutAt(Padded(message), b)]
           /\ \A b \in 1..k : CutAt(Padded(message), b) \in [1..16 -> S]
<1> DEFINE words == Padded(message)
<1>1. /\ words \in Seq(S) /\ Len(words) = 16 * k /\ Len(words) \div 16 = k
  BY PaddedMessageIs
<1>2. Digest(message) = [b \in 1..(Len(words) \div 16) |->
                            SubSeq(words, (b - 1) * 16 + 1, b * 16)]
  BY DEF Digest, BlockWords
<1> HIDE DEF words
<1>3. k \in Nat
  BY DEF InBlocks
<1>4. ASSUME NEW b \in 1..k
      PROVE  /\ SubSeq(words, (b - 1) * 16 + 1, b * 16) = CutAt(words, b)
             /\ CutAt(words, b) \in [1..16 -> S]
  <2>1. b \in Nat \ {0} /\ 16 * b <= Len(words)
    BY <1>1, <1>3
  <2>2. words \in Seq(S)
    BY <1>1
  <2> QED BY <2>1, <2>2, BlockIs
<1>5. Digest(message) = [b \in 1..k |-> SubSeq(words, (b - 1) * 16 + 1, b * 16)]
  BY <1>1, <1>2
<1>6. Digest(message) = [b \in 1..k |-> CutAt(words, b)]
  BY <1>4, <1>5
<1> QED BY <1>4, <1>6 DEF words

(* What a final round compresses after the whole blocks of a message makes  *)
(* its digest.                                                              *)
(* The blocks of a message that are hashed, and what is left of it. *)
BlocksOf(message, q) == [b \in 1..q |-> CutAt(message, b)]
RestOf(message, q, r) == [i \in 1..r |-> message[16 * q + i]]

LEMMA FinalIsDigest ==
    ASSUME NEW S, NEW message \in Seq(S), One \in S, Zero \in S, Length(Len(message)) \in S,
           NEW q, NEW r, NEW k, InBlocks(Len(message), q, r, k),
           NEW hash, hash = BlocksOf(message, q), NEW input, input = RestOf(message, q, r)
    PROVE  hash \o FinalBlocks(input, Len(message)) = Digest(message)
<1> DEFINE words == Padded(message)
           B == [1..16 -> S]
           d == [b \in 1..k |-> CutAt(words, b)]
           ends == FinalBlocks(input, Len(message))
           u == hash \o ends
<1>0. /\ hash = [b \in 1..q |-> CutAt(message, b)]
      /\ input = [i \in 1..r |-> message[16 * q + i]]
  BY DEF BlocksOf, RestOf
<1>1. Digest(message) = d
  BY DigestIs
<1>2. /\ words \in Seq(S) /\ Len(words) = 16 * k
      /\ PaddedWords(words, message, k)
  BY PaddedMessageIs
<1>3. /\ k \in Nat /\ q \in Nat /\ r \in 0..15 /\ Len(message) = 16 * q + r /\ q <= k
      /\ k = IF r < 14 THEN q + 1 ELSE q + 2
  BY DEF InBlocks
<1>4. \A b \in 1..k : CutAt(words, b) \in B
  BY DigestIs
<1> HIDE DEF words
<1>5. input \in Seq(S) /\ Len(input) = r
  <2>1. \A i \in 1..r : 16 * q + i \in 1..Len(message)
    BY <1>3
  <2>2. input \in [1..r -> S]
    BY <1>0, <2>1, ElementOfSeq
  <2>3. r \in Nat
    BY <1>3
  <2> QED BY <2>2, <2>3, FunctionIsSequence
<1>6. \A b \in 1..q : b \in 1..k /\ hash[b] = CutAt(words, b)
  <2> TAKE b \in 1..q
  <2>1. \A i \in 1..16 : /\ 16 * (b - 1) + i \in 1..(16 * k)
                         /\ 16 * (b - 1) + i <= Len(message)
    BY <1>3
  <2>2. \A i \in 1..16 : words[16 * (b - 1) + i] = message[16 * (b - 1) + i]
    BY <1>2, <2>1 DEF PaddedWords
  <2>3. b \in 1..k
    BY <1>3
  <2> QED BY <1>0, <2>2, <2>3 DEF CutAt
<1> HIDE DEF B
<1>7. hash \in Seq(B) /\ Len(hash) = q
  <2>1. hash \in [1..q -> B]
    BY <1>0, <1>4, <1>6
  <2> QED BY <1>3, <2>1, FunctionIsSequence
<1>8. /\ ends \in Seq(B) /\ Len(ends) = k - q
      /\ \A j \in 1..(k - q) : ends[j] = CutAt(words, q + j)
  <2>1. CASE r < 14
    <3> DEFINE w == input \o <<One>> \o Zeros(14 - Len(input)) \o <<Length(Len(message))>>
    <3>0. ~(Len(input) >= 14)
      BY <1>3, <1>5, <2>1
    <3>1. ends = <<w>>
      BY <3>0 DEF FinalBlocks
    <3>2. Len(input) <= 13
      BY <1>3, <1>5, <2>1
    <3>3. w \in [1..16 -> S] /\ WordsOfLast(w, input, Length(Len(message)))
      <4>1. EndsInOneBlock(S, input, Length(Len(message)), w)
        BY <1>5, <3>2 DEF EndsInOneBlock
      <4> HIDE DEF w
      <4> QED BY <4>1, LastBlockIs
    <3> HIDE DEF w
    <3>4. w = CutAt(words, q + 1)
      <4>1. ASSUME NEW i \in 1..16
            PROVE  w[i] = words[16 * q + i]
        <5>1. /\ 16 * q + i \in 1..(16 * k) /\ i \in 1..r => input[i] = message[16 * q + i]
              /\ 16 * q + i <= Len(message) <=> i <= r
              /\ 16 * q + i = Len(message) + 1 <=> i = r + 1
              /\ 16 * q + i = 16 * k <=> i = 16
          BY <1>0, <1>3, <2>1
        <5>0. PaddedWords(words, message, k)
          BY <1>2
        <5>6. 16 * q + i \in 1..(16 * k)
          BY <1>3
        <5>2. words[16 * q + i] =
                  IF 16 * q + i <= Len(message) THEN message[16 * q + i]
                  ELSE IF 16 * q + i = Len(message) + 1 THEN One
                  ELSE IF 16 * q + i = 16 * k THEN Length(Len(message)) ELSE Zero
          BY <5>0, <5>6 DEF PaddedWords
        <5>3. w[i] = IF i <= r THEN input[i] ELSE IF i = r + 1 THEN One
                     ELSE IF i = 16 THEN Length(Len(message)) ELSE Zero
          BY <1>5, <3>3 DEF WordsOfLast
        <5>4. i <= r => i \in 1..r
          BY <1>3
        <5> QED BY <5>1, <5>2, <5>3, <5>4, <5>6
      <4>2. 16 * ((q + 1) - 1) = 16 * q
        BY <1>3
      <4>3. CutAt(words, q + 1) = [i \in 1..16 |-> words[16 * q + i]]
        BY <4>2 DEF CutAt
      <4>4. w \in [1..16 -> S]
        BY <3>3
      <4> QED BY <4>1, <4>3, <4>4
    <3>5. k - q = 1 /\ q + 1 \in 1..k
      BY <1>3, <2>1
    <3>6. w \in B
      BY <1>4, <3>4, <3>5
    <3>7. <<w>> \in Seq(B) /\ Len(<<w>>) = 1 /\ <<w>>[1] = w
      BY <3>6
    <3> HIDE DEF ends
    <3>8. ends \in Seq(B) /\ Len(ends) = 1 /\ ends[1] = CutAt(words, q + 1)
      BY <3>1, <3>4, <3>7
    <3>9. \A j \in 1..(k - q) : j = 1
      BY <3>5
    <3> QED BY <3>5, <3>8, <3>9
  <2>2. CASE r >= 14
    <3> DEFINE w == input \o <<One>> \o Zeros(15 - Len(input))
               x == Zeros(15) \o <<Length(Len(message))>>
    <3>0. Len(input) >= 14
      BY <1>3, <1>5, <2>2
    <3>1. ends = <<w, x>>
      BY <3>0 DEF FinalBlocks
    <3>2. Len(input) \in Nat /\ Len(input) <= 15
      BY <1>3, <1>5
    <3>3. /\ w \in [1..16 -> S] /\ WordsButLength(w, input)
          /\ x \in [1..16 -> S] /\ OnlyLength(x, Length(Len(message)))
      BY <1>5, <3>2, LastTwoBlocksAre
    <3> HIDE DEF w, x
    <3>4. w = CutAt(words, q + 1)
      <4>1. ASSUME NEW i \in 1..16
            PROVE  w[i] = words[16 * q + i]
        <5>1. /\ 16 * q + i \in 1..(16 * k) /\ i \in 1..r => input[i] = message[16 * q + i]
              /\ 16 * q + i <= Len(message) <=> i <= r
              /\ 16 * q + i = Len(message) + 1 <=> i = r + 1
              /\ 16 * q + i = 16 * k <=> FALSE
          BY <1>0, <1>3, <2>2
        <5>0. PaddedWords(words, message, k)
          BY <1>2
        <5>6. 16 * q + i \in 1..(16 * k)
          BY <1>3
        <5>2. words[16 * q + i] =
                  IF 16 * q + i <= Len(message) THEN message[16 * q + i]
                  ELSE IF 16 * q + i = Len(message) + 1 THEN One
                  ELSE IF 16 * q + i = 16 * k THEN Length(Len(message)) ELSE Zero
          BY <5>0, <5>6 DEF PaddedWords
        <5>3. w[i] = IF i <= r THEN input[i] ELSE IF i = r + 1 THEN One
                     ELSE IF FALSE THEN Length(Len(message)) ELSE Zero
          BY <1>5, <3>3 DEF WordsButLength
        <5>4. i <= r => i \in 1..r
          BY <1>3
        <5> QED BY <5>1, <5>2, <5>3, <5>4, <5>6
      <4>2. 16 * ((q + 1) - 1) = 16 * q
        BY <1>3
      <4>3. CutAt(words, q + 1) = [i \in 1..16 |-> words[16 * q + i]]
        BY <4>2 DEF CutAt
      <4>4. w \in [1..16 -> S]
        BY <3>3
      <4> QED BY <4>1, <4>3, <4>4
    <3>5. x = CutAt(words, q + 2)
      <4>1. ASSUME NEW i \in 1..16
            PROVE  x[i] = words[16 * (q + 1) + i]
        <5>1. /\ 16 * (q + 1) + i \in 1..(16 * k)
              /\ ~(16 * (q + 1) + i <= Len(message))
              /\ 16 * (q + 1) + i # Len(message) + 1
              /\ 16 * (q + 1) + i = 16 * k <=> i = 16
          BY <1>3, <2>2
        <5>2. words[16 * (q + 1) + i] =
                  IF 16 * (q + 1) + i = 16 * k THEN Length(Len(message)) ELSE Zero
          BY <1>2, <5>1 DEF PaddedWords
        <5>3. x[i] = IF i = 16 THEN Length(Len(message)) ELSE Zero
          BY <3>3 DEF OnlyLength
        <5> QED BY <5>1, <5>2, <5>3
      <4>2. 16 * ((q + 2) - 1) = 16 * (q + 1)
        BY <1>3
      <4>3. CutAt(words, q + 2) = [i \in 1..16 |-> words[16 * (q + 1) + i]]
        BY <4>2 DEF CutAt
      <4>4. x \in [1..16 -> S]
        BY <3>3
      <4> QED BY <4>1, <4>3, <4>4
    <3>6. k - q = 2 /\ q + 1 \in 1..k /\ q + 2 \in 1..k
      BY <1>3, <2>2
    <3>7. w \in B /\ x \in B
      BY <1>4, <3>4, <3>5, <3>6
    <3>8. <<w, x>> \in Seq(B) /\ Len(<<w, x>>) = 2 /\ <<w, x>>[1] = w /\ <<w, x>>[2] = x
      BY <3>7
    <3> HIDE DEF ends
    <3>9. ends \in Seq(B) /\ Len(ends) = 2
      BY <3>1, <3>8
    <3>10. ends[1] = CutAt(words, q + 1) /\ ends[2] = CutAt(words, q + 2)
      BY <3>1, <3>4, <3>5, <3>8
    <3>11. \A j \in 1..(k - q) : j = 1 \/ j = 2
      BY <3>6
    <3> QED BY <3>6, <3>9, <3>10, <3>11
  <2> QED BY <1>3, <2>1, <2>2
<1> HIDE DEF ends
<1>9. hash \in Seq(B) /\ ends \in Seq(B)
  BY <1>7, <1>8
<1>10. u \in Seq(B)
  BY <1>9, PartsOfConcat
<1>11. Len(u) = Len(hash) + Len(ends)
  BY <1>9, PartsOfConcat
<1>12. Joins(u, hash, ends)
  BY <1>9, ConcatJoins
<1> HIDE DEF u
<1>14. Len(u) = k
  BY <1>3, <1>7, <1>8, <1>11
<1>15. \A b \in 1..k : u[b] = CutAt(words, b)
  <2> TAKE b \in 1..k
  <2>1. CASE b <= q
    BY <1>3, <1>6, <1>7, <1>12, <2>1 DEF Joins
  <2>2. CASE b > q
    <3>1. b - q \in 1..(k - q) /\ q + (b - q) = b
      BY <1>3, <2>2
    <3>2. b - q \in 1..Len(ends) /\ Len(hash) + (b - q) = b
      BY <1>3, <1>7, <1>8, <3>1
    <3>3. u[b] = ends[b - q]
      BY <1>12, <3>2 DEF Joins
    <3>4. ends[b - q] = CutAt(words, q + (b - q))
      BY <1>8, <3>1
    <3> QED BY <3>1, <3>3, <3>4
  <2> QED BY <1>3, <2>1, <2>2
<1>16. u \in [1..k -> B]
  <2>1. u \in [1..Len(u) -> B]
    BY <1>10, LenProperties
  <2> QED BY <1>14, <2>1
<1>17. u = d
  BY <1>15, <1>16
<1> QED BY <1>1, <1>17 DEF u, ends

-----------------------------------------------------------------------------
(* The SHA engine and what it has taken of a message. *)

ShaFields ==
    DOMAIN sha = {"in_dma", "out_dma", "mode", "fifo_enable", "input", "read",
                  "message_len", "hash", "died"}

(* The words of the job's message, in its order, and the blocks of it. *)
MessageWord(i) == Data(job.from + i - 1)
WordsFrom(n, first) == [i \in 1..n |-> MessageWord(first + i)]

(* The engine has taken the first h words of the message: the whole blocks  *)
(* are hashed, and the rest is in the FIFO.                                 *)
Taken(h) ==
    \E q \in 0..h, r \in 0..15 :
        /\ h = 16 * q + r /\ sha.message_len = h
        /\ sha.input = WordsFrom(r, 16 * q)
        /\ sha.hash = [b \in 1..q |-> WordsFrom(16, 16 * (b - 1))]

LEMMA AppendIs ==
    ASSUME NEW n \in Nat, NEW s, s = [i \in 1..n |-> s[i]], NEW x
    PROVE  Append(s, x) = [i \in 1..(n + 1) |-> IF i = n + 1 THEN x ELSE s[i]]
<1> DEFINE S == {s[i] : i \in 1..n} \union {x}
           t == Append(s, x)
<1>1. s \in [1..n -> S] /\ x \in S
  OBVIOUS
<1> HIDE DEF S
<1>2. s \in Seq(S) /\ Len(s) = n
  BY <1>1, FunctionIsSequence
<1>3. /\ t \in Seq(S) /\ Len(t) = n + 1 /\ t[n + 1] = x
      /\ \A i \in 1..n : t[i] = s[i]
  BY <1>1, <1>2, AppendProperties
<1> HIDE DEF t
<1>4. t \in [1..(n + 1) -> S]
  BY <1>3, LenProperties
<1>5. \A i \in 1..(n + 1) : t[i] = IF i = n + 1 THEN x ELSE s[i]
  BY <1>3
<1>6. t = [i \in 1..(n + 1) |-> IF i = n + 1 THEN x ELSE s[i]]
  BY <1>4, <1>5
<1> QED BY <1>6 DEF t

(* One word more. *)
LEMMA NextWord ==
    ASSUME NEW n \in Nat, NEW first \in Nat
    PROVE  /\ Append(WordsFrom(n, first), MessageWord(first + n + 1)) = WordsFrom(n + 1, first)
           /\ Len(Append(WordsFrom(n, first), MessageWord(first + n + 1))) = n + 1
<1> DEFINE s == WordsFrom(n, first)
           x == MessageWord(first + n + 1)
           t == WordsFrom(n + 1, first)
<1>1. s = [i \in 1..n |-> s[i]] /\ (\A i \in 1..n : s[i] = MessageWord(first + i))
  BY DEF WordsFrom
<1>2. t = [i \in 1..(n + 1) |-> MessageWord(first + i)]
  BY DEF WordsFrom
<1>3. x = MessageWord(first + (n + 1))
  OBVIOUS
<1> HIDE DEF s, x, t
<1>4. Append(s, x) = [i \in 1..(n + 1) |-> IF i = n + 1 THEN x ELSE s[i]]
  BY <1>1, AppendIs
<1>5. \A i \in 1..(n + 1) : (IF i = n + 1 THEN x ELSE s[i]) = MessageWord(first + i)
  BY <1>1, <1>3
<1>6. Append(s, x) = t
  BY <1>2, <1>4, <1>5
<1>7. Len(t) = n + 1
  BY <1>2
<1> QED BY <1>6, <1>7 DEF s, x, t

LEMMA WordIsTaken ==
    ASSUME ShaFields, NEW h \in Nat, Taken(h), job'.from = job.from,
           WriteShaFifo(MessageWord(h + 1))
    PROVE  Taken(h + 1)' /\ ShaFields' /\ UNCHANGED <<late, IF_>>
<1> DEFINE word == MessageWord(h + 1)
           s == Accept(word)
           new == IF Len(s.input) = 16 THEN Compress(s) ELSE s
<1>1. PICK q \in 0..h, r \in 0..15 :
        /\ h = 16 * q + r /\ sha.message_len = h
        /\ sha.input = WordsFrom(r, 16 * q)
        /\ sha.hash = [b \in 1..q |-> WordsFrom(16, 16 * (b - 1))]
  BY DEF Taken
<1>2. UNCHANGED <<late, IF_>> /\ sha' = [new EXCEPT !.fifo_enable = (Len(s.input) = 16)]
  BY DEF WriteShaFifo, BlockWords
<1>3. /\ DOMAIN s = DOMAIN sha /\ s.input = Append(sha.input, word) /\ s.hash = sha.hash
      /\ s.message_len = h + 1
  BY <1>1 DEF Accept, ShaFields
<1>4. /\ s.input = WordsFrom(r + 1, 16 * q) /\ Len(s.input) = r + 1
  <2>1. h + 1 = 16 * q + r + 1 /\ r \in Nat /\ 16 * q \in Nat
    BY <1>1
  <2>2. word = MessageWord(16 * q + r + 1)
    BY <2>1
  <2> HIDE DEF word, s
  <2>3. /\ Append(WordsFrom(r, 16 * q), word) = WordsFrom(r + 1, 16 * q)
        /\ Len(Append(WordsFrom(r, 16 * q), word)) = r + 1
    BY <2>1, <2>2, NextWord
  <2>4. s.input = Append(WordsFrom(r, 16 * q), word)
    BY <1>1, <1>3
  <2> QED BY <2>3, <2>4
<1>5. \A n \in Nat, k \in Nat : WordsFrom(n, k)' = WordsFrom(n, k)
  BY DEF WordsFrom, MessageWord
<1> HIDE DEF s, word
<1>6. CASE r < 15
  <2>1. ~(Len(s.input) = 16)
    <3>1. r + 1 # 16
      BY <1>6
    <3> QED BY <1>4, <3>1
  <2>2. new = s
    BY <2>1
  <2>6. /\ DOMAIN sha' = DOMAIN sha /\ sha'.input = WordsFrom(r + 1, 16 * q)
        /\ sha'.hash = sha.hash /\ sha'.message_len = h + 1
    BY <1>2, <1>3, <1>4, <2>2 DEF ShaFields
  <2>3. /\ q \in 0..(h + 1) /\ r + 1 \in 0..15 /\ h + 1 = 16 * q + (r + 1)
        /\ r + 1 \in Nat /\ 16 * q \in Nat
    BY <1>1, <1>6
  <2>4. sha'.input = WordsFrom(r + 1, 16 * q)'
    BY <1>5, <2>6, <2>3
  <2>5. sha'.hash = [b \in 1..q |-> WordsFrom(16, 16 * (b - 1))']
    <3>1. \A b \in 1..q : 16 * (b - 1) \in Nat /\ 16 \in Nat
      OBVIOUS
    <3> QED BY <1>1, <1>5, <2>6, <3>1
  <2> QED BY <1>2, <2>6, <2>3, <2>4, <2>5 DEF Taken, ShaFields
<1>7. CASE r = 15
  <2>1. new = Compress(s)
    BY <1>4, <1>7
  <2>2. /\ DOMAIN sha' = DOMAIN sha /\ sha'.input = <<>>
        /\ sha'.hash = Append(sha.hash, s.input) /\ sha'.message_len = h + 1
    BY <1>2, <1>3, <2>1 DEF ShaFields, Compress
  <2>3. /\ q + 1 \in 0..(h + 1) /\ 0 \in 0..15 /\ h + 1 = 16 * (q + 1) + 0 /\ q \in Nat
        /\ 16 * ((q + 1) - 1) = 16 * q
    BY <1>1, <1>7
  <2>4. sha'.input = WordsFrom(0, 16 * (q + 1))'
    BY <2>2 DEF WordsFrom
  <2>5. sha'.hash = [b \in 1..(q + 1) |-> WordsFrom(16, 16 * (b - 1))']
    <3>1. sha.hash = [b \in 1..q |-> sha.hash[b]]
      BY <1>1
    <3>2. sha'.hash = [b \in 1..(q + 1) |-> IF b = q + 1 THEN s.input ELSE sha.hash[b]]
      BY <2>2, <2>3, <3>1, AppendIs
    <3>3. s.input = WordsFrom(16, 16 * ((q + 1) - 1))
      BY <1>4, <1>7, <2>3
    <3>4. \A b \in 1..(q + 1) : (IF b = q + 1 THEN s.input ELSE sha.hash[b])
                                    = WordsFrom(16, 16 * (b - 1))
      BY <1>1, <2>3, <3>3
    <3>5. \A b \in 1..(q + 1) : 16 * (b - 1) \in Nat /\ 16 \in Nat
      BY <2>3
    <3> QED BY <1>5, <3>2, <3>4, <3>5
  <2> QED BY <1>2, <2>2, <2>3, <2>4, <2>5 DEF Taken, ShaFields
<1> QED BY <1>1, <1>6, <1>7

-----------------------------------------------------------------------------
(* The channel that feeds the engine, and what it has fed it. *)

Addresses == [port : {"mem", "SHA"}, at : Int]
MemAddresses == [port : {"mem"}, at : Int]

ChannelOf(destinations) ==
    [source_addr : Addresses, dest_addr : destinations, int_src : Addresses,
     int_dest : destinations, transfer_count : Int, write_count : Int,
     src_step : Int, dest_step : Int, src_reload : {FALSE}, dest_reload : {FALSE},
     startup_mode : Requests \union {"none"}, imm_mode : {FALSE}, repeating_mode : {FALSE},
     irq_enable : BOOLEAN, busy : BOOLEAN]

ChannelsType ==
    /\ DOMAIN chan = 0..LastChan
    /\ chan[0] \in ChannelOf(Addresses)
    /\ \A c \in 1..LastChan : chan[c] \in ChannelOf(MemAddresses)

RunType ==
    /\ DOMAIN run = {"phase", "ch", "i", "word", "imm"}
    /\ run.ch \in Nat /\ run.i \in Nat /\ run.imm = FALSE
    /\ run.phase \in {"cpu", "scan", "read", "write", "xdma", "events"}
    /\ Copying => run.ch <= LastChan

XdmaStops ==
    /\ DOMAIN xdma = {"chan", "int_enable", "int_flag"}
    /\ DOMAIN xdma.chan = 0..LastXChan
    /\ \A c \in 0..LastXChan :
           "state" \in DOMAIN xdma.chan[c] /\ xdma.chan[c].state = "STOP"

Whole == 16 * (job.j.n \div 16)
InBlock == IF Copying /\ run.ch = 0 THEN run.i ELSE 0
Fed_ == IF "in" \in job.j.todo /\ "in!" \notin job.todo
        THEN Whole - chan[0].transfer_count + InBlock ELSE 0
Accepted == job.fed + Fed_

JobType ==
    /\ DOMAIN job = {"j", "todo", "left", "fed", "from"}
    /\ job.j \in Jobs /\ job.todo \subseteq job.j.todo /\ job.from \in Nat /\ job.fed \in Nat
    /\ job.todo # {} => "end" \in job.todo
    /\ job.todo = {} => ~chan[0].busy

(* Before the channel is started, while it works, and when it has ended.    *)
Waiting ==
    /\ ~chan[0].busy /\ 0 \notin IF_ /\ job.fed = 0
    /\ "in" \notin job.todo =>
           /\ chan[0].source_addr = Mem(job.from) /\ chan[0].dest_addr = Fifo("SHA")
           /\ chan[0].transfer_count = Whole /\ chan[0].write_count = 16

Working ==
    LET c == chan[0] IN
    /\ c.startup_mode = "SHA_IN" /\ c.src_step = 1 /\ c.dest_step = 0 /\ c.irq_enable
    /\ c.write_count = 16 /\ c.transfer_count \in 1..Whole /\ c.transfer_count % 16 = 0
    /\ c.int_src = Mem(job.from + (Whole - c.transfer_count)) /\ c.int_dest = Fifo("SHA")
    /\ 0 \notin IF_ /\ job.fed = 0

Feeding ==
    IF "in" \in job.j.todo
    THEN IF "in!" \in job.todo THEN Waiting
         ELSE /\ "cnt" \notin job.todo /\ "in" \notin job.todo
              /\ IF chan[0].busy THEN Working ELSE chan[0].transfer_count = 0
    ELSE ~chan[0].busy

CopyingFeeds ==
    Copying /\ run.ch = 0 =>
        /\ chan[0].busy /\ run.i <= 16
        /\ run.phase = "write" => run.i < 16 /\ run.word = MessageWord(Accepted + 1)

Message ==
    /\ "cnt" \in job.todo => sha.input = <<>> /\ job.fed = 0
    /\ job.todo = {} => sha.input = <<>> /\ DigestIsOfMessage
    /\ "cnt" \notin job.todo /\ job.todo # {} => Accepted \in 0..job.j.n /\ Taken(Accepted)

ShaState ==
    /\ ShaFields /\ ChannelsType /\ RunType /\ XdmaStops
    /\ JobType /\ Feeding /\ CopyingFeeds /\ Message

ShaInv == job.j.route = "sha" => ShaState

LEMMA JobIs ==
    ASSUME JobType, job.j.route = "sha"
    PROVE  /\ job.j.n \in Nat /\ (job.j.mode = 0 \/ job.j.n % 16 < 14)
           /\ Whole \in Nat /\ Whole <= job.j.n
           /\ "in" \in job.j.todo => Whole \in 1..(CountLimit - 1) /\ Whole % 16 = 0
           /\ "in!" \in job.j.todo <=> "in" \in job.j.todo
           /\ {"cnt", "end"} \subseteq job.j.todo
           /\ job.j.echo \in Requests \union {"none"}
<1>1. /\ job.j.n \in Nat /\ (job.j.mode = 0 \/ job.j.n % 16 < 14)
      /\ {"cnt", "end"} \subseteq job.j.todo
      /\ "in" \in job.j.todo => job.j.n \in 16..(CountLimit - 1)
      /\ "in!" \in job.j.todo <=> "in" \in job.j.todo
      /\ job.j.echo \in Requests \union {"none"}
  BY ShaJobsAssumption DEF JobType
<1> DEFINE n == job.j.n
<1>2. n \in Nat
  BY <1>1
<1> HIDE DEF n
<1>3. /\ n \div 16 \in Nat /\ n % 16 \in 0..15 /\ n = 16 * (n \div 16) + (n % 16)
  BY <1>2, DivMod
<1>4. 16 * (n \div 16) \in Nat /\ 16 * (n \div 16) <= n
  BY <1>2, <1>3
<1>5. n \in 16..(CountLimit - 1) => 16 * (n \div 16) \in 1..(CountLimit - 1)
  BY <1>2, <1>3, Dma9Assumption
<1>6. (16 * (n \div 16)) % 16 = 0
  <2>1. 0 \in 0..15 /\ 16 * (n \div 16) + 0 = 16 * (n \div 16)
    BY <1>3
  <2> QED BY <1>3, <2>1, DivUnique
<1> QED BY <1>1, <1>4, <1>5, <1>6 DEF n, Whole

LEMMA MovedIs ==
    ASSUME NEW addr \in Addresses, NEW words \in Int, NEW step \in Int
    PROVE  /\ Moved(addr, words, step) \in Addresses
           /\ Moved(addr, words, step).port = addr.port
           /\ Moved(addr, words, step).at = addr.at + words * step
           /\ addr \in MemAddresses => Moved(addr, words, step) \in MemAddresses
BY DEF Moved, Addresses, MemAddresses

(* What of the engine makes its digest is as it was. *)
SameMessage ==
    /\ DOMAIN sha' = DOMAIN sha /\ sha'.input = sha.input /\ sha'.hash = sha.hash
    /\ sha'.message_len = sha.message_len

LEMMA BusReads ==
    ASSUME ShaFields, NEW addr \in Addresses, arm9_read32(addr)
    PROVE  SameMessage /\ IF_' = IF_
<1>1. CASE addr.port = "mem"
  BY <1>1 DEF arm9_read32, NoDevice, devices, SameMessage
<1>2. CASE addr.port = "SHA"
  BY <1>2 DEF arm9_read32, ReadShaFifo, SameMessage, ShaFields
<1> QED BY <1>1, <1>2 DEF Addresses

LEMMA BusWrites ==
    ASSUME NEW addr \in MemAddresses, NEW word, arm9_write32(addr, word)
    PROVE  SameMessage /\ IF_' = IF_
BY DEF arm9_write32, NoDevice, devices, SameMessage, MemAddresses

(* What has been taken stays what it is. *)
LEMMA TakenStays ==
    ASSUME SameMessage, job'.from = job.from, NEW h, Taken(h)
    PROVE  Taken(h)'
<1>1. \A n, first : WordsFrom(n, first)' = WordsFrom(n, first)
  BY DEF WordsFrom, MessageWord
<1> QED BY <1>1 DEF Taken, SameMessage

LEMMA MessageStays ==
    ASSUME Message, SameMessage, job'.j = job.j, job'.from = job.from,
           Accepted' = Accepted,
           "cnt" \in job'.todo => "cnt" \in job.todo /\ job'.fed = job.fed,
           "cnt" \in job.todo => "cnt" \in job'.todo,
           job'.todo = {} <=> job.todo = {}
    PROVE  Message'
<1>1. \A h : Taken(h) => Taken(h)'
  BY TakenStays
<1>2. DigestIsOfMessage /\ job.todo = {} => DigestIsOfMessage'
  BY DEF DigestIsOfMessage, SameMessage
<1> QED BY <1>1, <1>2 DEF Message, SameMessage

(* A step that touches the DMA's place, and perhaps another channel. *)
LEMMA DmaElsewhere ==
    ASSUME ShaState, SameMessage, 0 \in IF_' <=> 0 \in IF_, UNCHANGED <<job, xdma>>,
           chan'[0] = chan[0], ChannelsType', RunType', InBlock' = InBlock, CopyingFeeds'
    PROVE  ShaState'
<1>1. Accepted' = Accepted
  BY DEF Accepted, Fed_, Whole
<1>2. Message'
  BY <1>1, MessageStays DEF ShaState
<1>3. Feeding'
  BY DEF ShaState, Feeding, Waiting, Working, Whole
<1> QED BY <1>2, <1>3 DEF ShaState, ShaFields, SameMessage, XdmaStops, JobType

(* A start with an empty FIFO. *)
LEMMA StartTakesNothing ==
    ASSUME ShaFields, sha.input = <<>>, WriteShaCnt(ShaCnt(job.j), TRUE, FALSE)
    PROVE  Taken(0)' /\ ShaFields' /\ UNCHANGED <<late, IF_>>
<1> DEFINE s == Updated(sha, ShaCnt(job.j))
<1>1. DOMAIN s = DOMAIN sha /\ s.input = <<>>
  BY DEF Updated, ShaFields, ShaCnt
<1>2. /\ sha' = [s EXCEPT !.hash = <<>>, !.message_len = 0]
      /\ UNCHANGED <<late, IF_>>
  BY DEF WriteShaCnt
<1> HIDE DEF s
<1>3. DOMAIN sha' = DOMAIN sha /\ sha'.input = <<>> /\ sha'.hash = <<>> /\ sha'.message_len = 0
  BY <1>1, <1>2 DEF ShaFields
<1>4. 0 \in 0..0 /\ 0 \in 0..15 /\ 0 = 16 * 0 + 0
  OBVIOUS
<1>5. sha'.input = WordsFrom(0, 16 * 0)'
  BY <1>3 DEF WordsFrom
<1>6. sha'.hash = [b \in 1..0 |-> WordsFrom(16, 16 * (b - 1))']
  BY <1>3
<1> QED BY <1>2, <1>3, <1>4, <1>5, <1>6 DEF Taken, ShaFields

(* The final round. *)
LEMMA EndIsDigest ==
    ASSUME ShaFields, JobType, job.j.route = "sha", Taken(job.j.n),
           WriteShaCnt(ShaCnt(job.j), FALSE, TRUE), job'.j = job.j, job'.from = job.from
    PROVE  /\ ShaFields' /\ sha'.input = <<>> /\ DigestIsOfMessage'
           /\ UNCHANGED <<late, IF_>>
<1> DEFINE n == job.j.n
           s == Updated(sha, ShaCnt(job.j))
           message == [i \in 1..n |-> Data(job.from + i - 1)]
           S == {Data(i) : i \in Int} \union {One, Zero, Length(n)}
<1>1. n \in Nat /\ (job.j.mode = 0 \/ n % 16 < 14) /\ job.from \in Nat
  BY JobIs DEF JobType
<1>2. PICK q \in 0..n, r \in 0..15 :
        /\ n = 16 * q + r /\ sha.message_len = n
        /\ sha.input = WordsFrom(r, 16 * q)
        /\ sha.hash = [b \in 1..q |-> WordsFrom(16, 16 * (b - 1))]
  BY DEF Taken
<1>3. /\ DOMAIN s = DOMAIN sha /\ s.input = sha.input /\ s.hash = sha.hash
      /\ s.message_len = sha.message_len /\ s.mode = job.j.mode
  BY DEF Updated, ShaFields, ShaCnt
<1>4. sha' = Final(s) /\ UNCHANGED <<late, IF_>>
  BY DEF WriteShaCnt
<1>5. \A i \in 1..n : message[i] = MessageWord(i) /\ message[i] \in S
  BY <1>1 DEF MessageWord
<1>6. message \in [1..n -> S] /\ One \in S /\ Zero \in S /\ Length(n) \in S
  BY <1>5
<1> HIDE DEF s, message, S
<1>7. message \in Seq(S) /\ Len(message) = n
  BY <1>1, <1>6, FunctionIsSequence
<1>8. q \in Nat /\ r \in 0..15 /\ n = 16 * q + r /\ n % 16 = r
  <2>1. q \in Nat /\ r \in 0..(16 - 1) /\ n = 16 * q + r
    BY <1>1, <1>2
  <2>2. (16 * q + r) % 16 = r
    BY <2>1, DivUnique
  <2> QED BY <2>1, <2>2
<1>9. InBlocks(n, q, r, q + IF r < 14 THEN 1 ELSE 2)
  BY <1>2, <1>8 DEF InBlocks
<1>10. sha.input = [i \in 1..r |-> message[16 * q + i]]
  <2>1. \A i \in 1..r : 16 * q + i \in 1..n
    BY <1>8
  <2> QED BY <1>2, <1>5, <2>1 DEF WordsFrom
<1>11. sha.hash = [b \in 1..q |-> CutAt(message, b)]
  <2>1. \A b \in 1..q : \A i \in 1..16 : 16 * (b - 1) + i \in 1..n
    BY <1>8
  <2>2. \A b \in 1..q : WordsFrom(16, 16 * (b - 1)) = CutAt(message, b)
    BY <1>5, <2>1 DEF WordsFrom, CutAt
  <2> QED BY <1>2, <2>2
<1>12. sha.hash \o FinalBlocks(sha.input, n) = Digest(message)
  <2> DEFINE size == Len(message)
             k == q + IF r < 14 THEN 1 ELSE 2
  <2>1. InBlocks(size, q, r, k) /\ Length(size) \in S
    BY <1>6, <1>7, <1>9
  <2>2. message \in Seq(S)
    BY <1>7
  <2> HIDE DEF k
  <2>4. One \in S /\ Zero \in S
    BY <1>6
  <2>5. InBlocks(Len(message), q, r, k) /\ Length(Len(message)) \in S
    BY <2>1
  <2>6. sha.hash = BlocksOf(message, q) /\ sha.input = RestOf(message, q, r)
    BY <1>10, <1>11 DEF BlocksOf, RestOf
  <2> HIDE DEF size
  <2>7. sha.hash \o FinalBlocks(sha.input, Len(message)) = Digest(message)
    BY <2>2, <2>4, <2>5, <2>6, FinalIsDigest
  <2> QED BY <1>7, <2>7
<1>13. Len(sha.input) = r
  <2> DEFINE T == {message[16 * q + i] : i \in 1..r}
             f == [i \in 1..r |-> message[16 * q + i]]
  <2>1. f \in [1..r -> T] /\ r \in Nat
    OBVIOUS
  <2>2. sha.input = f
    BY <1>10
  <2> HIDE DEF f, T
  <2>3. Len(f) = r
    BY <2>1, FunctionIsSequence
  <2> QED BY <2>2, <2>3
<1>14. /\ DOMAIN sha' = DOMAIN sha /\ sha'.input = <<>>
       /\ sha'.hash = sha.hash \o FinalBlocks(sha.input, n)
  <2>1. s.mode = 0 \/ Len(s.input) < 14
    BY <1>1, <1>3, <1>8, <1>13
  <2>2. sha' = [s EXCEPT !.hash = @ \o FinalBlocks(s.input, s.message_len),
                         !.input = <<>>, !.message_len = @ * 32]
    BY <1>4, <2>1 DEF Final
  <2> QED BY <1>2, <1>3, <2>2 DEF ShaFields
<1>15. message = [i \in 1..job'.j.n |-> Data(job'.from + i - 1)]
  BY DEF message
<1> QED BY <1>4, <1>12, <1>14, <1>15 DEF ShaFields, DigestIsOfMessage

-----------------------------------------------------------------------------
(* The DMA copies for the engine, or for others. *)

(* A channel that copies. *)
LEMMA CopierIs ==
    ASSUME ChannelsType, RunType, Copying
    PROVE  /\ run.ch \in 0..LastChan
           /\ chan[run.ch] \in ChannelOf(Addresses)
           /\ run.ch # 0 => chan[run.ch] \in ChannelOf(MemAddresses)
           /\ SourceAddr \in Addresses
           /\ run.ch # 0 => DestAddr \in MemAddresses
<1>1. run.ch \in 0..LastChan /\ run.i \in Int
  BY Dma9Assumption DEF RunType
<1>2. run.ch # 0 => run.ch \in 1..LastChan
  BY <1>1
<1>3. run.ch # 0 => chan[run.ch] \in ChannelOf(MemAddresses)
  BY <1>2 DEF ChannelsType
<1>4. MemAddresses \subseteq Addresses
  BY DEF MemAddresses, Addresses
<1>5. chan[run.ch] \in ChannelOf(MemAddresses) => chan[run.ch] \in ChannelOf(Addresses)
  BY <1>4 DEF ChannelOf
<1>6. chan[run.ch] \in ChannelOf(Addresses)
  BY <1>3, <1>5 DEF ChannelsType
<1>7. /\ chan[run.ch].int_src \in Addresses /\ chan[run.ch].src_step \in Int
      /\ chan[run.ch].dest_step \in Int
  BY <1>6 DEF ChannelOf
<1>8. run.ch # 0 => chan[run.ch].int_dest \in MemAddresses
  BY <1>3 DEF ChannelOf
<1>9. SourceAddr \in Addresses
  BY <1>1, <1>7, MovedIs DEF SourceAddr
<1>10. run.ch # 0 => DestAddr \in MemAddresses
  BY <1>1, <1>4, <1>7, <1>8, MovedIs DEF DestAddr
<1> QED BY <1>1, <1>3, <1>6, <1>9, <1>10

(* When channel 0 copies, it feeds. *)
LEMMA FeederIs ==
    ASSUME ShaState, job.j.route = "sha", chan[0].busy
    PROVE  /\ "in" \in job.j.todo /\ job.todo # {} /\ job.todo \intersect {"in", "in!", "cnt"} = {}
           /\ Working /\ Whole \in Nat /\ Whole < CountLimit /\ job.from \in Nat
           /\ chan[0].transfer_count \in 16..Whole
           /\ Accepted = Whole - chan[0].transfer_count + InBlock
<1>1. /\ "in" \in job.j.todo /\ "in!" \notin job.todo /\ "in" \notin job.todo
      /\ "cnt" \notin job.todo /\ Working /\ job.todo # {} /\ job.from \in Nat /\ job.fed = 0
  BY DEF ShaState, Feeding, Waiting, JobType, Working
<1>2. Whole \in Nat /\ Whole \in 1..(CountLimit - 1)
  BY <1>1, JobIs DEF ShaState
<1> DEFINE tc == chan[0].transfer_count
<1>3. tc \in 1..Whole /\ tc % 16 = 0
  BY <1>1 DEF Working
<1> HIDE DEF tc
<1>4. tc \in 16..Whole
  BY <1>2, <1>3
<1>5. Accepted = Whole - tc + InBlock
  <2>1. InBlock \in Int /\ tc \in Int
    BY <1>4 DEF InBlock, ShaState, RunType
  <2>2. Accepted = 0 + (Whole - tc + InBlock)
    BY <1>1 DEF Accepted, Fed_, tc
  <2> QED BY <1>2, <2>1, <2>2
<1> QED BY <1>1, <1>2, <1>4, <1>5, Dma9Assumption DEF tc

LEMMA ShaDmaRead ==
    ASSUME ShaState, job.j.route = "sha", DmaRead
    PROVE  ShaState'
<1>1. /\ run.phase = "read" /\ Copying /\ run.i < chan[run.ch].write_count
      /\ run' = [run EXCEPT !.phase = "write", !.word = Word(SourceAddr)]
      /\ chan' = chan /\ arm9_read32(SourceAddr) /\ UNCHANGED <<xdma, job>>
  BY DEF DmaRead, HasMoreWords, WordIsRead, Copying
<1>2. SourceAddr \in Addresses
  BY <1>1, CopierIs DEF ShaState
<1>3. SameMessage /\ IF_' = IF_
  BY <1>1, <1>2, BusReads DEF ShaState
<1>4. RunType' /\ run'.ch = run.ch /\ run'.i = run.i /\ Copying' /\ run'.word = Word(SourceAddr)
  BY <1>1 DEF RunType, ShaState, Copying
<1>5. InBlock' = InBlock
  BY <1>1, <1>4 DEF InBlock
<1>6. ChannelsType'
  BY <1>1 DEF ShaState, ChannelsType
<1>7. CopyingFeeds'
  <2> SUFFICES ASSUME run.ch = 0
               PROVE  /\ chan[0].busy /\ run.i <= 16
                      /\ run.i < 16 /\ run'.word = MessageWord(Accepted + 1)'
    BY <1>1, <1>4 DEF CopyingFeeds
  <2>1. chan[0].busy /\ run.i <= 16
    BY <1>1 DEF ShaState, CopyingFeeds
  <2>2. Working /\ Whole \in Nat /\ chan[0].transfer_count \in 16..Whole /\ job.from \in Nat
    BY <2>1, FeederIs
  <2>3. Accepted = Whole - chan[0].transfer_count + run.i /\ run.i \in Nat
    BY <1>1, <2>1, FeederIs DEF InBlock, ShaState, RunType
  <2>4. chan[0].write_count = 16 /\ run.i < 16
    BY <1>1, <2>2 DEF Working
  <2>5. /\ chan[0].int_src = Mem(job.from + (Whole - chan[0].transfer_count))
        /\ chan[0].src_step = 1
    BY <2>2 DEF Working
  <2>6. SourceAddr = [Mem(job.from + (Whole - chan[0].transfer_count)) EXCEPT !.at = @ + run.i * 1]
    BY <2>5 DEF SourceAddr, Moved
  <2>7. /\ SourceAddr.port = "mem"
        /\ SourceAddr.at = job.from + (Whole - chan[0].transfer_count) + run.i * 1
    BY <2>6 DEF Mem
  <2>8. SourceAddr.at = job.from + (Accepted + 1) - 1
    BY <2>2, <2>3, <2>7
  <2>9. Word(SourceAddr) = MessageWord(Accepted + 1)
    BY <2>7, <2>8 DEF Word, MessageWord
  <2>10. Accepted' = Accepted
    BY <1>1, <1>5 DEF Accepted, Fed_, Whole
  <2>11. MessageWord(Accepted + 1)' = MessageWord(Accepted + 1)
    BY <1>1, <2>10 DEF MessageWord
  <2> QED BY <1>4, <2>1, <2>4, <2>9, <2>11
<1> QED BY <1>1, <1>3, <1>4, <1>5, <1>6, <1>7, DmaElsewhere

LEMMA ShaDmaWrite ==
    ASSUME ShaState, job.j.route = "sha", DmaWrite
    PROVE  ShaState'
<1>1. /\ run.phase = "write" /\ Copying
      /\ run' = [run EXCEPT !.phase = "read", !.i = run.i + 1]
      /\ chan' = chan /\ arm9_write32(DestAddr, run.word) /\ UNCHANGED <<xdma, job>>
  BY DEF DmaWrite, WordIsWritten, Copying
<1>2. /\ RunType' /\ run'.ch = run.ch /\ run'.i = run.i + 1 /\ Copying'
      /\ run'.phase = "read" /\ run.i \in Nat
  BY <1>1 DEF RunType, ShaState, Copying
<1>3. ChannelsType'
  BY <1>1 DEF ShaState, ChannelsType
<1>4. CASE run.ch # 0
  <2>1. DestAddr \in MemAddresses
    BY <1>1, <1>4, CopierIs DEF ShaState
  <2>2. SameMessage /\ IF_' = IF_
    BY <1>1, <2>1, BusWrites
  <2>3. InBlock' = InBlock /\ CopyingFeeds'
    BY <1>2, <1>4 DEF InBlock, CopyingFeeds
  <2> QED BY <1>1, <1>2, <1>3, <2>2, <2>3, DmaElsewhere
<1>5. CASE run.ch = 0
  <2>1. chan[0].busy /\ run.i < 16 /\ run.word = MessageWord(Accepted + 1)
    BY <1>1, <1>5 DEF ShaState, CopyingFeeds
  <2>2. /\ "in" \in job.j.todo /\ job.todo # {} /\ job.todo \intersect {"in", "in!", "cnt"} = {}
        /\ Working /\ Whole \in Nat
        /\ chan[0].transfer_count \in 16..Whole
        /\ Accepted = Whole - chan[0].transfer_count + run.i
    BY <1>1, <1>5, <2>1, FeederIs DEF InBlock
  <2>3. chan[0].int_dest = Fifo("SHA") /\ chan[0].dest_step = 0
    BY <2>2 DEF Working
  <2>4. DestAddr = [Fifo("SHA") EXCEPT !.at = @ + run.i * 0]
    BY <1>5, <2>3 DEF DestAddr, Moved
  <2>5. DestAddr.port = "SHA"
    BY <2>4 DEF Fifo
  <2>6. WriteShaFifo(MessageWord(Accepted + 1))
    BY <1>1, <2>1, <2>5 DEF arm9_write32
  <2>7. Taken(Accepted) /\ Accepted \in 0..job.j.n /\ Accepted \in Nat
    BY <2>2 DEF ShaState, Message
  <2>8. PICK h \in Nat : h = Accepted
    BY <2>7
  <2>9. Taken(h) /\ WriteShaFifo(MessageWord(h + 1)) /\ job'.from = job.from /\ ShaFields
    BY <1>1, <2>6, <2>7, <2>8 DEF ShaState
  <2>10. Taken(h + 1)' /\ ShaFields' /\ IF_' = IF_
    BY <2>9, WordIsTaken
  <2>11. InBlock = run.i /\ InBlock' = run.i + 1
    BY <1>1, <1>2, <1>5 DEF InBlock
  <2>12. Accepted' = Whole - chan[0].transfer_count + (run.i + 1)
    <3>1. Fed_' = Whole - chan[0].transfer_count + (run.i + 1)
      BY <1>1, <2>2, <2>11 DEF Fed_, Whole
    <3>2. job.fed = 0 /\ job'.fed = 0
      BY <1>1, <2>2 DEF Working
    <3> QED BY <1>2, <2>2, <3>1, <3>2 DEF Accepted
  <2>13. Accepted' = h + 1 /\ Accepted' <= Whole
    BY <1>2, <2>1, <2>2, <2>8, <2>12
  <2>14. Whole <= job.j.n /\ job.j.n \in Nat
    BY JobIs DEF ShaState
  <2>15. Accepted' \in 0..job.j.n
    BY <2>2, <2>8, <2>13, <2>14
  <2>16. Taken(Accepted)'
    BY <2>10, <2>13 DEF Taken
  <2>17. Message'
    BY <1>1, <2>2, <2>15, <2>16 DEF Message
  <2>18. CopyingFeeds'
    BY <1>1, <1>2, <2>1 DEF CopyingFeeds
  <2>19. Feeding'
    BY <1>1, <2>10 DEF ShaState, Feeding, Waiting, Working, Whole
  <2> QED BY <1>1, <1>2, <1>3, <2>10, <2>17, <2>18, <2>19 DEF ShaState, XdmaStops, JobType
<1> QED BY <1>4, <1>5

(* A move of Emulator::run from which channel 0 does not copy, or begins to. *)
LEMMA MovesOn ==
    ASSUME ShaState, SameMessage, 0 \in IF_' <=> 0 \in IF_, UNCHANGED <<job, xdma, chan>>,
           RunType', InBlock = 0, run'.i = 0 \/ ~Copying', run'.phase # "write",
           Copying' /\ run'.ch = 0 => chan[0].busy
    PROVE  ShaState'
<1>1. InBlock' = InBlock /\ ChannelsType'
  BY DEF InBlock, Copying, ShaState, ChannelsType
<1>2. CopyingFeeds'
  BY DEF CopyingFeeds, Copying
<1> QED BY <1>1, <1>2, DmaElsewhere

(* A place of Emulator::run. *)
IsAt(place, phase, c) ==
    /\ DOMAIN place = {"phase", "ch", "i", "word", "imm"}
    /\ place.phase = phase /\ place.ch = c /\ place.i = 0 /\ place.imm = FALSE

LEMMA PlacesOfRun ==
    /\ IsAt(Cpu_, "cpu", 0)
    /\ \A c : IsAt(Scan(c), "scan", c) /\ IsAt(Block(c, FALSE), "read", c)
    /\ \A p : IsAt([Cpu_ EXCEPT !.phase = p], p, 0)
BY DEF Cpu_, Scan, Block, IsAt

LEMMA RunGoes ==
    ASSUME NEW phase \in {"cpu", "scan", "read", "xdma", "events"}, NEW c \in Nat,
           IsAt(run', phase, c), phase = "read" => c <= LastChan
    PROVE  /\ RunType' /\ run'.i = 0 /\ run'.ch = c /\ run'.phase = phase
           /\ run'.phase # "write" /\ Copying' <=> phase = "read"
BY DEF IsAt, RunType, Copying

LEMMA ShaScan ==
    ASSUME ShaState, job.j.route = "sha", Visit \/ EndScan, UNCHANGED <<devices, xdma, job>>
    PROVE  ShaState'
<1>1. SameMessage /\ IF_' = IF_ /\ chan' = chan /\ run.phase = "scan" /\ InBlock = 0
  BY DEF SameMessage, devices, Visit, EndScan, InBlock, Copying
<1>2. CASE Visit
  <2> DEFINE taken == chan[run.ch].busy /\ pending[chan[run.ch].startup_mode]
  <2>1. /\ run.ch \in Nat /\ run.ch <= LastChan
        /\ run' = IF taken THEN Block(run.ch, FALSE) ELSE Scan(run.ch + 1)
    BY <1>2 DEF Visit, ShaState, RunType
  <2>2. CASE taken
    <3> DEFINE c == run.ch
    <3>1. IsAt(run', "read", c) /\ c \in Nat /\ c <= LastChan
      BY <2>1, <2>2, PlacesOfRun
    <3>2. /\ RunType' /\ run'.i = 0 /\ run'.ch = c /\ run'.phase = "read"
      BY <3>1, RunGoes
    <3>3. Copying' /\ run'.ch = 0 => chan[0].busy
      BY <2>2, <3>2
    <3> QED BY <1>1, <3>2, <3>3, MovesOn
  <2>3. CASE ~taken
    <3> DEFINE c == run.ch + 1
    <3>1. IsAt(run', "scan", c) /\ c \in Nat
      <4>1. run' = Scan(run.ch + 1)
        BY <2>1, <2>3
      <4>2. run.ch + 1 \in Nat
        BY <2>1
      <4> HIDE DEF taken
      <4> QED BY <4>1, <4>2, PlacesOfRun
    <3> HIDE DEF c
    <3>2. RunType' /\ ~Copying' /\ run'.phase = "scan"
      BY <3>1, RunGoes
    <3> QED BY <1>1, <3>2, MovesOn
  <2> QED BY <2>2, <2>3
<1>3. CASE EndScan
  <2>1. IsAt(run', "xdma", 0)
    BY <1>3, PlacesOfRun DEF EndScan
  <2>2. RunType' /\ ~Copying' /\ run'.phase = "xdma"
    BY <2>1, RunGoes
  <2> QED BY <1>1, <2>2, MovesOn
<1> QED BY <1>2, <1>3

(* The XDMA has nothing to do, and an event moves only lines. *)
LEMMA ShaRest ==
    ASSUME ShaState, job.j.route = "sha",
           XdmaLoad \/ XdmaStore \/ Xdma \/ Defer \/ Deliver \/ EndSlice
    PROVE  ShaState'
<1>1. run.phase = "xdma" /\ run.ch <= LastXChan => XChan.state = "STOP"
  BY CorelinkAssumption DEF ShaState, XdmaStops, RunType, XChan
<1>2. ~XdmaLoad /\ ~XdmaStore /\ ~Wakes /\ ~EndLoad /\ ~EndStore /\ ~XInstruction
  BY <1>1 DEF XdmaLoad, XdmaStore, Moves_, Executes, Wakes, EndLoad, EndStore, AllMoved,
              XInstruction
<1>3. CASE NextXChan /\ UNCHANGED <<devices, out, job>>
  <2>1. /\ run.phase = "xdma" /\ run' = [run EXCEPT !.ch = @ + 1]
        /\ UNCHANGED <<IF_, chan, xdma, job, devices>>
    BY <1>3 DEF NextXChan
  <2>2. RunType' /\ ~Copying' /\ run'.phase = "xdma"
    BY <2>1 DEF RunType, ShaState, Copying
  <2>3. SameMessage /\ InBlock = 0
    BY <2>1 DEF SameMessage, devices, InBlock, Copying
  <2> QED BY <2>1, <2>2, <2>3, MovesOn
<1>4. CASE EndXdma /\ UNCHANGED <<devices, out, job>>
  <2>1. /\ run.phase = "xdma" /\ run' = [Cpu_ EXCEPT !.phase = "events"]
        /\ UNCHANGED <<IF_, chan, xdma, job, devices>>
    BY <1>4 DEF EndXdma
  <2>2. RunType' /\ ~Copying' /\ run'.phase = "events"
    <3>1. IsAt(run', "events", 0)
      BY <2>1, PlacesOfRun
    <3> QED BY <3>1, RunGoes
  <2>3. SameMessage /\ InBlock = 0
    BY <2>1 DEF SameMessage, devices, InBlock, Copying
  <2> QED BY <2>1, <2>2, <2>3, MovesOn
<1>5. CASE Defer \/ Deliver
  <2>1. /\ run.phase = "events" /\ run' = Cpu_
        /\ UNCHANGED <<IF_, chan, xdma, job, devices>>
    BY <1>5 DEF Defer, Deliver, Events, TryNdmaTransferEvents
  <2>2. RunType' /\ ~Copying' /\ run'.phase = "cpu"
    <3>1. IsAt(run', "cpu", 0)
      BY <2>1, PlacesOfRun
    <3> QED BY <3>1, RunGoes
  <2>3. SameMessage /\ InBlock = 0
    BY <2>1 DEF SameMessage, devices, InBlock, Copying
  <2> QED BY <2>1, <2>2, <2>3, MovesOn
<1>6. CASE EndSlice
  <2>1. /\ run.phase = "cpu" /\ run' = Scan(0)
        /\ UNCHANGED <<IF_, chan, xdma, job, devices>>
    BY <1>6 DEF EndSlice, EndCpuSlice
  <2>2. RunType' /\ ~Copying' /\ run'.phase = "scan"
    <3>1. IsAt(run', "scan", 0)
      BY <2>1, PlacesOfRun
    <3> QED BY <3>1, RunGoes
  <2>3. SameMessage /\ InBlock = 0
    BY <2>1 DEF SameMessage, devices, InBlock, Copying
  <2> QED BY <2>1, <2>2, <2>3, MovesOn
<1> QED BY <1>2, <1>3, <1>4, <1>5, <1>6 DEF Xdma

(* What follows a block is not one of channel 0. *)
LEMMA AfterBlockIs ==
    ASSUME RunType, Copying, run' = AfterBlock(run.ch)
    PROVE  /\ RunType' /\ run'.i = 0 /\ run'.phase # "write"
           /\ Copying' => run'.ch # 0
<1>1. run.ch \in Nat /\ run.ch <= LastChan /\ run.imm = FALSE
  BY DEF RunType
<1> DEFINE c == run.ch + 1
<1>2. c \in Nat /\ c # 0 /\ (run.ch < LastChan => c <= LastChan)
  BY <1>1, Dma9Assumption
<1>3. (run' = Block(c, FALSE) /\ run.ch < LastChan) \/ run' = Scan(c)
  BY <1>1 DEF AfterBlock
<1> HIDE DEF c
<1>4. (IsAt(run', "read", c) /\ c <= LastChan) \/ IsAt(run', "scan", c)
  BY <1>2, <1>3, PlacesOfRun
<1> QED BY <1>2, <1>4, RunGoes

(* A channel that has copied a block is still one. *)
LEMMA CountedIs ==
    ASSUME NEW destinations, destinations \subseteq Addresses,
           destinations \in {Addresses, MemAddresses}, NEW c \in 0..LastChan,
           chan[c] \in ChannelOf(destinations)
    PROVE  Advanced(Ended(c), chan[c].write_count) \in ChannelOf(destinations)
<1> DEFINE left == (chan[c].transfer_count - chan[c].write_count) % CountLimit
           words == chan[c].write_count
           ended == Ended(c)
           source == Moved(ended.int_src, words, ended.src_step)
           dest == Moved(ended.int_dest, words, ended.dest_step)
<1>1. chan[c].transfer_count \in Int /\ words \in Int
  BY DEF ChannelOf
<1>2. left \in Int
  BY <1>1, Dma9Assumption
<1> HIDE DEF left
<1>3. ended = [chan[c] EXCEPT !.transfer_count = left, !.busy = IF left = 0 THEN FALSE ELSE @]
  BY DEF ChannelOf, Ended, left
<1>4. ended \in ChannelOf(destinations)
  BY <1>2, <1>3 DEF ChannelOf
<1> HIDE DEF ended, words
<1>5. /\ ended.int_src \in Addresses /\ ended.src_step \in Int
      /\ ended.int_dest \in destinations /\ ended.dest_step \in Int
      /\ ended.src_reload = FALSE /\ ended.dest_reload = FALSE
  BY <1>4 DEF ChannelOf
<1>6. source \in Addresses /\ dest \in destinations
  BY <1>1, <1>5, MovedIs
<1>7. Advanced(ended, words) = [ended EXCEPT !.int_src = source, !.int_dest = dest]
  BY <1>5 DEF Advanced
<1> HIDE DEF source, dest
<1>8. Advanced(ended, words) \in ChannelOf(destinations)
  BY <1>4, <1>6, <1>7 DEF ChannelOf
<1> QED BY <1>8 DEF ended, words

LEMMA MemAreAddresses == MemAddresses \subseteq Addresses
BY DEF MemAddresses, Addresses

(* The end of a block of another channel. *)
LEMMA OtherBlockEnds ==
    ASSUME ShaState, job.j.route = "sha", EndBlock, UNCHANGED <<devices, xdma, job>>, run.ch # 0
    PROVE  ShaState'
<1> DEFINE c == run.ch
           new == Advanced(Ended(c), chan[c].write_count)
<1>1. /\ Copying /\ chan' = [chan EXCEPT ![c] = new] /\ run' = AfterBlock(c)
      /\ IF_' = IF_ \/ IF_' = IF_ \union {c}
  BY DEF EndBlock, Copying
<1>2. SameMessage /\ (0 \in IF_' <=> 0 \in IF_)
  BY <1>1 DEF SameMessage, devices
<1>3. c \in 1..LastChan /\ chan[c] \in ChannelOf(MemAddresses) /\ c \in 0..LastChan
  BY <1>1, CopierIs DEF ShaState
<1>4. new \in ChannelOf(MemAddresses)
  BY <1>3, CountedIs, MemAreAddresses
<1> HIDE DEF new
<1>5. ChannelsType' /\ chan'[0] = chan[0]
  BY <1>1, <1>3, <1>4 DEF ShaState, ChannelsType
<1>6. RunType' /\ (Copying' => run'.ch # 0)
  BY <1>1, AfterBlockIs DEF ShaState
<1>7. InBlock' = InBlock /\ CopyingFeeds'
  BY <1>6 DEF InBlock, CopyingFeeds
<1> QED BY <1>2, <1>5, <1>6, <1>7, DmaElsewhere

(* The end of a block of the engine. *)
LEMMA FedBlockEnds ==
    ASSUME ShaState, job.j.route = "sha", EndBlock, UNCHANGED <<devices, xdma, job>>, run.ch = 0
    PROVE  ShaState'
<1> DEFINE tc == chan[0].transfer_count
           left == (tc - chan[0].write_count) % CountLimit
           new == Advanced(Ended(0), chan[0].write_count)
<1>1. /\ run.phase = "read" /\ Copying /\ chan' = [chan EXCEPT ![0] = new]
      /\ run' = AfterBlock(0) /\ run.i >= chan[0].write_count
  BY DEF EndBlock, Copying
<1>2. chan[0].busy /\ run.i <= 16
  BY <1>1 DEF ShaState, CopyingFeeds
<1>3. /\ "in" \in job.j.todo /\ job.todo # {} /\ job.todo \intersect {"in", "in!", "cnt"} = {}
      /\ Working /\ Whole \in Nat /\ Whole < CountLimit /\ job.from \in Nat
      /\ tc \in 16..Whole /\ Accepted = Whole - tc + run.i
  BY <1>1, <1>2, FeederIs DEF InBlock
<1>4. /\ chan[0].write_count = 16 /\ run.i = 16 /\ tc % 16 = 0
      /\ chan[0].irq_enable /\ 0 \notin IF_ /\ job.fed = 0
      /\ chan[0].startup_mode = "SHA_IN" /\ chan[0].src_step = 1 /\ chan[0].dest_step = 0
      /\ chan[0].int_src = Mem(job.from + (Whole - tc)) /\ chan[0].int_dest = Fifo("SHA")
  BY <1>1, <1>2, <1>3 DEF Working, ShaState, RunType
<1>5. /\ chan[0] \in ChannelOf(Addresses) /\ DOMAIN chan = 0..LastChan /\ 0 \in 0..LastChan
      /\ \A c \in 1..LastChan : chan[c] \in ChannelOf(MemAddresses)
  BY Dma9Assumption DEF ShaState, ChannelsType
<1>6. new \in ChannelOf(Addresses)
  BY <1>5, CountedIs
<1>7. chan'[0] = new /\ \A c \in 1..LastChan : chan'[c] = chan[c]
  BY <1>1, <1>5
<1>8. ChannelsType'
  <2> HIDE DEF new
  <2> QED BY <1>1, <1>5, <1>6, <1>7 DEF ChannelsType
<1>9. left = tc - 16
  BY <1>3, <1>4, Dma9Assumption
<1>10. left \in 0..Whole /\ left % 16 = 0
  <2>1. tc - 16 \in 0..Whole
    BY <1>3
  <2>2. (tc - 16) % 16 = 0
    BY <1>3, <1>4
  <2> QED BY <1>9, <2>1, <2>2
<1> HIDE DEF left
<1>11. Ended(0) = [chan[0] EXCEPT !.transfer_count = left, !.busy = IF left = 0 THEN FALSE ELSE @]
  BY <1>5 DEF Ended, ChannelOf, left
<1> DEFINE ended == Ended(0)
<1>12. /\ ended.transfer_count = left /\ ended.busy = (left # 0)
       /\ ended.src_reload = FALSE /\ ended.dest_reload = FALSE
       /\ ended.int_src = chan[0].int_src /\ ended.int_dest = chan[0].int_dest
       /\ ended.src_step = 1 /\ ended.dest_step = 0 /\ ended.irq_enable
       /\ ended.startup_mode = "SHA_IN" /\ ended.write_count = 16
       /\ {"int_src", "int_dest", "busy", "transfer_count", "irq_enable", "startup_mode",
           "src_step", "dest_step", "write_count"} \subseteq DOMAIN ended
  <2>1. /\ DOMAIN chan[0] = {"source_addr", "dest_addr", "int_src", "int_dest", "transfer_count",
                             "write_count", "src_step", "dest_step", "src_reload", "dest_reload",
                             "startup_mode", "imm_mode", "repeating_mode", "irq_enable", "busy"}
        /\ chan[0].src_reload = FALSE /\ chan[0].dest_reload = FALSE
        /\ chan[0].irq_enable \in BOOLEAN /\ chan[0].busy \in BOOLEAN
    BY <1>5 DEF ChannelOf
  <2>2. chan[0].irq_enable = TRUE /\ chan[0].busy = TRUE
    BY <1>2, <1>4, <2>1
  <2>3. /\ ended.transfer_count = left /\ ended.busy = IF left = 0 THEN FALSE ELSE TRUE
        /\ ended.src_reload = FALSE /\ ended.dest_reload = FALSE
        /\ ended.int_src = chan[0].int_src /\ ended.int_dest = chan[0].int_dest
        /\ ended.src_step = chan[0].src_step /\ ended.dest_step = chan[0].dest_step
        /\ ended.irq_enable = TRUE /\ ended.startup_mode = chan[0].startup_mode
        /\ ended.write_count = chan[0].write_count /\ DOMAIN ended = DOMAIN chan[0]
    BY <1>11, <2>1, <2>2
  <2> HIDE DEF ended
  <2> QED BY <1>4, <2>1, <2>3
<1> HIDE DEF ended
<1>13. new = [ended EXCEPT !.int_src = Moved(chan[0].int_src, 16, 1),
                           !.int_dest = Moved(chan[0].int_dest, 16, 0)]
  BY <1>4, <1>12 DEF Advanced, ended
<1>14. /\ Moved(chan[0].int_src, 16, 1) = Mem(job.from + (Whole - left))
       /\ Moved(chan[0].int_dest, 16, 0) = Fifo("SHA")
  <2>1. Moved(chan[0].int_src, 16, 1) = [Mem(job.from + (Whole - tc)) EXCEPT !.at = @ + 16 * 1]
    BY <1>4 DEF Moved
  <2>2. Moved(chan[0].int_src, 16, 1) = Mem(job.from + (Whole - tc) + 16 * 1)
    BY <2>1 DEF Mem
  <2>3. job.from + (Whole - tc) + 16 * 1 = job.from + (Whole - left)
    BY <1>3, <1>9
  <2>4. Moved(chan[0].int_dest, 16, 0) = [Fifo("SHA") EXCEPT !.at = @ + 16 * 0]
    BY <1>4 DEF Moved
  <2> QED BY <2>2, <2>3, <2>4 DEF Fifo
<1> HIDE DEF new
<1>15. /\ chan'[0].int_src = Mem(job.from + (Whole - left)) /\ chan'[0].int_dest = Fifo("SHA")
       /\ chan'[0].transfer_count = left /\ chan'[0].busy = (left # 0)
       /\ chan'[0].src_step = 1 /\ chan'[0].dest_step = 0 /\ chan'[0].irq_enable
       /\ chan'[0].startup_mode = "SHA_IN" /\ chan'[0].write_count = 16
  BY <1>7, <1>12, <1>13, <1>14
<1>16. Whole' = Whole /\ job' = job /\ xdma' = xdma /\ SameMessage
  BY DEF Whole, SameMessage, devices
<1>17. left # 0 => IF_' = IF_
  <2>1. Ended(0).transfer_count = left
    BY <1>12 DEF ended
  <2>2. ~chan[0].imm_mode /\ ~chan[0].repeating_mode
    BY <1>5 DEF ChannelOf
  <2> QED BY <2>1, <2>2 DEF EndBlock
<1>18. Feeding'
  <2>1. left # 0 => Working'
    BY <1>4, <1>10, <1>15, <1>16, <1>17 DEF Working
  <2> QED BY <1>3, <1>15, <1>16, <2>1 DEF Feeding
<1>19. RunType' /\ (Copying' => run'.ch # 0)
  BY <1>1, AfterBlockIs DEF ShaState
<1>20. CopyingFeeds' /\ InBlock' = 0
  BY <1>19 DEF CopyingFeeds, InBlock
<1>21. Accepted' = Accepted
  <2>1. Fed_' = Whole - left + 0
    BY <1>3, <1>15, <1>16, <1>20 DEF Fed_
  <2>2. Accepted' = 0 + (Whole - left + 0)
    BY <1>4, <1>16, <2>1 DEF Accepted
  <2> QED BY <1>3, <1>4, <1>9, <2>2
<1>22. Message'
  BY <1>16, <1>21, MessageStays DEF ShaState
<1> QED BY <1>3, <1>8, <1>16, <1>18, <1>19, <1>20, <1>22
        DEF ShaState, ShaFields, SameMessage, XdmaStops, JobType

(* A step of the DMAs, of the events, or into a slice. *)
LEMMA ShaDma ==
    ASSUME ShaState, job.j.route = "sha", Dma \/ Defer \/ Deliver \/ EndSlice
    PROVE  ShaState'
<1>1. CASE Ndma
  BY <1>1, ShaScan, OtherBlockEnds, FedBlockEnds DEF Ndma
<1> QED BY <1>1, ShaDmaRead, ShaDmaWrite, ShaRest DEF Dma

-----------------------------------------------------------------------------
(* The driver of the SHA engine. *)

LEMMA NothingIsCopied ==
    ASSUME ShaState, run.phase = "cpu", run' = run
    PROVE  RunType' /\ CopyingFeeds' /\ InBlock = 0 /\ InBlock' = 0
BY DEF ShaState, RunType, CopyingFeeds, InBlock, Copying

LEMMA StepIs ==
    ASSUME JobType, NEW name, NEW needed, Step(name, needed)
    PROVE  /\ name \in job.todo /\ needed \intersect job.todo = {}
           /\ name \in job.j.todo /\ "end" \in job.todo
           /\ job'.todo = job.todo \ {name} /\ job'.todo \subseteq job.j.todo
           /\ job'.j = job.j /\ job'.from = job.from /\ job'.fed = job.fed
           /\ DOMAIN job' = DOMAIN job
           /\ name # "end" => "end" \in job'.todo /\ job'.todo # {} /\ JobType'
BY DEF Step, JobType

(* CNT. *)
LEMMA ShaStarts ==
    ASSUME ShaState, job.j.route = "sha", run.phase = "cpu", Step("cnt", {}), Registers_,
           WriteShaCnt(ShaCnt(job.j), TRUE, FALSE)
    PROVE  ShaState'
<1>1. /\ "cnt" \in job.todo /\ job'.todo = job.todo \ {"cnt"}
      /\ "end" \in job'.todo /\ JobType'
      /\ job'.j = job.j /\ job'.from = job.from /\ job'.fed = job.fed
  BY StepIs DEF ShaState
<1>2. sha.input = <<>> /\ job.fed = 0
  BY <1>1 DEF ShaState, Message
<1>3. Taken(0)' /\ ShaFields' /\ UNCHANGED <<late, IF_>>
  BY <1>2, StartTakesNothing DEF ShaState
<1>4. UNCHANGED <<chan, run, xdma, IF_>>
  BY <1>3 DEF Registers_
<1>5. RunType' /\ CopyingFeeds'
  BY <1>4, NothingIsCopied
<1>6. IF "in" \in job.j.todo THEN "in!" \in job.todo /\ Waiting ELSE ~chan[0].busy
  BY <1>1 DEF ShaState, Feeding
<1>7. Feeding'
  BY <1>1, <1>4, <1>6 DEF Feeding, Waiting, Whole
<1>8. Accepted' = 0
  BY <1>1, <1>2, <1>6 DEF Accepted, Fed_
<1>9. job.j.n \in Nat
  BY JobIs DEF ShaState
<1>10. Taken(Accepted)'
  BY <1>3, <1>8 DEF Taken
<1>11. Message'
  BY <1>1, <1>8, <1>9, <1>10 DEF Message
<1> QED BY <1>1, <1>3, <1>4, <1>5, <1>7, <1>11 DEF ShaState, ChannelsType, XdmaStops

(* A step that leaves the engine, and channel 0 unless it says what it does. *)
LEMMA ShaSteps ==
    ASSUME ShaState, run.phase = "cpu", run' = run, UNCHANGED <<xdma, IF_>>,
           SameMessage, JobType', ChannelsType', Feeding', Accepted' = Accepted,
           job'.j = job.j, job'.from = job.from, job'.fed = job.fed, job'.todo # {},
           job.todo # {}, "cnt" \in job'.todo <=> "cnt" \in job.todo
    PROVE  ShaState'
<1>1. Message'
  BY MessageStays DEF ShaState
<1> QED BY <1>1, NothingIsCopied DEF ShaState, ShaFields, SameMessage, XdmaStops

LEMMA ShaClears ==
    ASSUME ShaState, run.phase = "cpu", Step("clear", {}), ByAes, Registers_, IF_' = IF_
    PROVE  ShaState'
<1>1. /\ "clear" \in job.todo /\ job'.todo = job.todo \ {"clear"} /\ job'.todo # {} /\ JobType'
      /\ job'.j = job.j /\ job'.from = job.from /\ job'.fed = job.fed
  BY StepIs DEF ShaState
<1>2. UNCHANGED <<chan, run, xdma>> /\ SameMessage
  BY DEF Registers_, ByAes, SameMessage
<1>3. Accepted' = Accepted
  <2>1. InBlock' = InBlock
    BY <1>2 DEF InBlock, Copying
  <2> QED BY <1>1, <1>2, <2>1 DEF Accepted, Fed_, Whole
<1>4. Feeding' /\ ChannelsType'
  BY <1>1, <1>2 DEF ShaState, Feeding, Waiting, Working, Whole, ChannelsType
<1> QED BY <1>1, <1>2, <1>3, <1>4, ShaSteps

(* The registers of a channel that feeds or reads back. *)
LEMMA MemIs ==
    ASSUME NEW at \in Int
    PROVE  Mem(at) \in MemAddresses /\ Mem(at) \in Addresses /\ Fifo("SHA") \in Addresses
BY DEF Mem, Fifo, Addresses, MemAddresses

(* A channel of which the registers are written, and then the control. *)
Registered(ch, source, dest, count, size) ==
    [ch EXCEPT !.source_addr = source, !.dest_addr = dest,
               !.transfer_count = count, !.write_count = size]

Controlled(ch, mode, src, dest) == Updated(ch, Control(mode, src, dest, TRUE))
Loaded(ch) == [ch EXCEPT !.int_src = ch.source_addr, !.int_dest = ch.dest_addr]

LEMMA RegistersAre ==
    ASSUME NEW destinations, NEW ch \in ChannelOf(destinations), NEW source \in Addresses,
           NEW dest \in destinations, NEW count \in Int, NEW size \in Int
    PROVE  LET new == Registered(ch, source, dest, count, size)
           IN /\ new \in ChannelOf(destinations) /\ new.source_addr = source
              /\ new.dest_addr = dest /\ new.transfer_count = count
              /\ new.write_count = size /\ new.busy = ch.busy
BY DEF ChannelOf, Registered

ControlWritten(new, ch, mode, src, dest) ==
    /\ new.busy = TRUE /\ new.irq_enable = TRUE
    /\ new.startup_mode = mode /\ new.src_step = src /\ new.dest_step = dest
    /\ new.source_addr = ch.source_addr /\ new.dest_addr = ch.dest_addr
    /\ new.transfer_count = ch.transfer_count /\ new.write_count = ch.write_count

LEMMA ControlIs ==
    ASSUME NEW destinations, NEW ch \in ChannelOf(destinations),
           NEW mode \in Requests \union {"none"}, NEW src \in {0, 1}, NEW dest \in {0, 1}
    PROVE  /\ Controlled(ch, mode, src, dest) \in ChannelOf(destinations)
           /\ ControlWritten(Controlled(ch, mode, src, dest), ch, mode, src, dest)
<1> DEFINE new == Controlled(ch, mode, src, dest)
           ctrl == Control(mode, src, dest, TRUE)
<1>1. /\ DOMAIN ctrl = {"src_step", "dest_step", "startup_mode", "busy", "imm_mode", "irq_enable"}
      /\ ctrl.busy = TRUE /\ ctrl.irq_enable = TRUE /\ ctrl.imm_mode = FALSE
      /\ ctrl.startup_mode = mode /\ ctrl.src_step = src /\ ctrl.dest_step = dest
  BY DEF Control
<1>2. new = [f \in DOMAIN ch |-> IF f \in DOMAIN ctrl THEN ctrl[f] ELSE ch[f]]
  BY DEF Controlled, Updated
<1> HIDE DEF new, ctrl
<1>3. new = [ch EXCEPT !.src_step = src, !.dest_step = dest, !.startup_mode = mode,
                       !.busy = TRUE, !.imm_mode = FALSE, !.irq_enable = TRUE]
  BY <1>1, <1>2 DEF ChannelOf
<1>4. src \in Int /\ dest \in Int
  OBVIOUS
<1>5. new \in ChannelOf(destinations)
  BY <1>3, <1>4 DEF ChannelOf
<1>6. ControlWritten(new, ch, mode, src, dest)
  BY <1>3 DEF ChannelOf, ControlWritten
<1> QED BY <1>5, <1>6 DEF new

LEMMA LoadedIs ==
    ASSUME NEW destinations, NEW ch \in ChannelOf(destinations), destinations \subseteq Addresses
    PROVE  /\ Loaded(ch) \in ChannelOf(destinations)
           /\ Loaded(ch).int_src = ch.source_addr /\ Loaded(ch).int_dest = ch.dest_addr
           /\ Loaded(ch).busy = ch.busy /\ Loaded(ch).irq_enable = ch.irq_enable
           /\ Loaded(ch).startup_mode = ch.startup_mode
           /\ Loaded(ch).src_step = ch.src_step /\ Loaded(ch).dest_step = ch.dest_step
           /\ Loaded(ch).transfer_count = ch.transfer_count
           /\ Loaded(ch).write_count = ch.write_count
BY DEF ChannelOf, Loaded

LEMMA OnlyDmaKeeps ==
    ASSUME OnlyDma
    PROVE  SameMessage /\ xdma' = xdma
BY DEF OnlyDma, devices, SameMessage

LEMMA FeederIsSetUp ==
    ASSUME ShaState, job.j.route = "sha", run.phase = "cpu",
           SetUp(0, "in", {}, Mem(job.from), Fifo("SHA"), 16 * (job.j.n \div 16), 16)
    PROVE  ShaState'
<1>1. /\ "in" \in job.todo /\ job'.todo = job.todo \ {"in"} /\ job'.todo # {} /\ JobType'
      /\ job'.j = job.j /\ job'.from = job.from /\ job'.fed = job.fed /\ "in" \in job.j.todo
  BY StepIs DEF ShaState, SetUp
<1>2. "in!" \in job.todo /\ Waiting
  BY <1>1 DEF ShaState, Feeding
<1> DEFINE new == Registered(chan[0], Mem(job.from), Fifo("SHA"), Whole, 16)
<1>3. chan' = [chan EXCEPT ![0] = new] /\ run' = run /\ IF_' = IF_
  BY DEF SetUp, WriteRegisters, Whole, Registered
<1>4. SameMessage /\ xdma' = xdma
  BY OnlyDmaKeeps DEF SetUp
<1>5. Whole \in Int /\ job.from \in Int
  BY JobIs DEF ShaState, JobType
<1>6. /\ DOMAIN chan = 0..LastChan /\ 0 \in 0..LastChan /\ chan[0] \in ChannelOf(Addresses)
      /\ \A c \in 1..LastChan : c # 0 /\ chan[c] \in ChannelOf(MemAddresses)
  BY Dma9Assumption DEF ShaState, ChannelsType
<1>7. /\ new \in ChannelOf(Addresses) /\ new.source_addr = Mem(job.from)
      /\ new.dest_addr = Fifo("SHA") /\ new.transfer_count = Whole /\ new.write_count = 16
      /\ new.busy = chan[0].busy
  <2>1. Mem(job.from) \in Addresses /\ Fifo("SHA") \in Addresses /\ 16 \in Int
    BY <1>5, MemIs
  <2> QED BY <1>5, <1>6, <2>1, RegistersAre
<1> HIDE DEF new
<1>8. chan'[0] = new /\ ChannelsType'
  BY <1>3, <1>6, <1>7 DEF ChannelsType
<1>9. Feeding'
  BY <1>1, <1>2, <1>3, <1>7, <1>8 DEF Feeding, Waiting, Whole
<1>10. Accepted' = Accepted
  BY <1>1, <1>2 DEF Accepted, Fed_
<1> QED BY <1>1, <1>3, <1>4, <1>8, <1>9, <1>10, ShaSteps

LEMMA FeederIsStarted ==
    ASSUME ShaState, job.j.route = "sha", run.phase = "cpu",
           Launch(0, "in!", {"in", "cnt", "out!"}, "SHA_IN", 1, 0, TRUE)
    PROVE  ShaState'
<1>1. /\ "in!" \in job.todo /\ "in" \notin job.todo /\ "cnt" \notin job.todo
      /\ job'.todo = job.todo \ {"in!"} /\ job'.todo # {} /\ JobType'
      /\ job'.j = job.j /\ job'.from = job.from /\ job'.fed = job.fed /\ "in!" \in job.j.todo
  BY StepIs DEF ShaState, Launch
<1>2. "in" \in job.j.todo /\ Whole \in 1..(CountLimit - 1) /\ Whole % 16 = 0 /\ job.from \in Int
  BY <1>1, JobIs DEF ShaState, JobType
<1>3. /\ ~chan[0].busy /\ 0 \notin IF_ /\ job.fed = 0
      /\ chan[0].source_addr = Mem(job.from) /\ chan[0].dest_addr = Fifo("SHA")
      /\ chan[0].transfer_count = Whole /\ chan[0].write_count = 16
  BY <1>1, <1>2 DEF ShaState, Feeding, Waiting
<1> DEFINE ctrl == Control("SHA_IN", 1, 0, TRUE)
           updated == Controlled(chan[0], "SHA_IN", 1, 0)
           new == Loaded(updated)
<1>4. ctrl.busy = TRUE /\ ctrl.imm_mode = FALSE
  BY DEF Control
<1>5. /\ DOMAIN chan = 0..LastChan /\ 0 \in 0..LastChan /\ chan[0] \in ChannelOf(Addresses)
      /\ \A c \in 1..LastChan : c # 0 /\ chan[c] \in ChannelOf(MemAddresses)
  BY Dma9Assumption DEF ShaState, ChannelsType
<1>6. updated = Updated(chan[0], ctrl)
  BY DEF Controlled
<1>7. chan' = [chan EXCEPT ![0] = new] /\ run' = run /\ IF_' = IF_
  <2>1. WriteControl(0, ctrl)
    BY DEF Launch
  <2> HIDE DEF ctrl
  <2> QED BY <1>3, <1>4, <1>6, <2>1 DEF WriteControl, Loaded
<1>8. SameMessage /\ xdma' = xdma
  BY OnlyDmaKeeps DEF Launch
<1>9. /\ new \in ChannelOf(Addresses) /\ new.busy = TRUE /\ new.irq_enable = TRUE
      /\ new.startup_mode = "SHA_IN" /\ new.src_step = 1 /\ new.dest_step = 0
      /\ new.int_src = Mem(job.from) /\ new.int_dest = Fifo("SHA")
      /\ new.transfer_count = Whole /\ new.write_count = 16
  <2>1. "SHA_IN" \in Requests \union {"none"} /\ 1 \in {0, 1} /\ 0 \in {0, 1}
    BY DEF Requests
  <2>2. /\ updated \in ChannelOf(Addresses) /\ updated.busy = TRUE /\ updated.irq_enable = TRUE
        /\ updated.startup_mode = "SHA_IN" /\ updated.src_step = 1 /\ updated.dest_step = 0
        /\ updated.source_addr = Mem(job.from) /\ updated.dest_addr = Fifo("SHA")
        /\ updated.transfer_count = Whole /\ updated.write_count = 16
    <3>1. chan[0] \in ChannelOf(Addresses)
      BY <1>5
    <3>2. /\ updated \in ChannelOf(Addresses)
          /\ ControlWritten(updated, chan[0], "SHA_IN", 1, 0)
      BY <2>1, <3>1, ControlIs
    <3> HIDE DEF updated
    <3> QED BY <1>3, <3>2 DEF ControlWritten
  <2> HIDE DEF updated
  <2> QED BY <2>2, LoadedIs
<1> HIDE DEF new, ctrl, updated
<1>10. chan'[0] = new /\ ChannelsType'
  BY <1>5, <1>7, <1>9 DEF ChannelsType
<1>11. Whole' = Whole /\ job.from + (Whole - Whole) = job.from
  BY <1>1, <1>2 DEF Whole
<1>12. Feeding'
  <2>1. Working'
    BY <1>1, <1>2, <1>3, <1>7, <1>9, <1>10, <1>11 DEF Working
  <2> QED BY <1>1, <1>2, <1>9, <1>10, <2>1 DEF Feeding
<1>13. Accepted' = Accepted
  <2>1. InBlock' = 0
    BY <1>7 DEF InBlock, Copying
  <2>2. Fed_ = 0
    BY <1>1, <1>2 DEF Fed_
  <2>3. Fed_' = Whole - Whole + 0
    BY <1>1, <1>2, <1>9, <1>10, <1>11, <2>1 DEF Fed_
  <2> QED BY <1>1, <1>2, <2>2, <2>3 DEF Accepted
<1> QED BY <1>1, <1>7, <1>8, <1>10, <1>12, <1>13, ShaSteps

(* A step that changes another channel, or none. *)
LEMMA AnotherChannel ==
    ASSUME ShaState, job.j.route = "sha", run.phase = "cpu", OnlyDma,
           NEW name \in {"out", "out!"}, NEW needed, Step(name, needed), run' = run, IF_' = IF_,
           NEW new, chan' = [chan EXCEPT ![1] = new],
           1 \in DOMAIN chan => new \in ChannelOf(MemAddresses)
    PROVE  ShaState'
<1>1. /\ name \in job.todo /\ job'.todo = job.todo \ {name} /\ job'.todo # {} /\ JobType'
      /\ job'.j = job.j /\ job'.from = job.from /\ job'.fed = job.fed
  <2>1. name # "end" /\ JobType
    BY DEF ShaState
  <2> QED BY <2>1, StepIs
<1>2. /\ DOMAIN chan = 0..LastChan /\ 0 \in 0..LastChan /\ chan[0] \in ChannelOf(Addresses)
      /\ \A c \in 1..LastChan : chan[c] \in ChannelOf(MemAddresses)
      /\ \A c \in 1..LastChan : c \in 0..LastChan
  BY Dma9Assumption DEF ShaState, ChannelsType
<1>3. chan'[0] = chan[0] /\ ChannelsType'
  BY <1>2 DEF ChannelsType
<1>4. SameMessage /\ xdma' = xdma
  BY OnlyDmaKeeps
<1>5. Accepted' = Accepted
  <2>1. InBlock' = InBlock
    BY DEF InBlock, Copying
  <2> QED BY <1>1, <1>3, <2>1 DEF Accepted, Fed_, Whole
<1>6. Feeding'
  BY <1>1, <1>3 DEF ShaState, Feeding, Waiting, Working, Whole
<1>7. "cnt" \in job'.todo <=> "cnt" \in job.todo
  BY <1>1
<1> QED BY <1>1, <1>3, <1>4, <1>5, <1>6, <1>7, ShaSteps

LEMMA ReaderIsSetUp ==
    ASSUME ShaState, job.j.route = "sha", run.phase = "cpu",
           SetUp(1, "out", {}, Fifo("SHA"), Mem(job.from), 16 * (job.j.n \div 16), 16)
    PROVE  ShaState'
<1> DEFINE new == Registered(chan[1], Fifo("SHA"), Mem(job.from), Whole, 16)
<1>1. /\ Step("out", {}) /\ OnlyDma /\ chan' = [chan EXCEPT ![1] = new]
      /\ run' = run /\ IF_' = IF_
  BY DEF SetUp, WriteRegisters, Whole, Registered
<1>2. ASSUME 1 \in DOMAIN chan
      PROVE  new \in ChannelOf(MemAddresses)
  <2>1. chan[1] \in ChannelOf(MemAddresses)
    BY <1>2 DEF ShaState, ChannelsType
  <2>2. Whole \in Int /\ job.from \in Int
    BY JobIs DEF ShaState, JobType
  <2>3. Mem(job.from) \in MemAddresses /\ Fifo("SHA") \in Addresses /\ 16 \in Int
    BY <2>2, MemIs
  <2> QED BY <2>1, <2>2, <2>3, RegistersAre
<1> HIDE DEF new
<1> QED BY <1>1, <1>2, AnotherChannel

LEMMA ReaderIsStarted ==
    ASSUME ShaState, job.j.route = "sha", run.phase = "cpu",
           Launch(1, "out!", {"out", "clear"}, job.j.echo, 0, 1, TRUE)
    PROVE  ShaState'
<1> DEFINE ctrl == Control(job.j.echo, 0, 1, TRUE)
           updated == Controlled(chan[1], job.j.echo, 0, 1)
           started == Loaded(updated)
           new == IF ctrl.busy /\ ~chan[1].busy THEN started ELSE updated
<1>1. ctrl.busy = TRUE /\ ctrl.imm_mode = FALSE
  BY DEF Control
<1>2. /\ Step("out!", {"out", "clear"}) /\ OnlyDma /\ chan' = [chan EXCEPT ![1] = new]
      /\ run' = run /\ IF_' = IF_
  BY <1>1 DEF Launch, WriteControl, Controlled, Loaded
<1>3. ASSUME 1 \in DOMAIN chan
      PROVE  new \in ChannelOf(MemAddresses)
  <2>1. chan[1] \in ChannelOf(MemAddresses)
    BY <1>3 DEF ShaState, ChannelsType
  <2>2. job.j.echo \in Requests \union {"none"} /\ 1 \in {0, 1} /\ 0 \in {0, 1}
    BY JobIs DEF ShaState
  <2>3. updated \in ChannelOf(MemAddresses)
    BY <2>1, <2>2, ControlIs
  <2>4. started \in ChannelOf(MemAddresses)
    <3> HIDE DEF updated
    <3> QED BY <2>3, MemAreAddresses, LoadedIs
  <2> HIDE DEF updated, started
  <2> QED BY <2>3, <2>4
<1> HIDE DEF new
<1> QED BY <1>2, <1>3, AnotherChannel

(* When the channels are done, the engine has what was given to them. *)
LEMMA DoneIs ==
    ASSUME ShaState, job.j.route = "sha", run.phase = "cpu", job.todo = {"end"},
           ChannelsDone(job.j)
    PROVE  /\ Accepted = ByDma(job.j) + job.fed /\ Taken(Accepted) /\ Accepted \in 0..job.j.n
           /\ ~chan[0].busy /\ job.fed \in Nat /\ job.from \in Nat /\ job.j.n \in Nat
           /\ Fed_ = ByDma(job.j) /\ ("in" \in job.j.todo => chan[0].transfer_count = 0)
           /\ ByDma(job.j) \in Nat
<1>1. Taken(Accepted) /\ Accepted \in 0..job.j.n /\ job.fed \in Nat /\ job.from \in Nat
  BY DEF ShaState, Message, JobType
<1>2. job.j.n \in Nat /\ Whole \in Nat
  BY JobIs DEF ShaState
<1>3. ~chan[0].busy /\ ("in" \in job.j.todo => chan[0].transfer_count = 0)
  BY DEF ShaState, Feeding, Working, ChannelsDone
<1>4. InBlock = 0
  BY DEF InBlock, Copying
<1>5. "in" \in job.j.todo => Fed_ = Whole - 0 + 0
  BY <1>3, <1>4 DEF Fed_
<1>6. "in" \notin job.j.todo => Fed_ = 0
  BY DEF Fed_
<1>7. Fed_ = ByDma(job.j) /\ ByDma(job.j) \in Nat
  BY <1>2, <1>5, <1>6 DEF ByDma, Whole
<1>8. Accepted = ByDma(job.j) + job.fed
  BY <1>1, <1>7 DEF Accepted
<1> QED BY <1>1, <1>2, <1>3, <1>7, <1>8

(* A word that the processor writes. *)
LEMMA ProcessorFeeds ==
    ASSUME ShaState, job.j.route = "sha", run.phase = "cpu", job.todo = {"end"},
           ChannelsDone(job.j), ByDma(job.j) + job.fed < job.j.n, Fed(1),
           WriteShaFifo(Data(job.from + (ByDma(job.j) + job.fed))), Registers_
    PROVE  ShaState'
<1>1. /\ Accepted = ByDma(job.j) + job.fed /\ Taken(Accepted) /\ Accepted \in 0..job.j.n
      /\ ~chan[0].busy /\ job.fed \in Nat /\ job.from \in Nat /\ job.j.n \in Nat
      /\ Fed_ = ByDma(job.j) /\ ByDma(job.j) \in Nat
  BY DoneIs
<1>2. "in" \in job.j.todo => chan[0].transfer_count = 0
  BY DoneIs
<1>3. /\ job'.j = job.j /\ job'.from = job.from /\ job'.todo = job.todo
      /\ job'.fed = job.fed + 1 /\ JobType'
  <2>1. DOMAIN job = {"j", "todo", "left", "fed", "from"} /\ JobType
    BY DEF ShaState, JobType
  <2>2. job' = [job EXCEPT !.fed = job.fed + 1]
    BY DEF Fed
  <2>3. /\ job'.j = job.j /\ job'.from = job.from /\ job'.todo = job.todo
        /\ job'.fed = job.fed + 1 /\ DOMAIN job' = DOMAIN job
    BY <2>1, <2>2
  <2> QED BY <1>1, <2>1, <2>3 DEF JobType
<1>4. PICK h \in Nat : h = Accepted
  BY <1>1
<1>5. job.from + (h + 1) - 1 = job.from + (ByDma(job.j) + job.fed)
  BY <1>1, <1>4
<1>6. WriteShaFifo(MessageWord(h + 1)) /\ Taken(h) /\ ShaFields
  BY <1>1, <1>4, <1>5 DEF MessageWord, ShaState
<1>7. Taken(h + 1)' /\ ShaFields' /\ UNCHANGED <<late, IF_>>
  BY <1>3, <1>6, WordIsTaken
<1>8. UNCHANGED <<chan, run, xdma, IF_>>
  BY <1>7 DEF Registers_
<1>9. Fed_' = Fed_
  <2>1. InBlock' = InBlock
    BY <1>8 DEF InBlock, Copying
  <2> QED BY <1>3, <1>8, <2>1 DEF Fed_, Whole
<1>10. Accepted' = h + 1 /\ Accepted' \in 0..job.j.n
  BY <1>1, <1>3, <1>4, <1>9 DEF Accepted
<1>11. Taken(Accepted)'
  BY <1>7, <1>10 DEF Taken
<1>12. Message'
  BY <1>3, <1>10, <1>11 DEF Message
<1>13. Feeding'
  BY <1>1, <1>2, <1>3, <1>8 DEF Feeding
<1> QED BY <1>3, <1>7, <1>8, <1>12, <1>13, NothingIsCopied DEF ShaState, ChannelsType, XdmaStops

(* The final round. *)
LEMMA ShaEnds ==
    ASSUME ShaState, job.j.route = "sha", run.phase = "cpu", job.todo = {"end"},
           ChannelsDone(job.j), ByDma(job.j) + job.fed = job.j.n, Step("end", {}),
           WriteShaCnt(ShaCnt(job.j), FALSE, TRUE), Registers_
    PROVE  ShaState'
<1>1. Taken(job.j.n)
  <2>1. Accepted = job.j.n /\ Taken(Accepted)
    BY DoneIs
  <2> QED BY <2>1
<1>2. JobType /\ ShaFields
  BY DEF ShaState
<1>3. /\ job'.todo = {} /\ job'.j = job.j /\ job'.from = job.from /\ job'.fed = job.fed
      /\ DOMAIN job' = DOMAIN job /\ job'.todo \subseteq job.j.todo
  BY <1>2, StepIs
<1>4. /\ ShaFields' /\ sha'.input = <<>> /\ DigestIsOfMessage' /\ UNCHANGED <<late, IF_>>
  BY <1>1, <1>2, <1>3, EndIsDigest
<1>5. UNCHANGED <<chan, run, xdma, IF_>>
  BY <1>4 DEF Registers_
<1>6. ~chan[0].busy /\ ("in" \in job.j.todo => chan[0].transfer_count = 0)
  BY DoneIs
<1>7. JobType' /\ Feeding'
  BY <1>2, <1>3, <1>5, <1>6 DEF JobType, Feeding
<1>8. Message'
  BY <1>3, <1>4 DEF Message
<1> QED BY <1>4, <1>5, <1>7, <1>8, NothingIsCopied DEF ShaState, ChannelsType, XdmaStops

(* The next job, after a reset or not. *)
LEMMA NextMessage ==
    ASSUME ShaState, job.j.route = "sha", ShaDone, NextProgram, IF_' = {},
           ShaFields', sha'.input = sha.input, XdmaStops',
           ChannelsType', ~chan'[0].busy, RunType', ~Copying'
    PROVE  ShaState'
<1>1. PICK j \in Jobs : /\ j.route = "sha" /\ j.todo = job.j.todo
                        /\ job' = [Program(j, job.left - 1) EXCEPT !.from = job.from + 100]
  BY DEF NextProgram
<1>2. /\ DOMAIN job' = {"j", "todo", "left", "fed", "from"}
      /\ job'.j = j /\ job'.todo = j.todo /\ job'.fed = 0 /\ job'.from = job.from + 100
  BY <1>1 DEF Program
<1>3. job.from \in Nat /\ sha.input = <<>>
  BY DEF ShaState, JobType, Message, ShaDone
<1>4. {"cnt", "end"} \subseteq j.todo /\ ("in!" \in j.todo <=> "in" \in j.todo)
  BY <1>1, ShaJobsAssumption
<1>5. JobType' /\ Message'
  BY <1>2, <1>3, <1>4 DEF JobType, Message
<1>6. Feeding'
  BY <1>2, <1>4 DEF Feeding, Waiting
<1>7. CopyingFeeds'
  BY DEF CopyingFeeds
<1> QED BY <1>5, <1>6, <1>7 DEF ShaState

LEMMA IdleChanIs ==
    /\ IdleChan \in ChannelOf(Addresses) /\ IdleChan \in ChannelOf(MemAddresses)
    /\ IdleChan.busy = FALSE
<1>1. Nowhere \in Addresses /\ Nowhere \in MemAddresses
  BY DEF Nowhere, Addresses, MemAddresses
<1>2. "TIMER0" \in Requests \union {"none"}
  BY DEF Requests
<1> QED BY <1>1, <1>2 DEF IdleChan, ChannelOf

LEMMA ShaJobStep ==
    ASSUME ShaState, ShaJob
    PROVE  ShaState'
<1> DEFINE j == job.j
           next == ByDma(j) + job.fed
           cnt == [in_word_order |-> aes.in_word_order]
<1>1. run.phase = "cpu" /\ job.j.route = "sha"
  BY DEF ShaJob, On
<1>2. CASE /\ Step("cnt", {}) /\ BySha /\ Registers_
           /\ WriteShaCnt(ShaCnt(j), TRUE, FALSE)
  BY <1>1, <1>2, ShaStarts
<1>3. CASE /\ Step("clear", {}) /\ ByAes /\ Registers_
           /\ WriteCnt(cnt, FALSE)
  <2>1. IF_' = IF_
    BY <1>3 DEF WriteCnt
  <2> QED BY <1>1, <1>3, <2>1, ShaClears
<1>4. CASE ShaChannels(j)
  BY <1>1, <1>4, FeederIsSetUp, FeederIsStarted, ReaderIsSetUp, ReaderIsStarted DEF ShaChannels
<1>5. CASE /\ job.todo = {"end"} /\ ChannelsDone(j) /\ next < j.n
           /\ Fed(1) /\ WriteShaFifo(Data(job.from + next)) /\ BySha /\ Registers_
  BY <1>1, <1>5, ProcessorFeeds
<1>6. CASE /\ job.todo = {"end"} /\ ChannelsDone(j) /\ next = j.n
           /\ Step("end", {}) /\ BySha /\ Registers_
           /\ WriteShaCnt(ShaCnt(j), FALSE, TRUE)
  BY <1>1, <1>6, ShaEnds
<1> QED BY <1>2, <1>3, <1>4, <1>5, <1>6 DEF ShaJob

LEMMA ShaNextJob ==
    ASSUME ShaState, job.j.route = "sha", Reset \/ NextJob
    PROVE  ShaState'
<1>1. ShaDone /\ NextProgram /\ ShaFields /\ JobType /\ XdmaStops /\ ChannelsType /\ RunType
  BY DEF Reset, NextJob, Done, ShaState
<1>2. CASE Reset
  <2>1. ShaFields' /\ sha'.input = sha.input
    BY <1>1, <1>2 DEF Reset, ShaReset, ShaFields
  <2>2. XdmaStops'
    <3>1. /\ DOMAIN xdma' = {"chan", "int_enable", "int_flag"} /\ DOMAIN xdma'.chan = 0..LastXChan
          /\ \A c \in 0..LastXChan :
                 xdma'.chan[c] = [xdma.chan[c] EXCEPT !.state = "STOP", !.fifo = <<>>]
      BY <1>2 DEF Reset, CorelinkReset
    <3> QED BY <1>1, <3>1 DEF XdmaStops
  <2>3. /\ chan' = [c \in 0..LastChan |-> IdleChan] /\ run' = Cpu_ /\ IF_' = {}
    BY <1>2 DEF Reset, DmaReset
  <2>4. ChannelsType' /\ ~chan'[0].busy
    <3>1. 0 \in 0..LastChan /\ (\A c \in 1..LastChan : c \in 0..LastChan)
      BY Dma9Assumption
    <3> QED BY <2>3, <3>1, IdleChanIs DEF ChannelsType
  <2>5. RunType' /\ ~Copying'
    <3>1. IsAt(run', "cpu", 0)
      BY <2>3, PlacesOfRun
    <3> QED BY <3>1, RunGoes
  <2>6. IF_' = {}
    BY <2>3
  <2> QED BY <1>1, <2>1, <2>2, <2>4, <2>5, <2>6, NextMessage
<1>3. CASE NextJob
  <2>1. run.phase = "cpu" /\ UNCHANGED <<chan, run, xdma, sha>> /\ IF_' = {}
    BY <1>3 DEF NextJob, devices
  <2>2. ShaFields' /\ sha'.input = sha.input /\ XdmaStops' /\ ChannelsType' /\ RunType' /\ ~Copying'
    BY <1>1, <2>1 DEF ShaFields, XdmaStops, ChannelsType, RunType, Copying
  <2>3. ~chan'[0].busy
    BY <1>1, <2>1 DEF JobType, ShaDone
  <2> QED BY <1>1, <2>1, <2>2, <2>3, NextMessage
<1> QED BY <1>2, <1>3

LEMMA ShaInitially == Init => ShaInv
<1> SUFFICES ASSUME Init, job.j.route = "sha"
             PROVE  ShaState
  BY DEF ShaInv
<1>1. PICK j \in Jobs : job = Program(j, IF j.route = "keys" THEN 1 ELSE MaxJobs)
  BY DEF Init
<1>2. /\ DOMAIN job = {"j", "todo", "left", "fed", "from"}
      /\ job.j = j /\ job.todo = j.todo /\ job.fed = 0 /\ job.from = 1
  BY <1>1 DEF Program
<1>3. {"cnt", "end"} \subseteq j.todo /\ ("in!" \in j.todo <=> "in" \in j.todo)
  BY <1>2, ShaJobsAssumption
<1>4. ShaFields /\ sha.input = <<>>
  BY DEF Init, ShaInit, ShaFields
<1>5. XdmaStops
  BY DEF Init, CorelinkInit, XdmaStops
<1>6. chan = [c \in 0..LastChan |-> IdleChan] /\ run = Cpu_ /\ IF_ = {}
  BY DEF Init, DmaInit
<1>7. ChannelsType /\ ~chan[0].busy
  <2>1. 0 \in 0..LastChan /\ (\A c \in 1..LastChan : c \in 0..LastChan)
    BY Dma9Assumption
  <2> QED BY <1>6, <2>1, IdleChanIs DEF ChannelsType
<1>8. RunType /\ CopyingFeeds
  BY <1>6 DEF RunType, CopyingFeeds, Copying, Cpu_
<1>9. JobType /\ Message
  BY <1>2, <1>3, <1>4 DEF JobType, Message
<1>10. Feeding
  BY <1>2, <1>3, <1>6, <1>7 DEF Feeding, Waiting
<1> QED BY <1>4, <1>5, <1>7, <1>8, <1>9, <1>10 DEF ShaState

(* The other drivers, and a step of theirs. *)
LEMMA OtherRoutes ==
    ASSUME KeyInv, job.j.route # "sha", [Next]_vars
    PROVE  job'.j.route # "sha"
<1>1. KeysType /\ Fields_
  BY DEF KeyInv
<1>2. CASE Reset \/ NextJob
  BY <1>1, <1>2, NextProgramKeeps DEF Reset, NextJob
<1>3. CASE AesJob \/ XdmaJob \/ MmcJob \/ SdJob \/ MmcStopChannel \/ MmcStop
           \/ CardJob \/ Card2Job \/ SaveJob \/ RsaJob \/ CopyJob
  BY <1>1, <1>3, AesJobKeeps, StorageJobsKeep, CardJobsKeep, OtherJobsKeep DEF SameRoute
<1>4. CASE KeyJob
  BY <1>1, <1>4, JobKeeps DEF KeyJob, SameRoute
<1>5. CASE Dma \/ Defer \/ Deliver \/ EndSlice
  BY <1>1, <1>5, DmaKeeps
<1>6. CASE UNCHANGED vars
  BY <1>6 DEF vars
<1>7. ~ShaJob
  BY DEF ShaJob, On
<1> QED BY <1>2, <1>3, <1>4, <1>5, <1>6, <1>7 DEF Next, Driver

LEMMA ShaNext == KeyInv /\ ShaInv /\ [Next]_vars => ShaInv'
<1> SUFFICES ASSUME KeyInv, ShaInv, [Next]_vars
             PROVE  ShaInv'
  OBVIOUS
<1>1. CASE job.j.route # "sha"
  BY <1>1, OtherRoutes DEF ShaInv
<1>2. CASE job.j.route = "sha"
  <2>1. ShaState
    BY <1>2 DEF ShaInv
  <2>2. ~AesJob /\ ~XdmaJob /\ ~MmcJob /\ ~SdJob /\ ~MmcStopChannel /\ ~MmcStop /\ ~CardJob
        /\ ~Card2Job /\ ~SaveJob /\ ~RsaJob /\ ~CopyJob /\ ~KeyJob
    BY <1>2 DEF AesJob, XdmaJob, MmcJob, SdJob, MmcStopChannel, MmcStop, CardJob,
                Card2Job, SaveJob, RsaJob, CopyJob, KeyJob, On
  <2>3. CASE ShaJob
    BY <2>1, <2>3, ShaJobStep DEF ShaInv
  <2>4. CASE Reset \/ NextJob
    BY <1>2, <2>1, <2>4, ShaNextJob DEF ShaInv
  <2>5. CASE Dma \/ Defer \/ Deliver \/ EndSlice
    BY <1>2, <2>1, <2>5, ShaDma DEF ShaInv
  <2>6. CASE UNCHANGED vars
    <3>1. UNCHANGED <<sha, chan, run, xdma, IF_, job>>
      BY <2>6 DEF vars, devices, dmaVars
    <3>2. ShaFields' /\ ChannelsType' /\ RunType' /\ XdmaStops' /\ JobType'
      BY <2>1, <3>1 DEF ShaState, ShaFields, ChannelsType, RunType, XdmaStops, JobType, Copying
    <3>3. InBlock' = InBlock
      BY <3>1 DEF InBlock, Copying
    <3>4. SameMessage /\ CopyingFeeds'
      BY <2>1, <3>1 DEF ShaState, SameMessage, CopyingFeeds, Copying, MessageWord, Accepted,
                        Fed_, Whole, InBlock
    <3> QED BY <2>1, <3>1, <3>2, <3>3, <3>4, DmaElsewhere DEF ShaInv
  <2> QED BY <2>2, <2>3, <2>4, <2>5, <2>6 DEF Next, Driver
<1> QED BY <1>1, <1>2

(* When a job of the SHA engine has ended, its hash is the digest of the    *)
(* job's message: the padded message, cut into blocks, whoever fed them, in *)
(* whatever order the channels were set up and the slices went, and after   *)
(* whatever jobs and resets.                                                *)
THEOREM Arm9DigestIsOfMessage == Spec => []DigestIsOfMessage
<1>1. ShaInv => DigestIsOfMessage
  BY DEF ShaInv, ShaState, Message, DigestIsOfMessage
<1> QED BY <1>1, KeyInit, KeyNext, ShaInitially, ShaNext, PTL DEF Spec

-----------------------------------------------------------------------------
(* What is delivered: the buses, the channels and the driver, of any job.  *)

(* The device that the DMA reaches in a job. *)
PortOf(route) ==
    CASE route = "aes" -> "AES" [] route = "sha" -> "SHA" [] route = "mmc" -> "MMC"
      [] route = "card" -> "CARD" [] OTHER -> "mem"
Port == PortOf(job.j.route)

BusOf(port) == [port : {"mem", port}, at : Int]

AnyChannel(port) ==
    [source_addr : BusOf(port), dest_addr : BusOf(port), int_src : BusOf(port),
     int_dest : BusOf(port), transfer_count : Int, write_count : Int,
     src_step : Int, dest_step : Int, src_reload : {FALSE}, dest_reload : {FALSE},
     startup_mode : Requests \union {"none"}, imm_mode : BOOLEAN, repeating_mode : {FALSE},
     irq_enable : BOOLEAN, busy : BOOLEAN]

ChansOk(port) == DOMAIN chan = 0..LastChan /\ \A c \in 0..LastChan : chan[c] \in AnyChannel(port)

RunOk ==
    /\ DOMAIN run = {"phase", "ch", "i", "word", "imm"}
    /\ run.ch \in Nat /\ run.i \in Nat /\ run.imm \in BOOLEAN
    /\ run.phase \in {"cpu", "scan", "read", "write", "xdma", "events"}
    /\ Copying => run.ch <= LastChan

JobOk ==
    /\ DOMAIN job = {"j", "todo", "left", "fed", "from"}
    /\ job.j \in Jobs /\ job.todo \subseteq job.j.todo \union {"stop"}
    /\ job.from \in Nat /\ job.fed \in Nat

MediaOk ==
    /\ DOMAIN drive = {"at", "written"} /\ (job.j.route # "mmc" => drive.written = <<>>)
    /\ "written" \in DOMAIN card /\ (job.j.route # "card2" => card.written = <<>>)

BusOk ==
    /\ JobOk /\ ChansOk(Port) /\ RunOk /\ XdmaStops /\ DOMAIN pending = Requests /\ MediaOk

BusInv == job.j.route # "xdma" => BusOk

LEMMA AddressMoves ==
    ASSUME NEW port, NEW addr \in BusOf(port), NEW words \in Int, NEW step \in Int
    PROVE  /\ Moved(addr, words, step) \in BusOf(port)
           /\ Moved(addr, words, step) = [port |-> addr.port, at |-> addr.at + words * step]
BY DEF Moved, BusOf

LEMMA AddressIs ==
    ASSUME NEW port, NEW at \in Int
    PROVE  /\ Mem(at) \in BusOf(port) /\ Fifo(port) \in BusOf(port) /\ Nowhere \in BusOf(port)
           /\ \A q : Fifo(q).port = q
           /\ Mem(at).port = "mem" /\ Mem(at).at = at
BY DEF Mem, Fifo, BusOf, Nowhere

(* One channel is changed. *)
LEMMA OneChannelChanges ==
    ASSUME NEW port, ChansOk(port), NEW c, NEW new, chan' = [chan EXCEPT ![c] = new],
           c \in 0..LastChan => new \in AnyChannel(port)
    PROVE  /\ ChansOk(port)' /\ (c \in 0..LastChan => chan'[c] = new)
           /\ \A d \in 0..LastChan : d # c => chan'[d] = chan[d]
BY DEF ChansOk

LEMMA ChannelIsWritten ==
    ASSUME NEW port, NEW ch \in AnyChannel(port), NEW source \in BusOf(port),
           NEW dest \in BusOf(port), NEW count \in Int, NEW size \in Int
    PROVE  LET new == Registered(ch, source, dest, count, size)
           IN /\ new \in AnyChannel(port) /\ new.source_addr = source
              /\ new.dest_addr = dest /\ new.transfer_count = count
              /\ new.write_count = size /\ new.busy = ch.busy /\ new.irq_enable = ch.irq_enable
              /\ new.startup_mode = ch.startup_mode /\ new.imm_mode = ch.imm_mode
BY DEF AnyChannel, Registered

(* The control register, of a channel that is started with it. *)
LaunchedAs(new, ch, mode, src, dest, irq, imm) ==
    /\ new.busy = TRUE /\ new.irq_enable = irq /\ new.imm_mode = imm
    /\ new.startup_mode = mode /\ new.src_step = src /\ new.dest_step = dest
    /\ new.transfer_count = ch.transfer_count /\ new.write_count = ch.write_count
    /\ new.source_addr = ch.source_addr /\ new.dest_addr = ch.dest_addr

(* A write of the control register that starts a channel. *)
Starts(ctrl, mode, src, dest, irq, imm) ==
    /\ DOMAIN ctrl = {"src_step", "dest_step", "startup_mode", "busy", "imm_mode", "irq_enable"}
    /\ ctrl.busy = TRUE /\ ctrl.irq_enable = irq /\ ctrl.imm_mode = imm
    /\ ctrl.startup_mode = mode /\ ctrl.src_step = src /\ ctrl.dest_step = dest

LEMMA ControlStarts ==
    ASSUME NEW mode, NEW src, NEW dest, NEW irq
    PROVE  /\ Starts(Control(mode, src, dest, irq), mode, src, dest, irq, FALSE)
           /\ \A imm : Starts([Control(mode, src, dest, irq) EXCEPT !.imm_mode = imm],
                              mode, src, dest, irq, imm)
BY DEF Control, Starts

LEMMA ControlUpdates ==
    ASSUME NEW port, NEW ch \in AnyChannel(port), NEW mode \in Requests \union {"none"},
           NEW src \in Int, NEW dest \in Int, NEW irq \in BOOLEAN, NEW imm \in BOOLEAN,
           NEW ctrl, Starts(ctrl, mode, src, dest, irq, imm)
    PROVE  /\ Updated(ch, ctrl) \in AnyChannel(port)
           /\ LaunchedAs(Updated(ch, ctrl), ch, mode, src, dest, irq, imm)
<1> DEFINE new == Updated(ch, ctrl)
<1>1. new = [f \in DOMAIN ch |-> IF f \in DOMAIN ctrl THEN ctrl[f] ELSE ch[f]]
  BY DEF Updated
<1> HIDE DEF new
<1>2. new = [ch EXCEPT !.src_step = src, !.dest_step = dest, !.startup_mode = mode,
                       !.busy = TRUE, !.imm_mode = imm, !.irq_enable = irq]
  BY <1>1 DEF AnyChannel, Starts
<1>3. new \in AnyChannel(port)
  BY <1>2 DEF AnyChannel
<1>4. LaunchedAs(new, ch, mode, src, dest, irq, imm)
  BY <1>2 DEF AnyChannel, LaunchedAs
<1> QED BY <1>3, <1>4 DEF new

LEMMA LoadedKeeps ==
    ASSUME NEW port, NEW ch \in AnyChannel(port), NEW old, NEW mode, NEW src, NEW dest,
           NEW irq, NEW imm, LaunchedAs(ch, old, mode, src, dest, irq, imm)
    PROVE  /\ Loaded(ch) \in AnyChannel(port)
           /\ Loaded(ch).int_src = ch.source_addr /\ Loaded(ch).int_dest = ch.dest_addr
           /\ LaunchedAs(Loaded(ch), old, mode, src, dest, irq, imm)
BY DEF AnyChannel, Loaded, LaunchedAs

(* A driver's two accesses of a channel. *)
IsSetUp(port, c, name, needed, source, dest, count, size) ==
    /\ Step(name, needed) /\ OnlyDma /\ UNCHANGED <<pending, late, run, IF_>>
    /\ ChansOk(port)' /\ \A d \in 0..LastChan : d # c => chan'[d] = chan[d]
    /\ c \in 0..LastChan => chan'[c] = Registered(chan[c], source, dest, count, size)

LEMMA SetUpIs ==
    ASSUME NEW port, ChansOk(port), NEW c, NEW name, NEW needed, NEW source \in BusOf(port),
           NEW dest \in BusOf(port), NEW count \in Int, NEW size \in Int,
           SetUp(c, name, needed, source, dest, count, size)
    PROVE  IsSetUp(port, c, name, needed, source, dest, count, size)
<1> DEFINE new == Registered(chan[c], source, dest, count, size)
<1>1. /\ Step(name, needed) /\ OnlyDma /\ UNCHANGED <<pending, late, run, IF_>>
      /\ chan' = [chan EXCEPT ![c] = new]
  BY DEF SetUp, WriteRegisters, Registered
<1>2. c \in 0..LastChan => new \in AnyChannel(port)
  BY ChannelIsWritten DEF ChansOk
<1> HIDE DEF new
<1>3. /\ ChansOk(port)' /\ (c \in 0..LastChan => chan'[c] = new)
      /\ \A d \in 0..LastChan : d # c => chan'[d] = chan[d]
  BY <1>1, <1>2, OneChannelChanges
<1> QED BY <1>1, <1>3 DEF new, IsSetUp

(* What such a write does. *)
ControlLaunches(port, c, mode, src, dest, irq, imm) ==
    /\ UNCHANGED <<pending, late, IF_>>
    /\ run' = IF ~chan[c].busy /\ imm THEN Block(c, TRUE) ELSE run
    /\ ChansOk(port)' /\ \A d \in 0..LastChan : d # c => chan'[d] = chan[d]
    /\ c \in 0..LastChan =>
           /\ LaunchedAs(chan'[c], chan[c], mode, src, dest, irq, imm)
           /\ ~chan[c].busy => /\ chan'[c].int_src = chan[c].source_addr
                               /\ chan'[c].int_dest = chan[c].dest_addr

LEMMA WriteControlIs ==
    ASSUME NEW port, ChansOk(port), NEW c, NEW mode \in Requests \union {"none"},
           NEW src \in Int, NEW dest \in Int, NEW irq \in BOOLEAN, NEW imm \in BOOLEAN,
           NEW ctrl, Starts(ctrl, mode, src, dest, irq, imm), WriteControl(c, ctrl)
    PROVE  ControlLaunches(port, c, mode, src, dest, irq, imm)
<1> DEFINE updated == Updated(chan[c], ctrl)
           new == IF ~chan[c].busy THEN Loaded(updated) ELSE updated
<1>1. ctrl.busy = TRUE /\ ctrl.imm_mode = imm
  BY DEF Starts
<1>2. /\ UNCHANGED <<pending, late, IF_>>
      /\ run' = IF ~chan[c].busy /\ imm THEN Block(c, TRUE) ELSE run
      /\ chan' = [chan EXCEPT ![c] = new]
  BY <1>1 DEF WriteControl, Loaded
<1>3. c \in 0..LastChan =>
         /\ updated \in AnyChannel(port)
         /\ LaunchedAs(updated, chan[c], mode, src, dest, irq, imm)
  BY ControlUpdates DEF ChansOk
<1> HIDE DEF updated
<1>4. c \in 0..LastChan =>
         /\ Loaded(updated) \in AnyChannel(port)
         /\ Loaded(updated).int_src = updated.source_addr
         /\ Loaded(updated).int_dest = updated.dest_addr
         /\ LaunchedAs(Loaded(updated), chan[c], mode, src, dest, irq, imm)
  BY <1>3, LoadedKeeps
<1>5. c \in 0..LastChan =>
         /\ new \in AnyChannel(port) /\ LaunchedAs(new, chan[c], mode, src, dest, irq, imm)
         /\ ~chan[c].busy => /\ new.int_src = chan[c].source_addr
                             /\ new.int_dest = chan[c].dest_addr
  BY <1>3, <1>4 DEF LaunchedAs
<1> HIDE DEF new
<1> QED BY <1>2, <1>5, OneChannelChanges DEF ControlLaunches

LEMMA LaunchIs ==
    ASSUME NEW port, ChansOk(port), NEW c, NEW name, NEW needed,
           NEW mode \in Requests \union {"none"}, NEW src \in Int, NEW dest \in Int,
           NEW irq \in BOOLEAN, Launch(c, name, needed, mode, src, dest, irq)
    PROVE  /\ Step(name, needed) /\ OnlyDma /\ UNCHANGED <<pending, late, run, IF_>>
           /\ ChansOk(port)' /\ \A d \in 0..LastChan : d # c => chan'[d] = chan[d]
           /\ c \in 0..LastChan =>
                  /\ LaunchedAs(chan'[c], chan[c], mode, src, dest, irq, FALSE)
                  /\ ~chan[c].busy => /\ chan'[c].int_src = chan[c].source_addr
                                      /\ chan'[c].int_dest = chan[c].dest_addr
<1> DEFINE ctrl == Control(mode, src, dest, irq)
<1>1. Step(name, needed) /\ OnlyDma /\ WriteControl(c, ctrl)
  BY DEF Launch
<1>2. Starts(ctrl, mode, src, dest, irq, FALSE)
  BY ControlStarts
<1> HIDE DEF ctrl
<1>3. ControlLaunches(port, c, mode, src, dest, irq, FALSE)
  BY <1>1, <1>2, WriteControlIs
<1> QED BY <1>1, <1>3 DEF ControlLaunches

-----------------------------------------------------------------------------
(* The steps that are not the driver's. *)

LEMMA BusAccess ==
    ASSUME BusOk, job.j.route # "xdma", NEW addr \in BusOf(Port), job' = job
    PROVE  /\ arm9_read32(addr) => DOMAIN pending' = Requests /\ MediaOk'
           /\ \A word : arm9_write32(addr, word) => DOMAIN pending' = Requests /\ MediaOk'
<1>1. DOMAIN pending = Requests /\ MediaOk /\ addr.port \in {"mem", Port}
  BY DEF BusOk, BusOf
<1>2. \A up, down : DOMAIN Lines(up, down) = Requests
  BY DEF Lines
<1>3. ASSUME NoDevice
      PROVE  DOMAIN pending' = Requests /\ MediaOk'
  BY <1>1, <1>3 DEF NoDevice, devices, MediaOk, mmcVars, cardVars
<1>4. ASSUME NEW a, CryptCheck(a), ByAes
      PROVE  DOMAIN pending' = Requests /\ MediaOk'
  BY <1>1, <1>4 DEF CryptCheck, SendDmaRequests, ByAes, MediaOk, mmcVars, cardVars
<1>5. ASSUME BySha, ReadShaFifo \/ \E word : WriteShaFifo(word)
      PROVE  DOMAIN pending' = Requests /\ MediaOk'
  BY <1>1, <1>5 DEF BySha, ReadShaFifo, WriteShaFifo, Lines, MediaOk, mmcVars, cardVars
<1>6. ASSUME ByMmc, ReadMmcFifo \/ \E word : WriteMmcFifo(word), job.j.route = "mmc"
      PROVE  DOMAIN pending' = Requests /\ MediaOk'
  <2>1. DOMAIN pending' = Requests
    BY <1>1, <1>6 DEF ReadMmcFifo, WriteMmcFifo, Lines
  <2>2. DOMAIN drive' = {"at", "written"}
    BY <1>1, <1>6 DEF ReadMmcFifo, WriteMmcFifo, MediaOk
  <2> QED BY <1>1, <1>6, <2>1, <2>2 DEF ByMmc, MediaOk, cardVars
<1>7. ASSUME ByCard, ReadCardFifo
      PROVE  DOMAIN pending' = Requests /\ MediaOk'
  <2>1. DOMAIN pending' = Requests
    BY <1>1, <1>2, <1>7 DEF ReadCardFifo
  <2>2. DOMAIN card' = DOMAIN card /\ card'.written = card.written
    BY <1>1, <1>7 DEF ReadCardFifo, CtrAfterRead, MediaOk
  <2> QED BY <1>1, <1>7, <2>1, <2>2 DEF ByCard, MediaOk, mmcVars
<1>8. Port = "MMC" => job.j.route = "mmc"
  BY DEF Port, PortOf
<1>9. ASSUME arm9_read32(addr)
      PROVE  DOMAIN pending' = Requests /\ MediaOk'
  BY <1>1, <1>3, <1>4, <1>5, <1>6, <1>7, <1>8, <1>9 DEF arm9_read32, ReadRdFifo
<1>10. ASSUME NEW word, arm9_write32(addr, word)
       PROVE  DOMAIN pending' = Requests /\ MediaOk'
  BY <1>1, <1>3, <1>4, <1>5, <1>6, <1>8, <1>10 DEF arm9_write32, write_input_fifo
<1> QED BY <1>9, <1>10

(* A word is read, or written, by a channel that copies. *)
Copies(phase) ==
    /\ run.phase = phase /\ Copying /\ run.ch \in 0..LastChan /\ chan[run.ch] \in AnyChannel(Port)
    /\ chan' = chan /\ xdma' = xdma /\ job' = job
    /\ run'.ch = run.ch /\ run'.imm = run.imm

Reads ==
    /\ Copies("read") /\ run.i < chan[run.ch].write_count
    /\ run'.phase = "write" /\ run'.i = run.i /\ run'.word = Word(SourceAddr) /\ out' = out
    /\ SourceAddr \in BusOf(Port)
    /\ SourceAddr.port = chan[run.ch].int_src.port
    /\ SourceAddr.at = chan[run.ch].int_src.at + run.i * chan[run.ch].src_step
    /\ arm9_read32(SourceAddr)

Writes ==
    /\ Copies("write")
    /\ run'.phase = "read" /\ run'.i = run.i + 1 /\ run'.word = run.word
    /\ DestAddr \in BusOf(Port)
    /\ DestAddr.port = chan[run.ch].int_dest.port
    /\ DestAddr.at = chan[run.ch].int_dest.at + run.i * chan[run.ch].dest_step
    /\ arm9_write32(DestAddr, run.word)

(* Emulator::run moves on, and begins to copy or does not. *)
BeginsBlock ==
    /\ run'.phase = "read" /\ run'.i = 0 /\ run'.imm = FALSE /\ run'.ch \in 0..LastChan
    /\ run.phase = "scan" /\ run'.ch = run.ch
    /\ chan[run'.ch].busy /\ pending[chan[run'.ch].startup_mode] /\ pending' = pending

GoesOn ==
    /\ UNCHANGED <<devices, chan, xdma, out, job, IF_>> /\ ~Copying
    /\ Copying' => BeginsBlock
    /\ UNCHANGED <<pending, late>> \/ (run.phase = "events" /\ \E due \in SUBSET late :
           /\ pending' = [r \in Requests |-> IF r \in due THEN Wanted(r) ELSE pending[r]]
           /\ late' = late \ due)

EndsBlock ==
    /\ run.phase = "read" /\ Copying /\ run.ch \in 0..LastChan
    /\ chan[run.ch] \in AnyChannel(Port) /\ run.i >= chan[run.ch].write_count
    /\ chan' = [chan EXCEPT ![run.ch] = Advanced(Ended(run.ch), chan[run.ch].write_count)]
    /\ IF_' = IF \/ chan[run.ch].imm_mode
                 \/ ~chan[run.ch].repeating_mode /\ Ended(run.ch).transfer_count = 0
              THEN IF chan[run.ch].irq_enable THEN IF_ \union {run.ch} ELSE IF_
              ELSE IF_
    /\ run' = AfterBlock(run.ch)
    /\ UNCHANGED <<pending, late, devices, xdma, out, job>>

LEMMA CopierOk ==
    ASSUME BusOk, Copying
    PROVE  /\ run.ch \in 0..LastChan /\ chan[run.ch] \in AnyChannel(Port) /\ run.i \in Nat
           /\ SourceAddr \in BusOf(Port) /\ DestAddr \in BusOf(Port)
           /\ SourceAddr.port = chan[run.ch].int_src.port
           /\ SourceAddr.at = chan[run.ch].int_src.at + run.i * chan[run.ch].src_step
           /\ DestAddr.port = chan[run.ch].int_dest.port
           /\ DestAddr.at = chan[run.ch].int_dest.at + run.i * chan[run.ch].dest_step
<1>1. run.ch \in 0..LastChan /\ run.i \in Nat /\ run.i \in Int
  BY Dma9Assumption DEF BusOk, RunOk
<1> DEFINE ch == chan[run.ch]
<1>2. ch \in AnyChannel(Port)
  BY <1>1 DEF BusOk, ChansOk
<1> HIDE DEF ch
<1>3. /\ ch.int_src \in BusOf(Port) /\ ch.src_step \in Int
      /\ ch.int_dest \in BusOf(Port) /\ ch.dest_step \in Int
  BY <1>2 DEF AnyChannel
<1>4. /\ Moved(ch.int_src, run.i, ch.src_step) \in BusOf(Port)
      /\ Moved(ch.int_src, run.i, ch.src_step) =
            [port |-> ch.int_src.port, at |-> ch.int_src.at + run.i * ch.src_step]
      /\ Moved(ch.int_dest, run.i, ch.dest_step) \in BusOf(Port)
      /\ Moved(ch.int_dest, run.i, ch.dest_step) =
            [port |-> ch.int_dest.port, at |-> ch.int_dest.at + run.i * ch.dest_step]
  BY <1>1, <1>3, AddressMoves
<1> QED BY <1>1, <1>2, <1>4 DEF SourceAddr, DestAddr, ch

LEMMA ReadsOk ==
    ASSUME BusOk, DmaRead
    PROVE  Reads /\ RunOk'
<1>1. /\ run.phase = "read" /\ Copying /\ run.i < chan[run.ch].write_count
      /\ run' = [run EXCEPT !.phase = "write", !.word = Word(SourceAddr)]
      /\ chan' = chan /\ arm9_read32(SourceAddr) /\ UNCHANGED <<xdma, job, out>>
  BY DEF DmaRead, HasMoreWords, WordIsRead, Copying
<1>2. RunOk
  BY DEF BusOk
<1>3. /\ RunOk' /\ run'.ch = run.ch /\ run'.i = run.i /\ run'.word = Word(SourceAddr)
      /\ run'.imm = run.imm /\ run'.phase = "write"
  BY <1>1, <1>2 DEF RunOk, Copying
<1> QED BY <1>1, <1>3, CopierOk DEF Reads, Copies

LEMMA WritesOk ==
    ASSUME BusOk, DmaWrite
    PROVE  Writes /\ RunOk'
<1>1. /\ run.phase = "write" /\ Copying
      /\ run' = [run EXCEPT !.phase = "read", !.i = run.i + 1]
      /\ chan' = chan /\ arm9_write32(DestAddr, run.word) /\ UNCHANGED <<xdma, job>>
  BY DEF DmaWrite, WordIsWritten, Copying
<1>2. RunOk
  BY DEF BusOk
<1>3. /\ RunOk' /\ run'.ch = run.ch /\ run'.i = run.i + 1 /\ run'.word = run.word
      /\ run'.imm = run.imm /\ run'.phase = "read"
  BY <1>1, <1>2 DEF RunOk, Copying
<1> QED BY <1>1, <1>3, CopierOk DEF Writes, Copies

LEMMA RunGoesOk ==
    ASSUME NEW phase \in {"cpu", "scan", "read", "xdma", "events"}, NEW c \in Nat,
           IsAt(run', phase, c), phase = "read" => c <= LastChan
    PROVE  /\ RunOk' /\ run'.i = 0 /\ run'.ch = c /\ run'.phase = phase /\ run'.imm = FALSE
           /\ Copying' <=> phase = "read"
<1>1. /\ DOMAIN run' = {"phase", "ch", "i", "word", "imm"}
      /\ run'.phase = phase /\ run'.ch = c /\ run'.i = 0 /\ run'.imm = FALSE
  BY DEF IsAt
<1>2. run'.imm \in BOOLEAN
  BY <1>1
<1>3. (Copying' <=> phase = "read") /\ (Copying' => run'.ch <= LastChan)
  BY <1>1 DEF Copying
<1> QED BY <1>1, <1>2, <1>3 DEF RunOk

LEMMA GoesOnOk ==
    ASSUME BusOk, job.j.route # "xdma",
           ((Visit \/ EndScan) /\ UNCHANGED <<devices, xdma, out, job>>)
               \/ XdmaLoad \/ XdmaStore \/ Xdma \/ Defer \/ Deliver \/ EndSlice
    PROVE  GoesOn /\ RunOk'
<1>0. RunOk /\ XdmaStops
  BY DEF BusOk
<1>1. run.phase = "xdma" /\ run.ch <= LastXChan => XChan.state = "STOP"
  BY <1>0, CorelinkAssumption DEF XdmaStops, RunOk, XChan
<1>2. ~XdmaLoad /\ ~XdmaStore /\ ~Wakes /\ ~EndLoad /\ ~EndStore /\ ~XInstruction
  BY <1>1 DEF XdmaLoad, XdmaStore, Moves_, Executes, Wakes, EndLoad, EndStore, AllMoved,
              XInstruction
<1>3. CASE Visit /\ UNCHANGED <<devices, xdma, out, job>>
  <2> DEFINE c == run.ch
             taken == chan[c].busy /\ pending[chan[c].startup_mode]
  <2>1. /\ c \in 0..LastChan /\ c \in Nat /\ c <= LastChan /\ ~Copying /\ run.phase = "scan"
        /\ run' = IF taken THEN Block(c, FALSE) ELSE Scan(c + 1)
        /\ UNCHANGED <<pending, chan, late, IF_>>
    BY <1>0, <1>3, Dma9Assumption DEF Visit, RunOk, Copying
  <2>2. CASE taken
    <3>1. IsAt(run', "read", c)
      BY <2>1, <2>2, PlacesOfRun
    <3>2. /\ RunOk' /\ run'.i = 0 /\ run'.ch = c /\ run'.phase = "read" /\ run'.imm = FALSE
      BY <2>1, <3>1, RunGoesOk
    <3>3. BeginsBlock
      BY <2>1, <2>2, <3>2 DEF BeginsBlock
    <3> QED BY <1>3, <2>1, <3>2, <3>3 DEF GoesOn
  <2>3. CASE ~taken
    <3>0. c + 1 \in Nat
      BY <2>1
    <3>1. run' = Scan(c + 1)
      BY <2>1, <2>3
    <3>2. IsAt(run', "scan", c + 1)
      BY <3>1, PlacesOfRun
    <3>3. RunOk' /\ ~Copying'
      BY <3>0, <3>2, RunGoesOk
    <3> QED BY <1>3, <2>1, <3>3 DEF GoesOn
  <2> QED BY <2>2, <2>3
<1>4. CASE EndScan /\ UNCHANGED <<devices, xdma, out, job>>
  <2>1. IsAt(run', "xdma", 0) /\ UNCHANGED <<pending, chan, late, IF_>> /\ ~Copying
    BY <1>4, PlacesOfRun DEF EndScan, Copying
  <2>2. RunOk' /\ ~Copying'
    BY <2>1, RunGoesOk
  <2> QED BY <1>4, <2>1, <2>2 DEF GoesOn
<1>5. CASE NextXChan /\ UNCHANGED <<devices, out, job>>
  <2>1. /\ run.phase = "xdma" /\ run' = [run EXCEPT !.ch = @ + 1] /\ ~Copying
        /\ UNCHANGED <<pending, late, IF_, chan, xdma, job, devices>>
    BY <1>5 DEF NextXChan, Copying
  <2>2. RunOk' /\ ~Copying' /\ run'.phase = "xdma"
    BY <1>0, <2>1 DEF RunOk, Copying
  <2> QED BY <1>5, <2>1, <2>2 DEF GoesOn
<1>6. CASE EndXdma /\ UNCHANGED <<devices, out, job>>
  <2>1. /\ run.phase = "xdma" /\ run' = [Cpu_ EXCEPT !.phase = "events"] /\ ~Copying
        /\ UNCHANGED <<pending, late, IF_, chan, xdma, job, devices>>
    BY <1>6 DEF EndXdma, Copying
  <2>2. IsAt(run', "events", 0)
    BY <2>1, PlacesOfRun
  <2>3. RunOk' /\ ~Copying'
    BY <2>2, RunGoesOk
  <2> QED BY <1>6, <2>1, <2>3 DEF GoesOn
<1>7. CASE Defer \/ Deliver
  <2>1. PICK due \in SUBSET late : Events(due)
    BY <1>7 DEF Defer, Deliver
  <2>2. /\ run.phase = "events" /\ run' = Cpu_ /\ ~Copying
        /\ UNCHANGED <<IF_, chan, xdma, job, devices, out>>
        /\ pending' = [r \in Requests |-> IF r \in due THEN Wanted(r) ELSE pending[r]]
        /\ late' = late \ due
    BY <2>1 DEF Events, TryNdmaTransferEvents, Copying
  <2>3. IsAt(run', "cpu", 0)
    BY <2>2, PlacesOfRun
  <2>4. RunOk' /\ ~Copying'
    BY <2>3, RunGoesOk
  <2> QED BY <2>1, <2>2, <2>4 DEF GoesOn
<1>8. CASE EndSlice
  <2>1. /\ run.phase = "cpu" /\ run' = Scan(0) /\ ~Copying
        /\ UNCHANGED <<pending, late, IF_, chan, xdma, job, devices, out>>
    BY <1>8 DEF EndSlice, EndCpuSlice, Copying
  <2>2. IsAt(run', "scan", 0)
    BY <2>1, PlacesOfRun
  <2>3. RunOk' /\ ~Copying'
    BY <2>2, RunGoesOk
  <2> QED BY <2>1, <2>3 DEF GoesOn
<1> QED BY <1>2, <1>3, <1>4, <1>5, <1>6, <1>7, <1>8 DEF Xdma

(* What a channel is after a block. *)
EndedAs(new, ch) ==
    LET left == (ch.transfer_count - ch.write_count) % CountLimit IN
    /\ new.transfer_count = IF ch.imm_mode THEN ch.transfer_count ELSE left
    /\ ch.imm_mode => ~new.busy
    /\ ~ch.imm_mode => new.busy = IF left = 0 THEN FALSE ELSE ch.busy
    /\ new.int_src = Moved(ch.int_src, ch.write_count, ch.src_step)
    /\ new.int_dest = Moved(ch.int_dest, ch.write_count, ch.dest_step)
    /\ new.write_count = ch.write_count /\ new.startup_mode = ch.startup_mode
    /\ new.src_step = ch.src_step /\ new.dest_step = ch.dest_step
    /\ new.irq_enable = ch.irq_enable /\ new.imm_mode = ch.imm_mode

LEMMA EndedOk ==
    ASSUME NEW port, NEW c, chan[c] \in AnyChannel(port)
    PROVE  /\ Advanced(Ended(c), chan[c].write_count) \in AnyChannel(port)
           /\ EndedAs(Advanced(Ended(c), chan[c].write_count), chan[c])
           /\ ~chan[c].imm_mode => Ended(c).transfer_count =
                  (chan[c].transfer_count - chan[c].write_count) % CountLimit
<1> DEFINE ch == chan[c]
           left == (ch.transfer_count - ch.write_count) % CountLimit
           ended == Ended(c)
           words == ch.write_count
           new == Advanced(ended, words)
<1>1. ch \in AnyChannel(port)
  OBVIOUS
<1>2. left \in Int
  <2>1. ch.transfer_count \in Int /\ ch.write_count \in Int
    BY <1>1 DEF AnyChannel
  <2>2. \A a \in Int, b \in Int : (a - b) % CountLimit \in Int
    BY Dma9Assumption
  <2> HIDE DEF ch
  <2> QED BY <2>1, <2>2
<1>3. ended = IF ch.imm_mode THEN [ch EXCEPT !.busy = FALSE]
              ELSE [ch EXCEPT !.transfer_count = left, !.busy = IF left = 0 THEN FALSE ELSE @]
  <2>1. ch.repeating_mode = FALSE
    BY <1>1 DEF AnyChannel
  <2> QED BY <2>1 DEF Ended
<1> HIDE DEF ended, left, ch
<1>4. /\ ended \in AnyChannel(port)
      /\ ended.transfer_count = IF ch.imm_mode THEN ch.transfer_count ELSE left
      /\ ch.imm_mode => ~ended.busy
      /\ ~ch.imm_mode => ended.busy = IF left = 0 THEN FALSE ELSE ch.busy
      /\ ended.int_src = ch.int_src /\ ended.int_dest = ch.int_dest
      /\ ended.write_count = ch.write_count /\ ended.startup_mode = ch.startup_mode
      /\ ended.src_step = ch.src_step /\ ended.dest_step = ch.dest_step
      /\ ended.irq_enable = ch.irq_enable /\ ended.imm_mode = ch.imm_mode
  <2>1. CASE ch.imm_mode
    BY <1>1, <1>3, <2>1 DEF AnyChannel
  <2>2. CASE ~ch.imm_mode
    BY <1>1, <1>2, <1>3, <2>2 DEF AnyChannel
  <2> QED BY <2>1, <2>2
<1>5. words \in Int /\ ended.int_src \in BusOf(port) /\ ended.int_dest \in BusOf(port)
      /\ ended.src_step \in Int /\ ended.dest_step \in Int
      /\ ended.src_reload = FALSE /\ ended.dest_reload = FALSE
  BY <1>1, <1>4 DEF AnyChannel
<1> DEFINE source == Moved(ended.int_src, words, ended.src_step)
           dest == Moved(ended.int_dest, words, ended.dest_step)
<1>6. source \in BusOf(port) /\ dest \in BusOf(port)
  BY <1>5, AddressMoves
<1>7. source = Moved(ch.int_src, ch.write_count, ch.src_step)
      /\ dest = Moved(ch.int_dest, ch.write_count, ch.dest_step)
  BY <1>4
<1>8. new = [ended EXCEPT !.int_src = source, !.int_dest = dest]
  BY <1>5 DEF Advanced
<1> HIDE DEF source, dest, new
<1>9. new \in AnyChannel(port)
  BY <1>4, <1>6, <1>8 DEF AnyChannel
<1>10. /\ new.transfer_count = ended.transfer_count /\ new.busy = ended.busy
       /\ new.int_src = source /\ new.int_dest = dest
       /\ new.write_count = ended.write_count /\ new.startup_mode = ended.startup_mode
       /\ new.src_step = ended.src_step /\ new.dest_step = ended.dest_step
       /\ new.irq_enable = ended.irq_enable /\ new.imm_mode = ended.imm_mode
  BY <1>4, <1>8 DEF AnyChannel
<1>11. EndedAs(new, ch)
  BY <1>4, <1>7, <1>10 DEF EndedAs, left
<1> QED BY <1>4, <1>9, <1>11 DEF new, words, ended, left, ch

(* What follows a block. *)
Follows ==
    Copying' => /\ ~run.imm /\ run'.phase = "read" /\ run'.i = 0 /\ run'.imm = FALSE
                /\ run'.ch = run.ch + 1 /\ run'.ch \in 0..LastChan
                /\ chan[run'.ch].startup_mode = "AES2"

LEMMA FollowsOk ==
    ASSUME RunOk, Copying, run' = AfterBlock(run.ch)
    PROVE  RunOk' /\ Follows
<1>1. run.ch \in Nat /\ run.ch <= LastChan
  BY DEF RunOk
<1> DEFINE c == run.ch + 1
<1>2. c \in Nat
  BY <1>1
<1>3. CASE run.imm
  <2>1. run' = Cpu_
    BY <1>3 DEF AfterBlock
  <2>2. IsAt(run', "cpu", 0)
    BY <2>1, PlacesOfRun
  <2>3. RunOk' /\ ~Copying'
    BY <2>2, RunGoesOk
  <2> QED BY <2>3 DEF Follows
<1>4. CASE ~run.imm /\ run.ch < LastChan /\ chan[c].startup_mode = "AES2"
  <2>1. run' = Block(c, FALSE)
    BY <1>4 DEF AfterBlock
  <2>2. c <= LastChan /\ c \in 0..LastChan
    BY <1>1, <1>4, Dma9Assumption
  <2> HIDE DEF c
  <2>3. IsAt(run', "read", c)
    BY <2>1, PlacesOfRun
  <2>4. RunOk' /\ run'.i = 0 /\ run'.ch = c /\ run'.phase = "read" /\ run'.imm = FALSE
    BY <1>2, <2>2, <2>3, RunGoesOk
  <2> QED BY <1>4, <2>2, <2>4 DEF Follows, c
<1>5. CASE ~run.imm /\ ~(run.ch < LastChan /\ chan[c].startup_mode = "AES2")
  <2>1. run' = Scan(c)
    BY <1>5 DEF AfterBlock
  <2> HIDE DEF c
  <2>2. IsAt(run', "scan", c)
    BY <2>1, PlacesOfRun
  <2>3. RunOk' /\ ~Copying'
    BY <1>2, <2>2, RunGoesOk
  <2> QED BY <2>3 DEF Follows
<1> QED BY <1>3, <1>4, <1>5

LEMMA EndBlockOk ==
    ASSUME BusOk, EndBlock, UNCHANGED <<devices, xdma, out, job>>
    PROVE  /\ EndsBlock /\ RunOk' /\ Follows /\ ChansOk(Port)'
           /\ EndedAs(chan'[run.ch], chan[run.ch])
           /\ \A d \in 0..LastChan : d # run.ch => chan'[d] = chan[d]
<1> DEFINE c == run.ch
           new == Advanced(Ended(c), chan[c].write_count)
<1>1. Copying /\ run' = AfterBlock(c) /\ chan' = [chan EXCEPT ![c] = new]
  BY DEF EndBlock, Copying
<1>2. c \in 0..LastChan /\ chan[c] \in AnyChannel(Port)
  BY <1>1, CopierOk
<1>3. EndsBlock
  BY <1>1, <1>2 DEF EndBlock, EndsBlock
<1>4. RunOk' /\ Follows
  BY <1>1, FollowsOk DEF BusOk
<1>5. new \in AnyChannel(Port) /\ EndedAs(new, chan[c])
  BY <1>2, EndedOk
<1> HIDE DEF new
<1>6. ChansOk(Port) /\ Port' = Port
  BY DEF BusOk, Port
<1>7. PICK port : port = Port
  OBVIOUS
<1>8. ChansOk(port) /\ new \in AnyChannel(port)
  BY <1>5, <1>6, <1>7
<1>9. /\ ChansOk(port)' /\ (c \in 0..LastChan => chan'[c] = new)
      /\ \A d \in 0..LastChan : d # c => chan'[d] = chan[d]
  BY <1>1, <1>8, OneChannelChanges
<1>10. ChansOk(Port)'
  BY <1>6, <1>7, <1>9
<1> QED BY <1>2, <1>3, <1>4, <1>5, <1>9, <1>10

(* No step but the driver's disturbs the invariant. *)
LEMMA BusDma ==
    ASSUME BusOk, job.j.route # "xdma", Dma \/ Defer \/ Deliver \/ EndSlice
    PROVE  BusOk' /\ job' = job
<1>1. \A a, b : a = b => a = b
  OBVIOUS
<1>2. CASE DmaRead
  <2>1. Reads /\ RunOk'
    BY <1>2, ReadsOk
  <2>2. job' = job /\ chan' = chan /\ xdma' = xdma /\ DOMAIN pending' = Requests /\ MediaOk'
    BY <2>1, BusAccess DEF Reads, Copies
  <2> QED BY <2>1, <2>2 DEF BusOk, JobOk, ChansOk, XdmaStops, Port
<1>3. CASE DmaWrite
  <2>1. Writes /\ RunOk'
    BY <1>3, WritesOk
  <2>2. job' = job /\ chan' = chan /\ xdma' = xdma /\ DOMAIN pending' = Requests /\ MediaOk'
    BY <2>1, BusAccess DEF Writes, Copies
  <2> QED BY <2>1, <2>2 DEF BusOk, JobOk, ChansOk, XdmaStops, Port
<1>4. CASE EndBlock /\ UNCHANGED <<devices, xdma, out, job>>
  <2>1. EndsBlock /\ RunOk' /\ ChansOk(Port)'
    BY <1>4, EndBlockOk
  <2>2. UNCHANGED <<pending, devices, xdma, job, drive, card>>
    BY <2>1 DEF EndsBlock, devices, mmcVars, cardVars
  <2> QED BY <2>1, <2>2 DEF BusOk, JobOk, XdmaStops, MediaOk
<1>5. CASE ((Visit \/ EndScan) /\ UNCHANGED <<devices, xdma, out, job>>)
               \/ XdmaLoad \/ XdmaStore \/ Xdma \/ Defer \/ Deliver \/ EndSlice
  <2>1. GoesOn /\ RunOk'
    BY <1>5, GoesOnOk
  <2>2. UNCHANGED <<chan, xdma, job, drive, card>>
    BY <2>1 DEF GoesOn, devices, mmcVars, cardVars
  <2>3. DOMAIN pending' = Requests
    BY <2>1 DEF GoesOn, BusOk
  <2> QED BY <2>1, <2>2, <2>3 DEF BusOk, JobOk, ChansOk, XdmaStops, MediaOk, Port
<1> QED BY <1>2, <1>3, <1>4, <1>5 DEF Dma, Ndma

-----------------------------------------------------------------------------
(* The driver's steps. *)

LEMMA StepOk ==
    ASSUME JobOk, NEW name, NEW needed, Step(name, needed)
    PROVE  /\ name \in job.todo /\ needed \intersect job.todo = {}
           /\ job'.todo = job.todo \ {name} /\ job'.j = job.j /\ job'.from = job.from
           /\ job'.fed = job.fed /\ job'.left = job.left /\ JobOk'
BY DEF Step, JobOk

LEMMA FedOk ==
    ASSUME JobOk, Fed(1) \/ job' = [job EXCEPT !.fed = @ + 1]
    PROVE  /\ job'.todo = job.todo /\ job'.j = job.j /\ job'.from = job.from
           /\ job'.fed = job.fed + 1 /\ job'.left = job.left /\ JobOk'
<1>1. DOMAIN job = {"j", "todo", "left", "fed", "from"} /\ job.fed + 1 \in Nat
  BY DEF JobOk
<1>2. job' = [job EXCEPT !.fed = job.fed + 1]
  BY DEF Fed
<1> QED BY <1>1, <1>2 DEF JobOk

(* A step that leaves the DMAs as they are, and the media.                  *)
LEMMA KeepsBus ==
    ASSUME BusOk, JobOk', job'.j = job.j, UNCHANGED <<chan, run, xdma>>,
           DOMAIN pending' = Requests, MediaOk'
    PROVE  BusOk'
BY DEF BusOk, ChansOk, RunOk, Copying, XdmaStops, Port

(* One that only the driver and one channel see.                            *)
LEMMA ChannelStepOk ==
    ASSUME BusOk, JobOk', job'.j = job.j, OnlyDma, ChansOk(Port)', RunOk', pending' = pending
    PROVE  BusOk'
BY DEF BusOk, XdmaStops, OnlyDma, devices, mmcVars, cardVars, MediaOk

LEMMA SetUpOk ==
    ASSUME BusOk, NEW c, NEW name, NEW needed, NEW source \in BusOf(Port),
           NEW dest \in BusOf(Port), NEW count \in Int, NEW size \in Int,
           SetUp(c, name, needed, source, dest, count, size)
    PROVE  /\ Step(name, needed) /\ OnlyDma /\ UNCHANGED <<pending, late, run, IF_>>
           /\ BusOk' /\ \A d \in 0..LastChan : d # c => chan'[d] = chan[d]
           /\ c \in 0..LastChan =>
                  chan'[c] = Registered(chan[c], source, dest, count, size)
<1>1. PICK port : port = Port
  OBVIOUS
<1>2. ChansOk(port) /\ source \in BusOf(port) /\ dest \in BusOf(port)
  BY <1>1 DEF BusOk
<1>3. IsSetUp(port, c, name, needed, source, dest, count, size)
  BY <1>2, SetUpIs
<1>4. JobOk' /\ job'.j = job.j
  BY <1>3, StepOk DEF BusOk, IsSetUp
<1>5. ChansOk(Port)'
  BY <1>1, <1>3, <1>4 DEF Port, IsSetUp
<1>6. RunOk'
  BY <1>3 DEF BusOk, RunOk, Copying, IsSetUp
<1> QED BY <1>3, <1>4, <1>5, <1>6, ChannelStepOk DEF IsSetUp

LEMMA LaunchOk ==
    ASSUME BusOk, NEW c, NEW name, NEW needed,
           NEW mode \in Requests \union {"none"}, NEW src \in Int, NEW dest \in Int,
           NEW irq \in BOOLEAN, Launch(c, name, needed, mode, src, dest, irq)
    PROVE  /\ Step(name, needed) /\ OnlyDma /\ UNCHANGED <<pending, late, run, IF_>>
           /\ BusOk' /\ \A d \in 0..LastChan : d # c => chan'[d] = chan[d]
           /\ c \in 0..LastChan =>
                  /\ LaunchedAs(chan'[c], chan[c], mode, src, dest, irq, FALSE)
                  /\ ~chan[c].busy => /\ chan'[c].int_src = chan[c].source_addr
                                      /\ chan'[c].int_dest = chan[c].dest_addr
<1>1. PICK port : port = Port
  OBVIOUS
<1>2. ChansOk(port)
  BY <1>1 DEF BusOk
<1>3. /\ Step(name, needed) /\ OnlyDma /\ UNCHANGED <<pending, late, run, IF_>>
      /\ ChansOk(port)' /\ \A d \in 0..LastChan : d # c => chan'[d] = chan[d]
      /\ c \in 0..LastChan =>
             /\ LaunchedAs(chan'[c], chan[c], mode, src, dest, irq, FALSE)
             /\ ~chan[c].busy => /\ chan'[c].int_src = chan[c].source_addr
                                 /\ chan'[c].int_dest = chan[c].dest_addr
  BY <1>2, LaunchIs
<1>4. JobOk' /\ job'.j = job.j
  BY <1>3, StepOk DEF BusOk
<1>5. ChansOk(Port)'
  BY <1>1, <1>3, <1>4 DEF Port
<1>6. RunOk'
  BY <1>3 DEF BusOk, RunOk, Copying
<1> QED BY <1>3, <1>4, <1>5, <1>6, ChannelStepOk

LEMMA AnyAddress ==
    ASSUME NEW at \in Int
    PROVE  Mem(at) \in BusOf(Port) /\ Fifo(Port) \in BusOf(Port)
BY AddressIs

LEMMA LinesOk == \A up, down : DOMAIN Lines(up, down) = Requests
BY DEF Lines

LEMMA AesJobOk ==
    ASSUME BusOk, AesJob
    PROVE  BusOk'
<1> DEFINE n == 4 * job.j.n
           cnt == [mode |-> job.j.mode, in_word_order |-> job.j.inorder,
                   out_word_order |-> job.j.outorder, irq_enable |-> TRUE, busy |-> TRUE]
<1>1. job.j.route = "aes" /\ Port = "AES" /\ job.j \in Jobs /\ job.from \in Int /\ JobOk
  BY DEF AesJob, On, Port, PortOf, BusOk, JobOk
<1>2. n \in Int /\ job.j.size \in Int /\ 4 \in Int /\ 1 \in Int /\ 0 \in Int
  BY <1>1, JobsAssumption
<1>3. Mem(job.from) \in BusOf(Port) /\ Fifo("AES") \in BusOf(Port)
  BY <1>1, AnyAddress
<1>4. ASSUME NEW name, NEW needed, Step(name, needed), Registers_, ByAes, DOMAIN pending' = Requests
      PROVE  BusOk'
  <2>1. JobOk' /\ job'.j = job.j
    BY <1>1, <1>4, StepOk
  <2>2. MediaOk'
    BY <1>4, <2>1 DEF BusOk, MediaOk, ByAes, mmcVars, cardVars
  <2> QED BY <1>4, <2>1, <2>2, KeepsBus DEF Registers_
<1>5. \A m : write_block_count(m) \/ write_ctr(m) => DOMAIN pending' = Requests
  BY DEF BusOk, write_block_count, write_ctr
<1>6. WriteCnt(cnt, TRUE) => DOMAIN pending' = Requests
  BY DEF BusOk, WriteCnt
<1>7. "AES_WRITEFREE" \in Requests \union {"none"} /\ "AES_READFREE" \in Requests \union {"none"}
      /\ FALSE \in BOOLEAN /\ TRUE \in BOOLEAN
  BY DEF Requests
<1>8. SetUp(0, "in", {}, Mem(job.from), Fifo("AES"), n, job.j.size) => BusOk'
  BY <1>2, <1>3, SetUpOk
<1>9. SetUp(1, "out", {}, Fifo("AES"), Mem(job.from), n, 4) => BusOk'
  BY <1>2, <1>3, SetUpOk
<1>10. Launch(0, "in!", {"in"}, "AES_WRITEFREE", 1, 0, FALSE) => BusOk'
  BY <1>2, <1>7, LaunchOk
<1>11. Launch(1, "out!", {"out"}, "AES_READFREE", 0, 1, TRUE) => BusOk'
  BY <1>2, <1>7, LaunchOk
<1> HIDE DEF n, cnt
<1> QED BY <1>4, <1>5, <1>6, <1>8, <1>9, <1>10, <1>11 DEF AesJob, n, cnt

LEMMA ShaJobOk ==
    ASSUME BusOk, ShaJob
    PROVE  BusOk'
<1> DEFINE n == 16 * (job.j.n \div 16)
           cnt == [in_word_order |-> aes.in_word_order]
<1>1. job.j.route = "sha" /\ Port = "SHA" /\ job.j \in Jobs /\ job.from \in Int /\ JobOk
  BY DEF ShaJob, On, Port, PortOf, BusOk, JobOk
<1>2. /\ n \in Int /\ 16 \in Int /\ 1 \in Int /\ 0 \in Int /\ TRUE \in BOOLEAN
      /\ job.j.echo \in Requests \union {"none"} /\ "SHA_IN" \in Requests \union {"none"}
  <2>1. job.j.n \in Nat /\ job.j.echo \in Requests \union {"none"}
    BY <1>1, ShaJobsAssumption
  <2>2. \A k \in Nat : 16 * (k \div 16) \in Int
    BY DivMod
  <2> QED BY <2>1, <2>2 DEF Requests
<1>3. Mem(job.from) \in BusOf(Port) /\ Fifo("SHA") \in BusOf(Port)
  BY <1>1, AnyAddress
<1>4. ASSUME BySha \/ ByAes, Registers_, JobOk', job'.j = job.j, DOMAIN pending' = Requests
      PROVE  BusOk'
  <2>1. MediaOk'
    BY <1>4 DEF BusOk, MediaOk, BySha, ByAes, mmcVars, cardVars
  <2> QED BY <1>4, <2>1, KeepsBus DEF Registers_
<1>5. \A word : WriteShaFifo(word) => DOMAIN pending' = Requests
  BY DEF WriteShaFifo, Lines
<1>6. \A w, start, final : WriteShaCnt(w, start, final) => DOMAIN pending' = Requests
  BY DEF WriteShaCnt, Lines
<1>7. WriteCnt(cnt, FALSE) => DOMAIN pending' = Requests
  BY DEF BusOk, WriteCnt
<1>8. \A name, needed : Step(name, needed) => JobOk' /\ job'.j = job.j
  BY <1>1, StepOk
<1>9. Fed(1) => JobOk' /\ job'.j = job.j
  BY <1>1, FedOk
<1>10. SetUp(0, "in", {}, Mem(job.from), Fifo("SHA"), n, 16) => BusOk'
  BY <1>2, <1>3, SetUpOk
<1>11. SetUp(1, "out", {}, Fifo("SHA"), Mem(job.from), n, 16) => BusOk'
  BY <1>2, <1>3, SetUpOk
<1>12. Launch(0, "in!", {"in", "cnt", "out!"}, "SHA_IN", 1, 0, TRUE) => BusOk'
  BY <1>2, LaunchOk
<1>13. Launch(1, "out!", {"out", "clear"}, job.j.echo, 0, 1, TRUE) => BusOk'
  BY <1>2, LaunchOk
<1>14. ShaChannels(job.j) => BusOk'
  BY <1>10, <1>11, <1>12, <1>13 DEF ShaChannels
<1> HIDE DEF cnt, n
<1> QED BY <1>4, <1>5, <1>6, <1>7, <1>8, <1>9, <1>14 DEF ShaJob, cnt

LEMMA MmcJobOk ==
    ASSUME BusOk, MmcJob \/ MmcStopChannel \/ MmcStop
    PROVE  BusOk'
<1> DEFINE j == job.j
           first == job.from + MmcByCpu(j)
           n == MmcWords(j) - MmcByCpu(j)
<1>0. job.j.route = "mmc"
  BY DEF MmcJob, MmcStopChannel, MmcStop, On
<1>1. job.j.route = "mmc" /\ Port = "MMC" /\ job.j \in Jobs /\ job.from \in Int /\ JobOk
  BY <1>0 DEF Port, PortOf, BusOk, JobOk
<1>2. /\ job.j.n \in Nat /\ job.j.len \in Nat /\ job.j.write \in BOOLEAN
      /\ "chan!" \in job.j.todo => job.j.by \in Requests \union {"none"}
  <2>1. /\ job.j.n \in Nat \ {0} /\ job.j.len \in Nat \ {0} /\ job.j.write \in BOOLEAN
        /\ j.by \in {"cpu", "AES2", "MMC1"} /\ ("chan!" \in j.todo => j.by # "cpu")
    BY <1>1, JobsAssumption
  <2> QED BY <2>1 DEF Requests
<1>3. MmcByCpu(j) \in Int /\ MmcWords(j) \in Int /\ first \in Int /\ n \in Int
  <2>1. MmcWords(j) \in Int
    BY <1>2 DEF MmcWords
  <2>2. MmcByCpu(j) \in Int
    BY <1>2, <2>1 DEF MmcByCpu
  <2> QED BY <1>1, <2>1, <2>2
<1>4. Mem(first) \in BusOf(Port) /\ Fifo("MMC") \in BusOf(Port)
  BY <1>1, <1>3, AnyAddress
<1>5. ASSUME ByMmc, UNCHANGED <<chan, run, xdma>>, JobOk', job'.j = job.j,
             DOMAIN pending' = Requests, DOMAIN drive' = {"at", "written"}
      PROVE  BusOk'
  <2>1. MediaOk'
    BY <1>1, <1>5 DEF BusOk, MediaOk, ByMmc, cardVars
  <2> QED BY <1>5, <2>1, KeepsBus
<1>6. \A name, needed : Step(name, needed) => JobOk' /\ job'.j = job.j
  BY <1>1, StepOk
<1>7. Fed(1) => JobOk' /\ job'.j = job.j
  BY <1>1, FedOk
<1>8. DOMAIN pending = Requests /\ DOMAIN drive = {"at", "written"}
  BY DEF BusOk, MediaOk
<1>9. CASE MmcStop
  <2>1. DOMAIN pending' = Requests /\ drive' = drive
    BY <1>9 DEF MmcStop, StopTransmission, Lines
  <2> QED BY <1>5, <1>6, <1>8, <1>9, <2>1 DEF MmcStop, Registers_
<1>10. CASE MmcStopChannel
  <2> DEFINE ctrl == [chan[0] EXCEPT !.busy = FALSE]
             new == Updated(chan[0], ctrl)
  <2>1. /\ job' = [job EXCEPT !.todo = {"stop"}] /\ OnlyDma
        /\ WriteControl(0, ctrl)
    BY <1>10 DEF MmcStopChannel
  <2>2. 0 \in 0..LastChan /\ chan[0] \in AnyChannel(Port)
    BY Dma9Assumption DEF BusOk, ChansOk
  <2>3. ctrl \in AnyChannel(Port) /\ ctrl.busy = FALSE
    BY <2>2 DEF AnyChannel
  <2>4. new = ctrl
    BY <2>2, <2>3 DEF Updated, AnyChannel
  <2> HIDE DEF ctrl, new
  <2>5. chan' = [chan EXCEPT ![0] = ctrl] /\ UNCHANGED <<run, pending, late, IF_>>
    BY <2>1, <2>3, <2>4 DEF WriteControl, new
  <2>6. JobOk' /\ job'.j = job.j
    BY <1>1, <2>1 DEF JobOk
  <2>7. ChansOk(Port)'
    BY <2>2, <2>3, <2>5, <2>6 DEF BusOk, ChansOk, Port
  <2>8. RunOk'
    BY <2>5 DEF BusOk, RunOk, Copying
  <2> QED BY <2>1, <2>5, <2>6, <2>7, <2>8, ChannelStepOk
<1>11. MmcSetUp(j) => BusOk'
  <2>1. SetUp(0, "chan", {}, IF j.write THEN Mem(first) ELSE Fifo("MMC"),
                IF j.write THEN Fifo("MMC") ELSE Mem(first), n, j.len) => BusOk'
    BY <1>2, <1>3, <1>4, SetUpOk
  <2>2. ASSUME NEW src \in Int, NEW dest \in Int, Launch(0, "chan!", {"chan"}, j.by, src, dest, TRUE)
        PROVE  BusOk'
    <3>1. "chan!" \in job.j.todo
      BY <2>2 DEF Launch, Step, BusOk, JobOk
    <3> QED BY <1>2, <2>2, <3>1, LaunchOk
  <2>3. (IF j.write THEN 1 ELSE 0) \in Int /\ (IF j.write THEN 0 ELSE 1) \in Int
    OBVIOUS
  <2> HIDE DEF n, first
  <2> QED BY <2>1, <2>2, <2>3 DEF MmcSetUp, n, first
<1>12. CASE MmcWord(j)
  <2>1. DOMAIN pending' = Requests /\ DOMAIN drive' = {"at", "written"}
    <3>1. ReadMmcFifo \/ \E word : WriteMmcFifo(word)
      BY <1>12 DEF MmcWord
    <3> QED BY <1>8, <3>1 DEF ReadMmcFifo, WriteMmcFifo, Lines
  <2> QED BY <1>5, <1>7, <1>12, <2>1 DEF MmcWord
<1>13. ASSUME ByMmc, Registers_, NEW name, NEW needed, Step(name, needed),
              \/ \E a, b : WriteMmcRegisters(a, b)
              \/ \E a, b, c : WriteImask(a, b, c)
              \/ \E a : WriteIstat(a) \/ WriteMultiple(a) \/ ReadMultiple(a)
       PROVE  BusOk'
  <2>1. DOMAIN pending' = Requests /\ DOMAIN drive' = {"at", "written"}
    BY <1>8, <1>13 DEF WriteMmcRegisters, WriteImask, WriteIstat, WriteMultiple, ReadMultiple, Lines
  <2> QED BY <1>5, <1>6, <1>13, <2>1 DEF Registers_
<1> HIDE DEF first, n
<1>14. CASE MmcJob
  BY <1>11, <1>12, <1>13, <1>14 DEF MmcJob
<1> QED BY <1>9, <1>10, <1>14

LEMMA SdJobOk ==
    ASSUME BusOk, SdJob
    PROVE  BusOk'
<1>1. job.j.route = "sd" /\ JobOk /\ ByMmc /\ UNCHANGED <<chan, run, xdma>>
  BY DEF SdJob, On, BusOk
<1>2. DOMAIN pending = Requests /\ MediaOk
  BY DEF BusOk
<1>3. (\E name, needed : Step(name, needed)) \/ Fed(1)
  BY DEF SdJob
<1>4. JobOk' /\ job'.j = job.j
  BY <1>1, <1>3, StepOk, FedOk
<1>5. /\ \A cmd : SimpleCommand(cmd) => UNCHANGED <<pending, drive>>
      /\ GoIdle \/ WriteIstat({}) => UNCHANGED <<pending, drive>>
  BY DEF SimpleCommand, GoIdle, WriteIstat
<1>5a. \A cmd : AppCommand(cmd) => DOMAIN pending' = Requests /\ drive' = drive
  BY DEF AppCommand, Lines
<1>5b. ReadMmcFifo16 => DOMAIN pending' = Requests /\ drive' = drive
  BY <1>2 DEF ReadMmcFifo16, Lines
<1>6. DOMAIN pending' = Requests /\ drive' = drive
  BY <1>2, <1>5, <1>5a, <1>5b DEF SdJob
<1>7. MediaOk'
  BY <1>1, <1>2, <1>4, <1>6 DEF MediaOk, ByMmc, cardVars
<1> QED BY <1>1, <1>4, <1>6, <1>7, KeepsBus

LEMMA CardWritesOk ==
    ASSUME MediaOk
    PROVE  /\ \A n : WriteBlockCount(n) \/ Card2Status =>
                  DOMAIN card' = DOMAIN card /\ card'.written = card.written /\ Quiet
           /\ \A cmd : NtrCommand(cmd) =>
                  DOMAIN card' = DOMAIN card /\ card'.written = card.written /\ Quiet
           /\ \A cmd, irq : CtrCommand(cmd, irq) =>
                  DOMAIN card' = DOMAIN card /\ card'.written = card.written /\ Quiet
           /\ \A addr, irq : CtrRead(addr, irq) =>
                  DOMAIN card' = DOMAIN card /\ card'.written = card.written /\ Quiet
           /\ \A addr, n : Card2Begin(addr, n) =>
                  DOMAIN card' = DOMAIN card /\ card'.written = card.written /\ Quiet
           /\ \A word : WriteCardFifo(word) => DOMAIN card' = DOMAIN card /\ Quiet
           /\ ReadNtrFifo => DOMAIN card' = DOMAIN card /\ card'.written = card.written /\ Quiet
           /\ ReadCardFifo => DOMAIN card' = DOMAIN card /\ card'.written = card.written
<1>1. "written" \in DOMAIN card
  BY DEF MediaOk
<1>2. \A words, kind, base :
          LET a == Answer(words, kind, base) IN
          /\ DOMAIN a = DOMAIN card /\ a.written = card.written
  BY <1>1 DEF Answer
<1>3. ASSUME NEW cmd, NtrCommand(cmd)
      PROVE  DOMAIN card' = DOMAIN card /\ card'.written = card.written /\ Quiet
  <2>1. CASE card' = [card EXCEPT !.pos = 0, !.ntr_ready = FALSE, !.block = <<>>]
    BY <1>1, <1>3, <2>1 DEF NtrCommand
  <2>2. CASE card' = [Answer(NtrWords[cmd], cmd, 0) EXCEPT !.ntr_busy = TRUE, !.ntr_ready = TRUE]
    <3>1. PICK a : a = Answer(NtrWords[cmd], cmd, 0)
      OBVIOUS
    <3>2. DOMAIN a = DOMAIN card /\ a.written = card.written
      BY <1>2, <3>1
    <3>3. card' = [a EXCEPT !.ntr_busy = TRUE, !.ntr_ready = TRUE]
      BY <2>2, <3>1
    <3> QED BY <1>1, <1>3, <3>2, <3>3 DEF NtrCommand
  <2> QED BY <1>3, <2>1, <2>2 DEF NtrCommand
<1>4. ASSUME NEW cmd, NEW irq, CtrCommand(cmd, irq)
      PROVE  DOMAIN card' = DOMAIN card /\ card'.written = card.written /\ Quiet
  <2>1. CASE card' = [card EXCEPT !.pos = 0, !.ready = (cmd = "xC4"), !.irq_enable = irq,
                                  !.block = <<>>]
    BY <1>1, <1>4, <2>1 DEF CtrCommand
  <2>2. CASE card' = [Answer(CtrWords[cmd], cmd, 0) EXCEPT
                          !.busy = TRUE, !.ready = TRUE, !.irq_enable = irq]
    <3>1. PICK a : a = Answer(CtrWords[cmd], cmd, 0)
      OBVIOUS
    <3>2. DOMAIN a = DOMAIN card /\ a.written = card.written
      BY <1>2, <3>1
    <3>3. card' = [a EXCEPT !.busy = TRUE, !.ready = TRUE, !.irq_enable = irq]
      BY <2>2, <3>1
    <3> QED BY <1>1, <1>4, <3>2, <3>3 DEF CtrCommand
  <2>3. CASE card' = [Answer(SectorWords, "card", Header) EXCEPT
                          !.busy = TRUE, !.ready = TRUE, !.irq_enable = irq,
                          !.at = Header + SectorWords]
    <3>1. PICK a : a = Answer(SectorWords, "card", Header)
      OBVIOUS
    <3>2. DOMAIN a = DOMAIN card /\ a.written = card.written
      BY <1>2, <3>1
    <3>3. card' = [a EXCEPT !.busy = TRUE, !.ready = TRUE, !.irq_enable = irq,
                            !.at = Header + SectorWords]
      BY <2>3, <3>1
    <3> QED BY <1>1, <1>4, <3>2, <3>3 DEF CtrCommand
  <2> QED BY <1>4, <2>1, <2>2, <2>3 DEF CtrCommand
<1>5. \A word : WriteCardFifo(word) => DOMAIN card' = DOMAIN card /\ Quiet
  BY <1>1 DEF WriteCardFifo
<1>6. ReadCardFifo => DOMAIN card' = DOMAIN card /\ card'.written = card.written
  BY <1>1 DEF ReadCardFifo, CtrAfterRead
<1>7. \A addr, n : Card2Begin(addr, n) =>
                  DOMAIN card' = DOMAIN card /\ card'.written = card.written /\ Quiet
  BY <1>1, <1>2 DEF Card2Begin
<1>8. \A addr, irq : CtrRead(addr, irq) =>
                  DOMAIN card' = DOMAIN card /\ card'.written = card.written /\ Quiet
  BY <1>1, <1>2 DEF CtrRead
<1>9. \A n : WriteBlockCount(n) \/ Card2Status =>
                  DOMAIN card' = DOMAIN card /\ card'.written = card.written /\ Quiet
  BY <1>1, <1>2 DEF WriteBlockCount, Card2Status
<1>10. ReadNtrFifo => DOMAIN card' = DOMAIN card /\ card'.written = card.written /\ Quiet
  BY <1>1 DEF ReadNtrFifo
<1> QED BY <1>3, <1>4, <1>5, <1>6, <1>7, <1>8, <1>9, <1>10

LEMMA CardJobsOk ==
    ASSUME BusOk, CardJob \/ Card2Job
    PROVE  BusOk'
<1>1. JobOk /\ MediaOk /\ DOMAIN pending = Requests /\ job.j \in Jobs /\ job.from \in Int
  BY DEF BusOk, JobOk
<1>2. ASSUME ByCard, UNCHANGED <<chan, run, xdma>>, JobOk', job'.j = job.j,
             DOMAIN pending' = Requests, DOMAIN card' = DOMAIN card,
             job.j.route # "card2" => card'.written = card.written
      PROVE  BusOk'
  <2>1. MediaOk'
    BY <1>1, <1>2 DEF MediaOk, ByCard, mmcVars
  <2> QED BY <1>2, <2>1, KeepsBus
<1>3. \A name, needed : Step(name, needed) => JobOk' /\ job'.j = job.j
  BY <1>1, StepOk
<1>4. Fed(1) \/ job' = job => JobOk' /\ job'.j = job.j
  <2>1. job' = job => JobOk' /\ job'.j = job.j
    BY <1>1 DEF JobOk
  <2> QED BY <1>1, <2>1, FedOk
<1>5. Quiet => DOMAIN pending' = Requests
  BY <1>1 DEF Quiet
<1>6. ReadCardFifo => DOMAIN pending' = Requests
  BY <1>1, LinesOk DEF ReadCardFifo
<1>7. CASE CardJob
  <2> DEFINE buffers == (job.j.n * SectorWords) \div BufferWords
             n == buffers * (BufferWords - Early)
  <2>1. job.j.route = "card" /\ Port = "CARD"
    BY <1>7 DEF CardJob, On, Port, PortOf
  <2>2. /\ n \in Int /\ BufferWords - Early \in Int
        /\ job.from + job.j.n * SectorWords \in Int
    <3>1. job.j.n \in Nat /\ SectorWords \in Nat /\ BufferWords \in Nat \ {0} /\ Early \in Nat
      BY <1>1, <2>1, JobsAssumption, CartridgeAssumption
    <3>2. job.j.n * SectorWords \in Int
      BY <3>1
    <3>3. \A k \in Int : k \div BufferWords \in Int
      BY <3>1
    <3>4. buffers \in Int
      BY <3>2, <3>3
    <3> QED BY <1>1, <3>1, <3>2, <3>4
  <2>3. Fifo("CARD") \in BusOf(Port) /\ Mem(job.from + job.j.n * SectorWords) \in BusOf(Port)
    BY <2>1, <2>2, AnyAddress
  <2>4. SetUp(0, "chan", {}, Fifo("CARD"), Mem(job.from + job.j.n * SectorWords),
              n, BufferWords - Early) => BusOk'
    BY <2>2, <2>3, SetUpOk
  <2>5. Launch(0, "chan!", {"chan"}, "CTRCARD0", 0, 1, TRUE) => BusOk'
    <3>1. "CTRCARD0" \in Requests \union {"none"} /\ 0 \in Int /\ 1 \in Int /\ TRUE \in BOOLEAN
      BY DEF Requests
    <3> QED BY <3>1, LaunchOk
  <2>6. CASE CardWord(job.j)
    BY <1>2, <1>4, <1>6, <2>6, <1>1, CardWritesOk DEF CardWord
  <2>7. CASE /\ ByCard /\ Registers_
             /\ \/ Step("blocks", {}) /\ WriteBlockCount(job.j.n - 1)
                \/ Step("cmd", {"blocks"}) /\ CtrRead(job.from, TRUE)
    BY <1>1, <1>2, <1>3, <1>5, <2>7, CardWritesOk DEF Registers_
  <2> HIDE DEF n
  <2>8. \/ Step("blocks", {}) /\ WriteBlockCount(job.j.n - 1) /\ ByCard /\ Registers_
        \/ Step("cmd", {"blocks"}) /\ CtrRead(job.from, TRUE) /\ ByCard /\ Registers_
        \/ SetUp(0, "chan", {}, Fifo("CARD"), Mem(job.from + job.j.n * SectorWords),
                 n, BufferWords - Early)
        \/ Launch(0, "chan!", {"chan"}, "CTRCARD0", 0, 1, TRUE)
        \/ CardWord(job.j)
    BY <1>7, Zenon DEF CardJob, n
  <2> QED BY <2>4, <2>5, <2>6, <2>7, <2>8
<1>8. CASE Card2Job
  <2>1. ByCard /\ Registers_ /\ job.j.route = "card2"
    BY <1>8 DEF Card2Job, On
  <2>2. JobOk' /\ job'.j = job.j
    BY <1>3, <1>4, <1>8 DEF Card2Job
  <2>3. DOMAIN card' = DOMAIN card /\ DOMAIN pending' = Requests
    BY <1>1, <1>5, <1>6, <1>8, CardWritesOk DEF Card2Job
  <2> QED BY <1>2, <2>1, <2>2, <2>3 DEF Registers_
<1> QED BY <1>7, <1>8

(* The drivers that start no channel. *)
LEMMA OtherJobsOk ==
    ASSUME BusOk, SaveJob \/ RsaJob \/ KeyJob
    PROVE  BusOk'
<1>1. JobOk /\ MediaOk /\ DOMAIN pending = Requests
  BY DEF BusOk
<1>2. JobOk' /\ job'.j = job.j
  <2>1. \A name, needed : Step(name, needed) => JobOk' /\ job'.j = job.j
    BY <1>1, StepOk
  <2>2. Fed(1) \/ job' = [job EXCEPT !.fed = @ + 1] \/ job' = job => JobOk' /\ job'.j = job.j
    <3>1. job' = job => JobOk' /\ job'.j = job.j
      BY <1>1 DEF JobOk
    <3> QED BY <1>1, <3>1, FedOk
  <2>3. CASE SaveJob
    BY <2>1, <2>2, <2>3 DEF SaveJob
  <2>4. CASE RsaJob
    BY <2>1, <2>2, <2>4 DEF RsaJob
  <2>5. CASE KeyJob
    BY <2>1, <2>2, <2>5 DEF KeyJob
  <2> QED BY <2>3, <2>4, <2>5
<1>3. CASE SaveJob
  <2>1. ByCard /\ UNCHANGED <<chan, run, xdma>>
    BY <1>3 DEF SaveJob
  <2>2. UNCHANGED <<card, pending>>
    BY <1>3 DEF SaveJob, SpiCommand, WriteSpiFifo, WriteSpiLength, ClearChipSelect,
                ReadSpiFifo, Quiet
  <2>3. MediaOk'
    BY <1>1, <1>2, <2>1, <2>2 DEF MediaOk, ByCard, mmcVars
  <2> QED BY <1>1, <1>2, <2>1, <2>2, <2>3, KeepsBus
<1>4. CASE RsaJob
  <2>1. ByRsa /\ UNCHANGED <<chan, run, xdma>>
    BY <1>4 DEF RsaJob, Registers_
  <2>2. pending' = pending
    BY <1>4 DEF RsaJob, WriteRsaCnt, WriteExp, WriteMod, WriteMsg
  <2>3. MediaOk'
    BY <1>1, <1>2, <2>1 DEF MediaOk, ByRsa, mmcVars, cardVars
  <2> QED BY <1>1, <1>2, <2>1, <2>2, <2>3, KeepsBus
<1>5. CASE KeyJob
  <2>1. ByAes /\ UNCHANGED <<chan, run, xdma>>
    BY <1>5 DEF KeyJob, Registers_
  <2>2. DOMAIN pending' = Requests
    BY <1>1, <1>5 DEF KeyJob, WriteKeyFifo, WriteDsiKey, WriteCnt, WriteKeySelectors
  <2>3. MediaOk'
    BY <1>1, <1>2, <2>1 DEF MediaOk, ByAes, mmcVars, cardVars
  <2> QED BY <1>1, <1>2, <2>1, <2>2, <2>3, KeepsBus
<1> QED BY <1>3, <1>4, <1>5

(* The immediate copy. *)
CopyStarts ==
    /\ Step("in!", {"in"}) /\ OnlyDma /\ RunOk'
    /\ ControlLaunches("mem", 0, "TIMER0", 1, -1, TRUE, TRUE)

LEMMA CopyStartsOk ==
    ASSUME BusOk, On("copy"), Step("in!", {"in"}), OnlyDma,
           WriteControl(0, [Control("TIMER0", 1, -1, TRUE) EXCEPT !.imm_mode = TRUE])
    PROVE  CopyStarts
<1> DEFINE ctrl == [Control("TIMER0", 1, -1, TRUE) EXCEPT !.imm_mode = TRUE]
<1>1. WriteControl(0, ctrl) /\ Starts(ctrl, "TIMER0", 1, -1, TRUE, TRUE)
  BY ControlStarts
<1> HIDE DEF ctrl
<1>2. job.j.route = "copy" /\ Port = "mem"
  BY DEF On, Port, PortOf
<1>3. ChansOk("mem")
  BY <1>2 DEF BusOk
<1>4. "TIMER0" \in Requests \union {"none"} /\ 1 \in Int /\ -1 \in Int /\ TRUE \in BOOLEAN
  BY DEF Requests
<1>5. ControlLaunches("mem", 0, "TIMER0", 1, -1, TRUE, TRUE)
  BY <1>1, <1>3, <1>4, WriteControlIs
<1>6. RunOk'
  <2>1. CASE run' = run
    BY <2>1 DEF BusOk, RunOk, Copying
  <2>2. CASE run' = Block(0, TRUE)
    BY <2>2, Dma9Assumption DEF Block, Cpu_, RunOk, Copying
  <2> QED BY <1>5, <2>1, <2>2 DEF ControlLaunches
<1> QED BY <1>5, <1>6 DEF CopyStarts

LEMMA CopyJobOk ==
    ASSUME BusOk, CopyJob
    PROVE  BusOk'
<1>1. job.j.route = "copy" /\ Port = "mem" /\ job.j \in Jobs /\ job.from \in Nat /\ JobOk
      /\ On("copy")
  BY DEF CopyJob, On, Port, PortOf, BusOk, JobOk
<1>2. job.j.n \in Nat
  BY <1>1, JobsAssumption
<1>3. job.j.n \in Int /\ job.from + job.j.n - 1 \in Int /\ job.from \in Int
  BY <1>1, <1>2
<1>4. Mem(job.from) \in BusOf(Port) /\ Mem(job.from + job.j.n - 1) \in BusOf(Port)
  BY <1>3, AnyAddress
<1>5. SetUp(0, "in", {}, Mem(job.from), Mem(job.from + job.j.n - 1), job.j.n, job.j.n) => BusOk'
  BY <1>3, <1>4, SetUpOk
<1>6. CopyStarts => BusOk'
  <2> SUFFICES ASSUME CopyStarts PROVE BusOk'
    OBVIOUS
  <2>1. Step("in!", {"in"}) /\ OnlyDma /\ RunOk' /\ ChansOk("mem")' /\ pending' = pending
    BY DEF CopyStarts, ControlLaunches
  <2>2. JobOk' /\ job'.j = job.j
    BY <1>1, <2>1, StepOk
  <2>3. ChansOk(Port)'
    BY <1>1, <2>1, <2>2 DEF Port
  <2> QED BY <2>1, <2>2, <2>3, ChannelStepOk
<1> QED BY <1>1, <1>5, <1>6, CopyStartsOk DEF CopyJob

(* The next job, and a reset. *)
LEMMA ProgramOk ==
    ASSUME JobOk, NextProgram
    PROVE  /\ JobOk' /\ job'.j.route = job.j.route /\ job'.j.todo = job.j.todo
           /\ job'.j \in Jobs /\ job'.todo = job'.j.todo
           /\ job'.fed = 0 /\ job'.from = job.from + 100
<1>1. PICK j \in Jobs : /\ j.route = job.j.route /\ j.todo = job.j.todo
                        /\ job' = [Program(j, job.left - 1) EXCEPT !.from = job.from + 100]
  BY DEF NextProgram
<1>2. job.from + 100 \in Nat
  BY DEF JobOk
<1>3. /\ DOMAIN job' = {"j", "todo", "left", "fed", "from"}
      /\ job'.j = j /\ job'.todo = j.todo /\ job'.fed = 0 /\ job'.from = job.from + 100
  BY <1>1 DEF Program
<1> QED BY <1>1, <1>2, <1>3 DEF JobOk

LEMMA NextJobOk ==
    ASSUME BusOk, NextJob
    PROVE  BusOk' /\ job'.j.route = job.j.route
<1>1. UNCHANGED <<pending, chan, run, xdma, mmcVars, cardVars>> /\ NextProgram
  BY DEF NextJob, devices
<1>2. JobOk' /\ job'.j.route = job.j.route
  BY <1>1, ProgramOk DEF BusOk
<1> QED BY <1>1, <1>2 DEF BusOk, ChansOk, RunOk, Copying, XdmaStops, Port, MediaOk,
                          mmcVars, cardVars

LEMMA IdleChanOk ==
    ASSUME NEW port
    PROVE  IdleChan \in AnyChannel(port) /\ ~IdleChan.busy
BY DEF IdleChan, AnyChannel, BusOf, Nowhere, Requests

LEMMA ResetOk ==
    ASSUME BusOk, Reset
    PROVE  BusOk' /\ job'.j.route = job.j.route
<1>1. /\ DmaReset /\ CorelinkReset /\ EmmcReset /\ CartridgeReset /\ NextProgram
  BY DEF Reset
<1>2. JobOk' /\ job'.j.route = job.j.route
  BY <1>1, ProgramOk DEF BusOk
<1>3. ChansOk(Port)'
  BY <1>1, IdleChanOk DEF DmaReset, ChansOk
<1>4. IsAt(run', "cpu", 0)
  BY <1>1, PlacesOfRun DEF DmaReset
<1>5. RunOk'
  BY <1>4, RunGoesOk
<1>6. XdmaStops'
  <2>1. /\ DOMAIN xdma' = {"chan", "int_enable", "int_flag"} /\ DOMAIN xdma'.chan = 0..LastXChan
        /\ \A c \in 0..LastXChan :
               xdma'.chan[c] = [xdma.chan[c] EXCEPT !.state = "STOP", !.fifo = <<>>]
    BY <1>1 DEF CorelinkReset
  <2> QED BY <2>1 DEF BusOk, XdmaStops
<1>7. DOMAIN pending' = Requests
  BY <1>1 DEF DmaReset
<1>8. MediaOk'
  <2>1. drive' = drive /\ DOMAIN card' = DOMAIN card
    BY <1>1 DEF EmmcReset, CartridgeReset
  <2>2. "written" \in DOMAIN card => card'.written = card.written
    BY <1>1 DEF CartridgeReset
  <2> QED BY <1>2, <2>1, <2>2 DEF BusOk, MediaOk
<1> QED BY <1>2, <1>3, <1>5, <1>6, <1>7, <1>8 DEF BusOk

LEMMA RouteStays ==
    ASSUME KeyInv, [Next]_vars
    PROVE  job'.j.route = job.j.route
<1>1. KeysType /\ Fields_
  BY DEF KeyInv
<1>2. CASE Reset \/ NextJob
  BY <1>1, <1>2, NextProgramKeeps DEF Reset, NextJob
<1>3. CASE AesJob \/ ShaJob \/ XdmaJob \/ MmcJob \/ SdJob \/ MmcStopChannel \/ MmcStop
           \/ CardJob \/ Card2Job \/ SaveJob \/ RsaJob \/ CopyJob
  BY <1>1, <1>3, AesJobKeeps, ShaJobKeeps, StorageJobsKeep, CardJobsKeep, OtherJobsKeep
     DEF SameRoute
<1>4. CASE KeyJob
  BY <1>1, <1>4, JobKeeps DEF KeyJob, SameRoute
<1>5. CASE Dma \/ Defer \/ Deliver \/ EndSlice
  BY <1>1, <1>5, DmaKeeps
<1>6. CASE UNCHANGED vars
  BY <1>6 DEF vars
<1> QED BY <1>2, <1>3, <1>4, <1>5, <1>6 DEF Next, Driver

LEMMA BusStep ==
    ASSUME BusOk, job.j.route # "xdma", [Next]_vars
    PROVE  BusOk'
<1>1. CASE Reset
  BY <1>1, ResetOk
<1>2. CASE Driver
  <2>1. ~XdmaJob
    BY DEF XdmaJob, On
  <2> QED BY <1>2, <2>1, AesJobOk, ShaJobOk, MmcJobOk, SdJobOk, CardJobsOk, OtherJobsOk,
             CopyJobOk, NextJobOk DEF Driver
<1>3. CASE Dma \/ Defer \/ Deliver \/ EndSlice
  BY <1>3, BusDma
<1>4. CASE UNCHANGED vars
  BY <1>4 DEF vars, devices, dmaVars, mmcVars, cardVars, BusOk, JobOk, ChansOk, RunOk,
              Copying, XdmaStops, MediaOk, Port
<1> QED BY <1>1, <1>2, <1>3, <1>4 DEF Next

LEMMA BusNext == KeyInv /\ BusInv /\ [Next]_vars => BusInv'
BY RouteStays, BusStep DEF BusInv

LEMMA JobInitially ==
    ASSUME Init
    PROVE  /\ JobOk /\ job.todo = job.j.todo /\ job.fed = 0 /\ job.from = 1
           /\ job.j.route # "keys" => job.left = MaxJobs
<1>1. PICK j \in Jobs : job = Program(j, IF j.route = "keys" THEN 1 ELSE MaxJobs)
  BY DEF Init
<1> QED BY <1>1 DEF Program, JobOk

LEMMA BusInit == Init => BusInv
<1> SUFFICES ASSUME Init PROVE BusOk
  BY DEF BusInv
<1>1. ChansOk(Port)
  BY IdleChanOk DEF Init, DmaInit, ChansOk
<1>2. RunOk /\ DOMAIN pending = Requests
  BY DEF Init, DmaInit, Cpu_, RunOk, Copying
<1>3. XdmaStops
  BY DEF Init, CorelinkInit, XdmaStops
<1>4. MediaOk
  BY DEF Init, EmmcInit, CartridgeInit, MediaOk
<1> QED BY <1>1, <1>2, <1>3, <1>4, JobInitially DEF BusOk

-----------------------------------------------------------------------------
(* What is delivered, kind by kind of jobs.                                 *)

(* A word is written to the memory. *)
LEMMA OutIs ==
    ASSUME NEW at, NEW word, Store(at, word)
    PROVE  /\ DOMAIN out' = {at} \union DOMAIN out /\ out'[at] = word
           /\ \A n \in DOMAIN out : n # at => out'[n] = out[n]
BY DEF Store, Over

LEMMA NothingIsOut ==
    /\ out = <<>> => DOMAIN out = {} /\ Cardinality(DOMAIN out) = 0
    /\ \A n : n \notin DOMAIN <<>>
<1>1. DOMAIN <<>> = {}
  OBVIOUS
<1> QED BY <1>1, FS_EmptySet

LEMMA IntervalGrows ==
    ASSUME NEW a \in Int, NEW b \in Int, a <= b
    PROVE  /\ {a} \union ((a + 1)..b) = a..b /\ a \notin (a + 1)..b
           /\ {b} \union (a..(b - 1)) = a..b /\ b \notin a..(b - 1)
OBVIOUS

LEMMA IntervalSize ==
    ASSUME NEW a \in Int, NEW n \in Nat
    PROVE  Cardinality(a..(a + n - 1)) = n
<1> DEFINE b == a + n - 1
<1>1. b \in Int /\ b - a + 1 = n /\ (a > b <=> n = 0)
  OBVIOUS
<1> HIDE DEF b
<1>2. Cardinality(a..b) = IF a > b THEN 0 ELSE b - a + 1
  BY <1>1, FS_Interval
<1> QED BY <1>1, <1>2 DEF b

(* A block has ended. *)
Ends ==
    /\ EndsBlock /\ Follows /\ EndedAs(chan'[run.ch], chan[run.ch])
    /\ \A d \in 0..LastChan : d # run.ch => chan'[d] = chan[d]

LEMMA DmaKinds ==
    ASSUME BusOk, job.j.route # "xdma", Dma \/ Defer \/ Deliver \/ EndSlice
    PROVE  Reads \/ Writes \/ Ends \/ GoesOn
<1>1. CASE EndBlock /\ UNCHANGED <<devices, xdma, out, job>>
  BY <1>1, EndBlockOk DEF Ends
<1>2. CASE DmaRead \/ DmaWrite
  BY <1>2, ReadsOk, WritesOk
<1>3. CASE ((Visit \/ EndScan) /\ UNCHANGED <<devices, xdma, out, job>>)
               \/ XdmaLoad \/ XdmaStore \/ Xdma \/ Defer \/ Deliver \/ EndSlice
  BY <1>3, GoesOnOk
<1> QED BY <1>1, <1>2, <1>3 DEF Dma, Ndma

(* Jobs without the DMAs. *)
NoDma == ~Copying /\ \A c \in 0..LastChan : ~chan[c].busy

LEMMA NoDmaKeeps ==
    ASSUME BusOk, job.j.route # "xdma", NoDma, Dma \/ Defer \/ Deliver \/ EndSlice
    PROVE  NoDma' /\ UNCHANGED <<devices, chan, out, IF_, job>>
<1>1. ~Reads /\ ~Writes /\ ~Ends
  BY DEF NoDma, Reads, Writes, Copies, Ends, EndsBlock
<1>2. GoesOn
  BY <1>1, DmaKinds
<1>3. chan' = chan /\ ~Copying'
  BY <1>2 DEF GoesOn, BeginsBlock, NoDma
<1> QED BY <1>2, <1>3 DEF GoesOn, NoDma

LEMMA NoDmaStays == NoDma /\ UNCHANGED <<chan, run>> => NoDma'
BY DEF NoDma, Copying

LEMMA ResetNoDma == Reset => NoDma' /\ out' = <<>> /\ IF_' = {} /\ late' = {}
<1> SUFFICES ASSUME Reset PROVE NoDma' /\ out' = <<>> /\ IF_' = {} /\ late' = {}
  OBVIOUS
<1>1. /\ DmaReset /\ out' = <<>>
  BY DEF Reset
<1> QED BY <1>1, IdleChanOk DEF DmaReset, NoDma, Copying, Cpu_

LEMMA InitNoDma == Init => NoDma /\ out = <<>> /\ IF_ = {}
BY IdleChanOk DEF Init, DmaInit, NoDma, Copying, Cpu_

(* Which driver it is. *)
LEMMA DriverIs ==
    ASSUME Driver
    PROVE  \/ NextJob
           \/ job.j.route = "aes" /\ AesJob
           \/ job.j.route = "sha" /\ ShaJob
           \/ job.j.route = "xdma" /\ XdmaJob
           \/ job.j.route = "mmc" /\ (MmcJob \/ MmcStopChannel \/ MmcStop)
           \/ job.j.route = "sd" /\ SdJob
           \/ job.j.route = "card" /\ CardJob
           \/ job.j.route = "card2" /\ Card2Job
           \/ job.j.route = "save" /\ SaveJob
           \/ job.j.route = "rsa" /\ RsaJob
           \/ job.j.route = "copy" /\ CopyJob
           \/ job.j.route = "keys" /\ KeyJob
<1>1. /\ AesJob => job.j.route = "aes"
      /\ ShaJob => job.j.route = "sha"
      /\ XdmaJob => job.j.route = "xdma"
  BY DEF AesJob, ShaJob, XdmaJob, On
<1>2. /\ MmcJob \/ MmcStopChannel \/ MmcStop => job.j.route = "mmc"
      /\ SdJob => job.j.route = "sd"
  BY DEF MmcJob, SdJob, MmcStopChannel, MmcStop, On
<1>3. /\ CardJob => job.j.route = "card"
      /\ Card2Job => job.j.route = "card2"
      /\ SaveJob => job.j.route = "save"
  BY DEF CardJob, Card2Job, SaveJob, On
<1>4. /\ RsaJob => job.j.route = "rsa"
      /\ CopyJob => job.j.route = "copy"
      /\ KeyJob => job.j.route = "keys"
  BY DEF RsaJob, CopyJob, KeyJob, On
<1> QED BY <1>1, <1>2, <1>3, <1>4 DEF Driver

(* Of the media only those of the job's kind are written. *)
LEMMA MemoryIsDelivered ==
    ASSUME MediaOk, job.j.route \notin {"mmc", "card2"},
           \A n \in DOMAIN out : out[n] = Expected(n),
           (run.phase = "cpu" /\ Done) => Cardinality(DOMAIN out) = InMemory(job.j),
           JobOk
    PROVE  DeliveredIsExpected
<1>1. drive.written = <<>> /\ card.written = <<>>
  BY DEF MediaOk
<1>2. OnMedium(job.j) = 0
  BY DEF OnMedium
<1>3. \A n : n \notin job.from..(job.from + OnMedium(job.j) - 1)
  BY <1>2 DEF JobOk
<1> QED BY <1>1, <1>3, NothingIsOut DEF DeliveredIsExpected

-----------------------------------------------------------------------------
(* The keys, which are not delivered anywhere. *)
Storing == {"aes", "sha", "xdma", "rsa", "mmc", "sd", "card", "card2", "save", "copy"}

IdleInv == job.j.route \notin Storing => NoDma /\ out = <<>>

LEMMA IdleNext ==
    ASSUME KeyInv, BusInv, IdleInv, [Next]_vars
    PROVE  IdleInv'
<1> SUFFICES ASSUME job.j.route \notin Storing
             PROVE  NoDma' /\ out' = <<>>
  BY RouteStays DEF IdleInv
<1>1. NoDma /\ out = <<>> /\ job.j.route # "xdma" /\ BusOk
  BY DEF IdleInv, BusInv, Storing
<1>2. CASE Reset
  BY <1>2, ResetNoDma
<1>3. CASE Driver
  <2>1. NextJob \/ KeyJob
    BY <1>3, DriverIs DEF Storing
  <2> QED BY <1>1, <2>1, NoDmaStays DEF NextJob, KeyJob, Registers_
<1>4. CASE Dma \/ Defer \/ Deliver \/ EndSlice
  BY <1>1, <1>4, NoDmaKeeps
<1>5. CASE UNCHANGED vars
  BY <1>1, <1>5, NoDmaStays DEF vars, dmaVars
<1> QED BY <1>2, <1>3, <1>4, <1>5 DEF Next

LEMMA IdleDelivered ==
    ASSUME BusInv, IdleInv, job.j.route \notin Storing
    PROVE  DeliveredIsExpected
<1>1. out = <<>> /\ MediaOk /\ JobOk
  BY DEF IdleInv, BusInv, BusOk, Storing
<1>2. InMemory(job.j) = 0 /\ job.j.route \notin {"mmc", "card2"}
  BY DEF InMemory, Storing
<1> QED BY <1>1, <1>2, NothingIsOut, MemoryIsDelivered

-----------------------------------------------------------------------------
(* The copy within the memory, which an immediate channel does at once.     *)

LEMMA MemoryIsRead ==
    ASSUME NEW addr, addr.port = "mem"
    PROVE  /\ Word(addr) = Data(addr.at)
           /\ arm9_read32(addr) => NoDevice
           /\ \A word : arm9_write32(addr, word) => NoDevice /\ Store(addr.at, word)
BY DEF Word, arm9_read32, arm9_write32

(* The words that have been copied, from the last. *)
Copied(i) ==
    /\ DOMAIN out = (job.from + job.j.n - i)..(job.from + job.j.n - 1)
    /\ \A n \in DOMAIN out : out[n] = Data(2 * job.from + job.j.n - 1 - n)

CopyWaits ==
    /\ "in!" \in job.todo /\ NoDma /\ out = <<>> /\ 0 \notin IF_
    /\ "in" \notin job.todo => /\ chan[0].source_addr = Mem(job.from)
                               /\ chan[0].dest_addr = Mem(job.from + job.j.n - 1)
                               /\ chan[0].write_count = job.j.n

CopyRuns ==
    /\ Copying /\ run.ch = 0 /\ run.imm
    /\ chan[0].imm_mode /\ chan[0].write_count = job.j.n
    /\ chan[0].int_src = Mem(job.from) /\ chan[0].src_step = 1
    /\ chan[0].int_dest = Mem(job.from + job.j.n - 1) /\ chan[0].dest_step = -1
    /\ run.i <= job.j.n /\ Copied(run.i)
    /\ run.phase = "write" => run.i < job.j.n /\ run.word = Data(job.from + run.i)

CopyEnded == NoDma /\ Copied(job.j.n)

CopyState ==
    /\ job.j.n \in Nat
    /\ \A c \in 1..LastChan : ~chan[c].busy
    /\ "in!" \notin job.todo => CopyRuns \/ CopyEnded
    /\ "in!" \in job.todo => CopyWaits

CopyInv == job.j.route = "copy" => CopyState

LEMMA CopyDma ==
    ASSUME BusOk, job.j.route = "copy", CopyState, Dma \/ Defer \/ Deliver \/ EndSlice
    PROVE  CopyState'
<1>1. job' = job /\ job.j.n \in Nat /\ job.from \in Nat
  BY BusDma DEF CopyState, BusOk, JobOk
<1>2. CASE NoDma
  <2>1. NoDma' /\ UNCHANGED <<chan, out, IF_, job>>
    BY <1>2, NoDmaKeeps
  <2> QED BY <1>2, <2>1 DEF CopyState, CopyWaits, CopyRuns, CopyEnded, NoDma, Copied
<1>3. CASE ~NoDma
  <2>1. CopyRuns /\ "in!" \notin job.todo
    BY <1>3 DEF CopyState, CopyWaits, CopyEnded
  <2>2. ~GoesOn
    BY <2>1 DEF GoesOn, CopyRuns
  <2>3. /\ chan[0].int_src.port = "mem" /\ chan[0].int_src.at = job.from
        /\ chan[0].int_dest.port = "mem" /\ chan[0].int_dest.at = job.from + job.j.n - 1
        /\ run.i \in Nat /\ run.i <= job.j.n
    BY <2>1, AddressIs DEF CopyRuns, Mem, BusOk, RunOk
  <2>4. CASE Reads
    <3>1. /\ run'.phase = "write" /\ run'.i = run.i /\ run'.ch = 0 /\ run'.imm = run.imm
          /\ run'.word = Data(job.from + run.i) /\ run.i < job.j.n
          /\ UNCHANGED <<chan, out>>
      BY <2>1, <2>3, <2>4, MemoryIsRead DEF Reads, Copies, CopyRuns
    <3>2. CopyRuns'
      BY <1>1, <2>1, <3>1 DEF CopyRuns, Copied, Copying
    <3> QED BY <1>1, <2>1, <3>1, <3>2 DEF CopyState
  <2>5. CASE Writes
    <3> DEFINE at == job.from + job.j.n - 1 - run.i
    <3>1. /\ run.phase = "write" /\ run'.phase = "read" /\ run'.i = run.i + 1 /\ run'.ch = 0
          /\ run'.imm = run.imm /\ chan' = chan
          /\ DestAddr.port = "mem" /\ DestAddr.at = at /\ arm9_write32(DestAddr, run.word)
      <4>1. /\ run.ch = 0 /\ DestAddr.at = chan[0].int_dest.at + run.i * chan[0].dest_step
            /\ chan[0].dest_step = -1
        BY <2>1, <2>5 DEF Writes, CopyRuns
      <4>2. run.i * (-1) = -run.i
        BY <2>3
      <4>3. DestAddr.at = at
        BY <1>1, <2>3, <4>1, <4>2
      <4> QED BY <2>1, <2>3, <2>5, <4>1, <4>3 DEF Writes, Copies
    <3>2. run.i < job.j.n /\ run.word = Data(job.from + run.i)
      BY <2>1, <3>1 DEF CopyRuns
    <3>3. Store(at, Data(job.from + run.i))
      BY <3>1, <3>2, MemoryIsRead
    <3>4. /\ DOMAIN out' = {at} \union DOMAIN out /\ out'[at] = Data(job.from + run.i)
          /\ \A n \in DOMAIN out : n # at => out'[n] = out[n]
      BY <3>3, OutIs
    <3>5. Copied(run.i)
      BY <2>1 DEF CopyRuns
    <3>6. Copied(run.i)'
      <4>1. PICK i, n, from : i = run.i /\ n = job.j.n /\ from = job.from
        OBVIOUS
      <4>2. i \in Nat /\ n \in Nat /\ from \in Nat /\ i < n /\ at = from + n - 1 - i
        BY <1>1, <2>3, <3>2, <4>1
      <4>3. DOMAIN out = (from + n - i)..(from + n - 1)
            /\ \A k \in DOMAIN out : out[k] = Data(2 * from + n - 1 - k)
        BY <3>5, <4>1 DEF Copied
      <4> HIDE DEF at
      <4>4. /\ DOMAIN out' = (from + n - (i + 1))..(from + n - 1)
            /\ at \notin DOMAIN out /\ 2 * from + n - 1 - at = from + i
        <5>1. from + n - i = at + 1 /\ from + n - (i + 1) = at /\ 2 * from + n - 1 - at = from + i
              /\ from + n - 1 \in Int /\ at \in Int /\ at <= from + n - 1
          BY <4>2
        <5>2. DOMAIN out = (at + 1)..(from + n - 1)
          BY <4>3, <5>1
        <5>3. {at} \union DOMAIN out = at..(from + n - 1) /\ at \notin DOMAIN out
          BY <5>1, <5>2, IntervalGrows
        <5> QED BY <3>4, <5>1, <5>3
      <4>5. \A k \in DOMAIN out' : out'[k] = Data(2 * from + n - 1 - k)
        BY <3>4, <4>1, <4>3, <4>4
      <4> QED BY <1>1, <3>1, <4>1, <4>4, <4>5 DEF Copied
    <3>7. CopyRuns'
      BY <1>1, <2>1, <2>3, <3>1, <3>2, <3>6 DEF CopyRuns, Copied, Copying
    <3> QED BY <1>1, <2>1, <3>1, <3>7 DEF CopyState
  <2>6. CASE Ends
    <3>1. /\ run.i >= job.j.n /\ run.ch = 0 /\ out' = out /\ ~chan'[0].busy /\ ~Copying'
          /\ \A d \in 1..LastChan : chan'[d] = chan[d]
      BY <2>1, <2>6, Dma9Assumption DEF Ends, EndsBlock, EndedAs, Follows, CopyRuns
    <3>2. run.i = job.j.n
      BY <1>1, <2>3, <3>1
    <3>3. \A d \in 0..LastChan : d = 0 \/ d \in 1..LastChan
      BY Dma9Assumption
    <3>4. NoDma' /\ (\A c \in 1..LastChan : ~chan'[c].busy)
      BY <3>1, <3>3 DEF NoDma, CopyState
    <3>5. Copied(job.j.n)'
      BY <1>1, <2>1, <3>1, <3>2 DEF CopyRuns, Copied
    <3> QED BY <1>1, <2>1, <3>4, <3>5 DEF CopyState, CopyEnded
  <2> QED BY <2>2, <2>4, <2>5, <2>6, DmaKinds
<1> QED BY <1>2, <1>3

LEMMA CopyDriver ==
    ASSUME BusOk, CopyState, CopyJob
    PROVE  CopyState'
<1>1. On("copy") /\ job.j.route = "copy" /\ ~Copying /\ JobOk /\ job.from \in Nat
      /\ Port = "mem" /\ job.j.n \in Nat
  BY DEF CopyJob, On, Copying, BusOk, JobOk, Port, PortOf, CopyState
<1>2. job.j.n \in Int /\ job.from + job.j.n - 1 \in Int /\ job.from \in Int
      /\ 0 \in 0..LastChan /\ \A c \in 1..LastChan : c \in 0..LastChan /\ c # 0
  BY <1>1, Dma9Assumption
<1>3. Mem(job.from) \in BusOf(Port) /\ Mem(job.from + job.j.n - 1) \in BusOf(Port)
  BY <1>2, AnyAddress
<1>4. CASE SetUp(0, "in", {}, Mem(job.from), Mem(job.from + job.j.n - 1), job.j.n, job.j.n)
  <2>1. /\ Step("in", {}) /\ OnlyDma /\ UNCHANGED <<pending, late, run, IF_>>
        /\ \A d \in 0..LastChan : d # 0 => chan'[d] = chan[d]
        /\ chan'[0] = Registered(chan[0], Mem(job.from), Mem(job.from + job.j.n - 1),
                                 job.j.n, job.j.n)
    BY <1>2, <1>3, <1>4, SetUpOk
  <2>2. /\ chan'[0].source_addr = Mem(job.from) /\ chan'[0].write_count = job.j.n
        /\ chan'[0].dest_addr = Mem(job.from + job.j.n - 1)
        /\ chan'[0].busy = chan[0].busy /\ chan[0] \in AnyChannel(Port)
        /\ chan'[0].int_src = chan[0].int_src /\ chan'[0].int_dest = chan[0].int_dest
    BY <1>2, <2>1 DEF Registered, BusOk, ChansOk, AnyChannel
  <2>3. /\ job'.j = job.j /\ job'.from = job.from /\ job'.todo = job.todo \ {"in"}
    BY <1>1, <2>1, StepOk
  <2>4. out' = out /\ run' = run /\ IF_' = IF_
    BY <2>1 DEF OnlyDma
  <2>5. \A c \in 1..LastChan : ~chan'[c].busy
    BY <1>2, <2>1 DEF CopyState
  <2>6. NoDma => NoDma'
    BY <2>1, <2>2 DEF NoDma, Copying
  <2>7. CopyWaits => CopyWaits'
    BY <2>2, <2>3, <2>4, <2>6 DEF CopyWaits
  <2>8. CopyEnded => CopyEnded'
    BY <2>3, <2>4, <2>6 DEF CopyEnded, Copied
  <2> QED BY <1>1, <2>3, <2>5, <2>7, <2>8 DEF CopyState, CopyRuns
<1>5. CASE /\ Step("in!", {"in"}) /\ OnlyDma
           /\ WriteControl(0, [Control("TIMER0", 1, -1, TRUE) EXCEPT !.imm_mode = TRUE])
  <2>1. CopyStarts
    BY <1>1, <1>5, CopyStartsOk
  <2>2. /\ "in!" \in job.todo /\ "in" \notin job.todo
        /\ job'.j = job.j /\ job'.from = job.from /\ job'.todo = job.todo \ {"in!"}
    BY <1>1, <1>5, StepOk
  <2>3. CopyWaits /\ NoDma /\ ~chan[0].busy /\ 0 \in 0..LastChan
    BY <1>2, <2>2 DEF CopyState, CopyWaits, NoDma
  <2>4. /\ run' = Block(0, TRUE) /\ out' = out
        /\ \A d \in 1..LastChan : chan'[d] = chan[d]
        /\ LaunchedAs(chan'[0], chan[0], "TIMER0", 1, -1, TRUE, TRUE)
        /\ chan'[0].int_src = chan[0].source_addr /\ chan'[0].int_dest = chan[0].dest_addr
    BY <1>2, <2>1, <2>3 DEF CopyStarts, ControlLaunches, OnlyDma
  <2>5. Copying' /\ run'.ch = 0 /\ run'.imm /\ run'.i = 0 /\ run'.phase = "read"
    BY <2>4 DEF Block, Cpu_, Copying
  <2>6. Copied(0)'
    <3>1. (job.from + job.j.n - 0)..(job.from + job.j.n - 1) = {}
      BY <1>1
    <3> QED BY <1>1, <2>2, <2>3, <2>4, <3>1, NothingIsOut DEF CopyWaits, Copied
  <2>7. CopyRuns'
    <3>1. Copied(run.i)'
      BY <2>5, <2>6 DEF Copied
    <3>2. /\ chan'[0].imm_mode = TRUE /\ chan'[0].write_count = job.j.n
          /\ chan'[0].int_src = Mem(job.from) /\ chan'[0].src_step = 1
          /\ chan'[0].int_dest = Mem(job.from + job.j.n - 1) /\ chan'[0].dest_step = -1
      BY <2>2, <2>3, <2>4 DEF CopyWaits, LaunchedAs
    <3> QED BY <1>1, <2>2, <2>5, <3>1, <3>2 DEF CopyRuns
  <2>8. \A c \in 1..LastChan : ~chan'[c].busy
    BY <2>4 DEF CopyState
  <2> QED BY <1>1, <2>2, <2>7, <2>8 DEF CopyState
<1> QED BY <1>4, <1>5 DEF CopyJob

(* A job that begins. *)
LEMMA CopyBegins ==
    ASSUME BusOk', job'.j.route = "copy", job'.todo = job'.j.todo, NoDma', out' = <<>>, IF_' = {}
    PROVE  CopyState'
<1>1. {"in", "in!"} \subseteq job'.todo /\ job'.j.n \in Nat
  BY JobsAssumption DEF BusOk, JobOk
<1>2. \A c \in 1..LastChan : c \in 0..LastChan
  BY Dma9Assumption
<1> QED BY <1>1, <1>2 DEF CopyState, CopyWaits, NoDma

LEMMA CopyNext ==
    ASSUME KeyInv, BusInv, CopyInv, [Next]_vars
    PROVE  CopyInv'
<1> SUFFICES ASSUME job.j.route = "copy"
             PROVE  CopyState'
  BY RouteStays DEF CopyInv
<1>1. CopyState /\ BusOk /\ BusOk' /\ job'.j.route = "copy" /\ JobOk
  <2>1. job'.j.route = "copy" /\ BusInv'
    BY RouteStays, BusNext
  <2> QED BY <2>1 DEF CopyInv, BusInv, BusOk
<1>2. CASE Reset
  <2>1. NoDma' /\ out' = <<>> /\ IF_' = {} /\ NextProgram
    BY <1>2, ResetNoDma DEF Reset
  <2> QED BY <1>1, <2>1, ProgramOk, CopyBegins
<1>3. CASE Driver
  <2>1. NextJob \/ CopyJob
    BY <1>3, DriverIs
  <2>2. CASE NextJob
    <3>1. 0 \in IF_ /\ out' = <<>> /\ IF_' = {} /\ NextProgram /\ UNCHANGED <<chan, run>>
          /\ ~Copying
      BY <2>2 DEF NextJob, Done, CopyDone, Copying
    <3>2. NoDma
      BY <1>1, <3>1 DEF CopyState, CopyWaits, CopyRuns, CopyEnded
    <3>3. NoDma'
      BY <3>1, <3>2, NoDmaStays
    <3> QED BY <1>1, <3>1, <3>3, ProgramOk, CopyBegins
  <2> QED BY <1>1, <2>1, <2>2, CopyDriver
<1>4. CASE Dma \/ Defer \/ Deliver \/ EndSlice
  BY <1>1, <1>4, CopyDma
<1>5. CASE UNCHANGED vars
  BY <1>1, <1>5 DEF vars, dmaVars, CopyState, CopyWaits, CopyRuns, CopyEnded, NoDma, Copied, Copying
<1> QED BY <1>2, <1>3, <1>4, <1>5 DEF Next

LEMMA CopyInit == Init => CopyInv
<1> SUFFICES ASSUME Init, job.j.route = "copy" PROVE CopyState
  BY DEF CopyInv
<1>1. NoDma /\ out = <<>> /\ IF_ = {} /\ JobOk /\ job.todo = job.j.todo
  BY InitNoDma, JobInitially
<1>2. {"in", "in!"} \subseteq job.todo /\ job.j.n \in Nat
  BY <1>1, JobsAssumption DEF JobOk
<1>3. \A c \in 1..LastChan : c \in 0..LastChan
  BY Dma9Assumption
<1> QED BY <1>1, <1>2, <1>3 DEF CopyState, CopyWaits, NoDma

LEMMA CopyDelivered ==
    ASSUME BusInv, CopyInv, job.j.route = "copy"
    PROVE  DeliveredIsExpected
<1>1. CopyState /\ MediaOk /\ JobOk /\ job.from \in Nat /\ job.j.n \in Nat
  BY DEF CopyInv, BusInv, BusOk, CopyState, JobOk
<1>2. \A n \in DOMAIN out : out[n] = Expected(n)
  BY <1>1, NothingIsOut DEF CopyState, CopyWaits, CopyRuns, CopyEnded, Copied, Expected
<1>3. ASSUME run.phase = "cpu", Done
      PROVE  Cardinality(DOMAIN out) = InMemory(job.j)
  <2>1. 0 \in IF_ /\ ~Copying
    BY <1>3 DEF Done, CopyDone, Copying
  <2>2. Copied(job.j.n)
    BY <1>1, <2>1 DEF CopyState, CopyWaits, CopyRuns, CopyEnded
  <2>3. DOMAIN out = job.from..(job.from + job.j.n - 1)
    <3>1. job.from + job.j.n - job.j.n = job.from
      BY <1>1
    <3> QED BY <2>2, <3>1 DEF Copied
  <2>4. Cardinality(DOMAIN out) = job.j.n
    <3>1. job.from \in Int
      BY <1>1
    <3> QED BY <1>1, <2>3, <3>1, IntervalSize
  <2> QED BY <2>4 DEF InMemory
<1> QED BY <1>1, <1>2, <1>3, MemoryIsDelivered

-----------------------------------------------------------------------------
(* The registers of an SD card, which the processor reads.                  *)

MmcNames ==
    {"istat", "imask", "app_command", "state", "rd32rdy_pending", "rd32rdy_enable",
     "tx32rq_enable", "size", "pos", "blocks", "block_transfer", "buffer", "data_blocks",
     "block_len", "base", "block", "asserts"}

(* A controller that is where the other is in its transfer. *)
SameWords(m, k) ==
    /\ DOMAIN m = MmcNames /\ DOMAIN k = MmcNames
    /\ m.size = k.size /\ m.pos = k.pos /\ m.base = k.base /\ m.block = k.block
    /\ m.blocks = k.blocks /\ m.block_len = k.block_len /\ m.data_blocks = k.data_blocks

LEMMA IstatIsSet ==
    ASSUME NEW m, NEW fields, DOMAIN m = MmcNames
    PROVE  /\ SameWords(SetIstat(m, fields), m) /\ SetIstat(m, fields).state = m.state
           /\ SetIstat(m, fields).block_transfer = m.block_transfer
BY DEF SetIstat, SameWords, MmcNames

LEMMA TransferEnds ==
    ASSUME NEW m, DOMAIN m = MmcNames
    PROVE  /\ SameWords(TransferEnd(m), m) /\ ~TransferEnd(m).block_transfer
           /\ TransferEnd(m).state =
                  IF m.state \in {"Data", "Receive"} THEN "Transfer" ELSE "Standby"
<1> DEFINE k == [m EXCEPT !.buffer = "none", !.block_transfer = FALSE,
                          !.rd32rdy_pending = FALSE,
                          !.state = IF @ \in {"Data", "Receive"} THEN "Transfer" ELSE "Standby",
                          !.istat = @ \ {"CMDEND"}]
<1>1. /\ SameWords(k, m) /\ k.block_transfer = FALSE
      /\ k.state = IF m.state \in {"Data", "Receive"} THEN "Transfer" ELSE "Standby"
  BY DEF SameWords, MmcNames
<1>2. TransferEnd(m) = SetIstat(k, {"DATAEND", "CMDEND"})
  BY DEF TransferEnd
<1>3. DOMAIN k = MmcNames
  BY <1>1 DEF SameWords
<1> HIDE DEF k
<1> QED BY <1>1, <1>2, <1>3, IstatIsSet DEF SameWords

LEMMA MmcIsLeft ==
    ASSUME NEW m, DOMAIN m = MmcNames, Leaves(m)
    PROVE  SameWords(mmc', m) /\ mmc'.state = m.state /\ mmc'.block_transfer = m.block_transfer
BY DEF Leaves, SameWords, MmcNames

(* The words of the register that have been read. *)
ReadOf(n) ==
    /\ DOMAIN out = job.from..(job.from + n - 1)
    /\ \A k \in DOMAIN out : out[k] = Data(k - job.from)

SdState ==
    /\ NoDma /\ DOMAIN mmc = MmcNames /\ ReadOf(job.fed)
    /\ "cmd" \in job.todo => job.fed = 0 /\ mmc.size = 0 /\ "ack" \in job.todo
    /\ "cmd" \notin job.todo =>
           /\ mmc.size \in Nat /\ job.fed + mmc.size = InMemory(job.j)
           /\ mmc.size > 0 => mmc.pos = job.fed /\ mmc.base = 0
           /\ "ack" \notin job.todo => mmc.size = 0

SdInv == job.j.route = "sd" => SdState

LEMMA SimpleIs ==
    ASSUME DOMAIN mmc = MmcNames, GoIdle \/ (\E cmd : SimpleCommand(cmd)) \/ WriteIstat({})
    PROVE  SameWords(mmc', mmc)
<1>1. CASE GoIdle
  <2> DEFINE m == [mmc EXCEPT !.istat = {}, !.state = "Idle"]
  <2>1. SameWords(m, mmc) /\ DOMAIN m = MmcNames
    BY DEF SameWords, MmcNames
  <2>2. Leaves(SetIstat(m, {"CMDEND"}))
    BY <1>1 DEF GoIdle, CommandEnd
  <2> HIDE DEF m
  <2>3. SameWords(SetIstat(m, {"CMDEND"}), m)
    BY <2>1, IstatIsSet
  <2>4. SameWords(mmc', SetIstat(m, {"CMDEND"}))
    BY <2>2, <2>3, MmcIsLeft DEF SameWords
  <2> QED BY <2>1, <2>3, <2>4 DEF SameWords
<1>2. ASSUME NEW cmd, SimpleCommand(cmd)
      PROVE  SameWords(mmc', mmc)
  <2> DEFINE m == [mmc EXCEPT
           !.app_command = @ \/ cmd = 55,
           !.state = IF @ \in DOMAIN Moves /\ Moves[@].cmd = cmd
                     THEN Moves[@].to ELSE @]
  <2>1. SameWords(m, mmc) /\ DOMAIN m = MmcNames
    BY DEF SameWords, MmcNames
  <2>2. Leaves(SetIstat(m, {"CMDEND"}))
    BY <1>2 DEF SimpleCommand, CommandEnd
  <2> HIDE DEF m
  <2>3. SameWords(SetIstat(m, {"CMDEND"}), m)
    BY <2>1, IstatIsSet
  <2>4. SameWords(mmc', SetIstat(m, {"CMDEND"}))
    BY <2>2, <2>3, MmcIsLeft DEF SameWords
  <2> QED BY <2>1, <2>3, <2>4 DEF SameWords
<1>3. WriteIstat({}) => SameWords(mmc', mmc)
  BY DEF WriteIstat, SameWords, MmcNames
<1> QED BY <1>1, <1>2, <1>3

(* The commands that return a register. *)
LEMMA RegisterIsSent ==
    ASSUME DOMAIN mmc = MmcNames, NEW cmd, AppCommand(cmd), mmc.size = 0
    PROVE  /\ DOMAIN mmc' = MmcNames
           /\ mmc'.size = CASE cmd = 13 -> StatusWords [] cmd = 51 -> ScrWords [] OTHER -> 0
           /\ mmc'.size > 0 => mmc'.pos = 0 /\ mmc'.base = 0
<1> DEFINE m == [mmc EXCEPT !.app_command = FALSE, !.istat = @ \ {"CMDEND"}]
           k == [m EXCEPT !.rd32rdy_pending = TRUE, !.pos = 0, !.base = 0,
                          !.buffer = IF cmd = 13 THEN "status" ELSE "scr",
                          !.size = IF cmd = 13 THEN StatusWords ELSE ScrWords]
           s == [m EXCEPT !.state = IF cmd = 41 /\ @ = "Idle" THEN "Ready" ELSE @]
<1>1. SameWords(m, mmc) /\ DOMAIN m = MmcNames
  BY DEF SameWords, MmcNames
<1>2. cmd \in SimpleAppCommands \union {13, 51}
      /\ Leaves(IF cmd \in SimpleAppCommands THEN SetIstat(s, {"CMDEND"})
                ELSE SetIstat(k, {"RXRDY", "CMDEND"}))
  BY DEF AppCommand, CommandEnd
<1> HIDE DEF m
<1>3. SameWords(s, m)
  BY <1>1 DEF SameWords, MmcNames
<1>4. DOMAIN k = MmcNames /\ k.pos = 0 /\ k.base = 0
      /\ k.size = IF cmd = 13 THEN StatusWords ELSE ScrWords
  BY <1>1 DEF MmcNames
<1> HIDE DEF k, s
<1>5. CASE cmd \in SimpleAppCommands
  <2>1. SameWords(SetIstat(s, {"CMDEND"}), s)
    BY <1>3, IstatIsSet DEF SameWords
  <2>2. SameWords(mmc', SetIstat(s, {"CMDEND"}))
    BY <1>2, <1>5, <2>1, MmcIsLeft DEF SameWords
  <2>3. SameWords(mmc', mmc)
    BY <1>1, <1>3, <2>1, <2>2 DEF SameWords
  <2> QED BY <1>5, <2>3 DEF SameWords, SimpleAppCommands
<1>6. CASE cmd \notin SimpleAppCommands
  <2>1. SameWords(SetIstat(k, {"RXRDY", "CMDEND"}), k)
    BY <1>4, IstatIsSet
  <2>2. SameWords(mmc', SetIstat(k, {"RXRDY", "CMDEND"}))
    BY <1>2, <1>6, <2>1, MmcIsLeft DEF SameWords
  <2>3. SameWords(mmc', k) /\ cmd \in {13, 51}
    BY <1>2, <1>6, <2>1, <2>2 DEF SameWords
  <2> QED BY <1>4, <2>3 DEF SameWords
<1> QED BY <1>5, <1>6

(* A word of it is read. *)
LEMMA HalfWordsAreRead ==
    ASSUME DOMAIN mmc = MmcNames, mmc.size \in Nat, ReadMmcFifo16
    PROVE  /\ DOMAIN mmc' = MmcNames /\ mmc.size > 0 /\ mmc'.size = mmc.size - 1
           /\ mmc'.size > 0 => mmc'.pos = mmc.pos + 1 /\ mmc'.base = mmc.base
<1> DEFINE taken == [mmc EXCEPT !.pos = @ + 1, !.size = @ - 1]
<1>1. /\ DOMAIN taken = MmcNames /\ taken.size = mmc.size - 1
      /\ taken.pos = mmc.pos + 1 /\ taken.base = mmc.base
  BY DEF MmcNames
<1>2. mmc.size > 0 /\ IF mmc.size > 1 THEN mmc' = taken ELSE Leaves(TransferEnd(taken))
  BY DEF ReadMmcFifo16
<1> HIDE DEF taken
<1>3. SameWords(TransferEnd(taken), taken)
  BY <1>1, TransferEnds
<1>4. Leaves(TransferEnd(taken)) => SameWords(mmc', TransferEnd(taken))
  BY <1>3, MmcIsLeft DEF SameWords
<1> QED BY <1>1, <1>2, <1>3, <1>4 DEF SameWords

LEMMA SdDriver ==
    ASSUME BusOk, SdState, SdJob
    PROVE  SdState'
<1>1. JobOk /\ job.from \in Nat /\ job.fed \in Nat /\ job.j.route = "sd" /\ NoDma'
  BY NoDmaStays DEF BusOk, JobOk, SdJob, On, SdState
<1>2. ASSUME NEW name, NEW needed, Step(name, needed), name \notin {"cmd", "ack"},
             SameWords(mmc', mmc), out' = out
      PROVE  SdState'
  <2>1. /\ job'.todo = job.todo \ {name} /\ job'.j = job.j /\ job'.from = job.from
        /\ job'.fed = job.fed
    BY <1>1, <1>2, StepOk
  <2> QED BY <1>1, <1>2, <2>1 DEF SdState, SameWords, ReadOf
<1>3. ASSUME Step("cmd", {"app"}), AppCommand(job.j.cmd), out' = out
      PROVE  SdState'
  <2>1. /\ "cmd" \in job.todo /\ job'.todo = job.todo \ {"cmd"} /\ job'.j = job.j
        /\ job'.from = job.from /\ job'.fed = job.fed
    BY <1>1, <1>3, StepOk
  <2>2. DOMAIN mmc = MmcNames /\ mmc.size = 0 /\ job.fed = 0 /\ "ack" \in job.todo
    BY <2>1 DEF SdState
  <2>3. /\ DOMAIN mmc' = MmcNames /\ mmc'.size = InMemory(job.j) /\ mmc'.size \in Nat
        /\ mmc'.size > 0 => mmc'.pos = 0 /\ mmc'.base = 0
    BY <1>1, <1>3, <2>2, RegisterIsSent DEF InMemory, StatusWords, ScrWords
  <2> QED BY <1>1, <1>3, <2>1, <2>2, <2>3 DEF SdState, ReadOf
<1>4. ASSUME "cmd" \notin job.todo, ReadMmcFifo16, Fed(1), Store(job.from + job.fed, MmcFifo)
      PROVE  SdState'
  <2>1. /\ job'.todo = job.todo /\ job'.j = job.j /\ job'.from = job.from
        /\ job'.fed = job.fed + 1
    BY <1>1, <1>4, FedOk
  <2>2. /\ DOMAIN mmc = MmcNames /\ mmc.size \in Nat /\ job.fed + mmc.size = InMemory(job.j)
        /\ mmc.size > 0 => mmc.pos = job.fed /\ mmc.base = 0
        /\ "ack" \notin job.todo => mmc.size = 0
    BY <1>4 DEF SdState
  <2>3. /\ DOMAIN mmc' = MmcNames /\ mmc.size > 0 /\ mmc'.size = mmc.size - 1
        /\ mmc'.size > 0 => mmc'.pos = mmc.pos + 1 /\ mmc'.base = mmc.base
    BY <1>4, <2>2, HalfWordsAreRead
  <2>4. MmcFifo = Data(job.fed)
    BY <1>1, <2>2, <2>3 DEF MmcFifo
  <2> DEFINE at == job.from + job.fed
  <2>5. /\ DOMAIN out' = {at} \union DOMAIN out /\ out'[at] = Data(job.fed)
        /\ \A n \in DOMAIN out : n # at => out'[n] = out[n]
    BY <1>4, <2>4, OutIs
  <2>6. /\ DOMAIN out = job.from..(at - 1) /\ \A k \in DOMAIN out : out[k] = Data(k - job.from)
    <3>1. ReadOf(job.fed)
      BY DEF SdState
    <3> QED BY <1>1, <3>1 DEF ReadOf
  <2>7. at \in Int /\ job.from \in Int /\ job.from <= at /\ at - job.from = job.fed
        /\ job.from + (job.fed + 1) - 1 = at
    BY <1>1
  <2> HIDE DEF at
  <2>8. DOMAIN out' = job.from..at /\ at \notin DOMAIN out
    BY <2>5, <2>6, <2>7, IntervalGrows
  <2>9. ReadOf(job.fed)'
    BY <2>1, <2>5, <2>6, <2>7, <2>8 DEF ReadOf
  <2> QED BY <1>1, <1>4, <2>1, <2>2, <2>3, <2>9 DEF SdState
<1>5. ASSUME Step("ack", {"cmd"}), mmc.size = 0, SameWords(mmc', mmc), out' = out
      PROVE  SdState'
  <2>1. /\ "cmd" \notin job.todo /\ job'.todo = job.todo \ {"ack"} /\ job'.j = job.j
        /\ job'.from = job.from /\ job'.fed = job.fed
    BY <1>1, <1>5, StepOk
  <2> QED BY <1>1, <1>5, <2>1 DEF SdState, SameWords, ReadOf
<1>6. DOMAIN mmc = MmcNames
  BY DEF SdState
<1> QED BY <1>2, <1>3, <1>4, <1>5, <1>6, SimpleIs DEF SdJob

LEMMA SdBegins ==
    ASSUME BusOk', job'.j.route = "sd", job'.todo = job'.j.todo, job'.fed = 0,
           NoDma', out' = <<>>, DOMAIN mmc' = MmcNames, mmc'.size = 0
    PROVE  SdState'
<1>1. {"cmd", "ack"} \subseteq job'.todo /\ job'.from \in Nat
  BY JobsAssumption DEF BusOk, JobOk
<1>2. job'.from..(job'.from + 0 - 1) = {}
  BY <1>1
<1>3. ReadOf(job.fed)'
  BY <1>2, NothingIsOut DEF ReadOf
<1> QED BY <1>1, <1>3 DEF SdState

LEMMA SdNext ==
    ASSUME KeyInv, BusInv, SdInv, [Next]_vars
    PROVE  SdInv'
<1> SUFFICES ASSUME job.j.route = "sd"
             PROVE  SdState'
  BY RouteStays DEF SdInv
<1>1. SdState /\ BusOk /\ BusOk' /\ job'.j.route = "sd" /\ JobOk
  <2>1. job'.j.route = "sd" /\ BusInv'
    BY RouteStays, BusNext
  <2> QED BY <2>1 DEF SdInv, BusInv, BusOk
<1>2. CASE Reset
  <2>1. NoDma' /\ out' = <<>> /\ NextProgram /\ EmmcReset
    BY <1>2, ResetNoDma DEF Reset
  <2>2. DOMAIN mmc' = MmcNames /\ mmc'.size = 0
    BY <1>1, <2>1 DEF EmmcReset, SdState, MmcNames
  <2> QED BY <1>1, <2>1, <2>2, ProgramOk, SdBegins
<1>3. CASE Driver
  <2>1. NextJob \/ SdJob
    BY <1>3, DriverIs
  <2>2. CASE NextJob
    <3>1. job.todo = {} /\ out' = <<>> /\ NextProgram /\ UNCHANGED <<chan, run, mmc>>
      BY <2>2 DEF NextJob, Done, SdDone, devices, mmcVars
    <3>2. NoDma' /\ DOMAIN mmc' = MmcNames /\ mmc'.size = 0
      BY <1>1, <3>1, NoDmaStays DEF SdState
    <3> QED BY <1>1, <3>1, <3>2, ProgramOk, SdBegins
  <2> QED BY <1>1, <2>1, <2>2, SdDriver
<1>4. CASE Dma \/ Defer \/ Deliver \/ EndSlice
  <2>1. NoDma' /\ UNCHANGED <<devices, out, job>>
    BY <1>1, <1>4, NoDmaKeeps DEF SdState
  <2> QED BY <1>1, <2>1 DEF SdState, ReadOf, devices, mmcVars
<1>5. CASE UNCHANGED vars
  <2>1. NoDma'
    BY <1>1, <1>5, NoDmaStays DEF SdState, vars, dmaVars
  <2> QED BY <1>1, <1>5, <2>1 DEF vars, devices, mmcVars, SdState, ReadOf
<1> QED BY <1>2, <1>3, <1>4, <1>5 DEF Next

LEMMA SdInit == Init => SdInv
<1> SUFFICES ASSUME Init, job.j.route = "sd" PROVE SdState
  BY DEF SdInv
<1>1. NoDma /\ out = <<>> /\ JobOk /\ job.todo = job.j.todo /\ job.fed = 0 /\ job.from = 1
  BY InitNoDma, JobInitially
<1>2. {"cmd", "ack"} \subseteq job.todo
  BY <1>1, JobsAssumption DEF JobOk
<1>3. DOMAIN mmc = MmcNames /\ mmc.size = 0
  BY DEF Init, EmmcInit, MmcNames
<1>4. 1..(1 + 0 - 1) = {}
  OBVIOUS
<1>5. ReadOf(job.fed)
  BY <1>1, <1>4, NothingIsOut DEF ReadOf
<1> QED BY <1>1, <1>2, <1>3, <1>5 DEF SdState

LEMMA SdDelivered ==
    ASSUME BusInv, SdInv, job.j.route = "sd"
    PROVE  DeliveredIsExpected
<1>1. SdState /\ MediaOk /\ JobOk /\ job.from \in Int /\ job.fed \in Nat
  BY DEF SdInv, BusInv, BusOk, SdState, JobOk
<1>2. \A n \in DOMAIN out : out[n] = Expected(n)
  BY <1>1 DEF SdState, ReadOf, Expected
<1>3. ASSUME run.phase = "cpu", Done
      PROVE  Cardinality(DOMAIN out) = InMemory(job.j)
  <2>1. job.todo = {}
    BY <1>3 DEF Done, SdDone
  <2>2. job.fed = InMemory(job.j)
    BY <1>1, <2>1 DEF SdState
  <2>3. DOMAIN out = job.from..(job.from + job.fed - 1)
    BY <1>1 DEF SdState, ReadOf
  <2> QED BY <1>1, <2>2, <2>3, IntervalSize
<1> QED BY <1>1, <1>2, <1>3, MemoryIsDelivered

-----------------------------------------------------------------------------
(* A Card2, which the processor writes sector by sector.                    *)

(* Words in the order of the memory. *)
DataFrom(r, at) == [i \in 1..r |-> Data(at + i - 1)]

LEMMA DataGrows ==
    ASSUME NEW r \in Nat, NEW at \in Int
    PROVE  /\ Len(DataFrom(r, at)) = r
           /\ Append(DataFrom(r, at), Data(at + r)) = DataFrom(r + 1, at)
<1> DEFINE s == DataFrom(r, at)
<1>1. s = [i \in 1..r |-> s[i]]
  BY DEF DataFrom
<1>2. s \in [1..r -> {Data(at + i - 1) : i \in 1..r}]
  BY DEF DataFrom
<1>3. Len(s) = r
  BY <1>2, FunctionIsSequence
<1>4. Append(s, Data(at + r)) = [i \in 1..(r + 1) |-> IF i = r + 1 THEN Data(at + r) ELSE s[i]]
  BY <1>1, AppendIs
<1>5. [i \in 1..(r + 1) |-> IF i = r + 1 THEN Data(at + r) ELSE s[i]] = DataFrom(r + 1, at)
  BY DEF DataFrom
<1> QED BY <1>3, <1>4, <1>5

LEMMA NothingIsFrom ==
    /\ \A at : DataFrom(0, at) = <<>>
    /\ Len(<<>>) = 0
<1>1. Len(<<>>) = 0
  OBVIOUS
<1>2. \A at : DataFrom(0, at) = <<>>
  BY DEF DataFrom
<1> QED BY <1>1, <1>2

CardNames ==
    {"busy", "ready", "irq_enable", "ntr_busy", "ntr_ready", "pos", "left", "blocks", "base",
     "kind", "at", "card2_active", "block", "written"}

RightMedium(written) == \A n \in DOMAIN written : written[n] = Data(n)

Holds(written, first, last) == \A n \in first..last : n \in DOMAIN written

Total == job.j.n * SectorWords

(* Whole sectors are on the card, and the rest is in the buffer. *)
Sectors(q, r) ==
    /\ job.fed = SectorWords * q + r /\ card.at = job.from + SectorWords * q
    /\ card.block = DataFrom(r, card.at)

Card2Writes ==
    /\ job.fed <= Total
    /\ \E q \in Nat, r \in 0..(SectorWords - 1) : Sectors(q, r)
    /\ Holds(card.written, job.from, card.at - 1)
    /\ job.fed < Total => card.card2_active = TRUE /\ card.left = Total - job.fed

Card2State ==
    /\ NoDma /\ out = <<>> /\ DOMAIN card = CardNames /\ RightMedium(card.written)
    /\ "begin" \in job.todo => job.fed = 0 /\ "end" \in job.todo
    /\ "end" \in job.todo => "plain" \in job.todo
    /\ "begin" \notin job.todo /\ "end" \in job.todo => Card2Writes
    /\ "end" \notin job.todo => Holds(card.written, job.from, job.from + Total - 1)

Card2Inv == job.j.route = "card2" => Card2State

LEMMA OverIs ==
    ASSUME NEW new, NEW old
    PROVE  /\ DOMAIN Over(new, old) = DOMAIN new \union DOMAIN old
           /\ \A n \in DOMAIN new : Over(new, old)[n] = new[n]
           /\ \A n \in DOMAIN old : n \notin DOMAIN new => Over(new, old)[n] = old[n]
BY DEF Over

(* A sector, or a block, of right words is written after the others. *)
LEMMA MediumGrows ==
    ASSUME NEW written, NEW first \in Int, NEW at \in Int, NEW n \in Nat,
           RightMedium(written), Holds(written, first, at - 1),
           NEW part, DOMAIN part = at..(at + n - 1), RightMedium(part)
    PROVE  /\ RightMedium(Over(part, written))
           /\ Holds(Over(part, written), first, at + n - 1)
<1> DEFINE new == Over(part, written)
<1>1. /\ DOMAIN new = DOMAIN part \union DOMAIN written
      /\ \A k \in DOMAIN part : new[k] = part[k]
      /\ \A k \in DOMAIN written : k \notin DOMAIN part => new[k] = written[k]
  BY OverIs
<1> HIDE DEF new
<1>2. RightMedium(new)
  BY <1>1 DEF RightMedium
<1>3. \A k \in first..(at + n - 1) : k \in first..(at - 1) \/ k \in at..(at + n - 1)
  OBVIOUS
<1>4. Holds(new, first, at + n - 1)
  BY <1>1, <1>3 DEF Holds
<1> QED BY <1>2, <1>4 DEF new

LEMMA Card2Word ==
    ASSUME BusOk, Card2State, job.j.route = "card2", "end" \in job.todo, "begin" \notin job.todo,
           job.fed < Total, Fed(1), WriteCardFifo(Data(job.from + job.fed)), out' = out, NoDma'
    PROVE  Card2State'
<1>1. /\ job'.todo = job.todo /\ job'.j = job.j /\ job'.from = job.from
      /\ job'.fed = job.fed + 1
  BY FedOk DEF BusOk
<1>2. /\ DOMAIN card = CardNames /\ RightMedium(card.written) /\ "plain" \in job.todo
      /\ Card2Writes
  BY DEF Card2State
<1>3. job.from \in Nat /\ job.fed \in Nat /\ job.j.n \in Nat /\ SectorWords \in Nat \ {0}
      /\ Total \in Nat
  BY JobsAssumption, CartridgeAssumption DEF BusOk, JobOk, Total
<1>4. PICK q \in Nat, r \in 0..(SectorWords - 1) : Sectors(q, r)
  BY <1>2 DEF Card2Writes
<1>5. PICK at : at = card.at
  OBVIOUS
<1>6. SectorWords * q \in Nat
  BY <1>3
<1>7. /\ at \in Int /\ at = job.from + SectorWords * q /\ job.fed = SectorWords * q + r
      /\ at + r = job.from + job.fed /\ r \in Nat /\ r + 1 \in Nat
  BY <1>3, <1>4, <1>5, <1>6 DEF Sectors
<1> DEFINE words == Append(card.block, Data(job.from + job.fed))
<1>8. words = DataFrom(r + 1, at) /\ Len(words) = r + 1
  <2>1. card.block = DataFrom(r, at)
    BY <1>4, <1>5 DEF Sectors
  <2>2. Append(DataFrom(r, at), Data(at + r)) = DataFrom(r + 1, at)
    BY <1>7, DataGrows
  <2>3. Len(DataFrom(r + 1, at)) = r + 1
    BY <1>7, DataGrows
  <2> QED BY <1>7, <2>1, <2>2, <2>3
<1>9. card.card2_active = TRUE /\ card.left = Total - job.fed
      /\ Holds(card.written, job.from, at - 1)
  BY <1>2, <1>5 DEF Card2Writes
<1> HIDE DEF words
<1>10. CASE r + 1 # SectorWords
  <2>1. card' = [card EXCEPT !.pos = @ + 1, !.left = @ - 1, !.block = words,
                             !.at = @, !.written = @, !.card2_active = card.left > 1]
    BY <1>8, <1>9, <1>10 DEF WriteCardFifo, words
  <2>2. /\ DOMAIN card' = CardNames /\ card'.left = card.left - 1 /\ card'.block = words
        /\ card'.at = at /\ card'.written = card.written /\ card'.card2_active = (card.left > 1)
    BY <1>2, <1>5, <2>1 DEF CardNames
  <2>3. r + 1 \in 0..(SectorWords - 1) /\ SectorWords * q + (r + 1) = job.fed + 1
    BY <1>3, <1>6, <1>7, <1>10
  <2>4. Sectors(q, r + 1)'
    BY <1>1, <1>7, <1>8, <2>2, <2>3 DEF Sectors
  <2>5. Card2Writes'
    <3>1. Total' = Total /\ job.fed + 1 <= Total
      BY <1>1, <1>3 DEF Total
    <3>2. job.fed + 1 < Total => (card.left > 1) = TRUE /\ card.left - 1 = Total - (job.fed + 1)
      BY <1>3, <1>9
    <3>3. \E qq \in Nat, rr \in 0..(SectorWords - 1) : Sectors(qq, rr)'
      BY <2>3, <2>4
    <3>4. Holds(card'.written, job'.from, card'.at - 1)
      BY <1>1, <1>9, <2>2
    <3> QED BY <1>1, <2>2, <3>1, <3>2, <3>3, <3>4 DEF Card2Writes
  <2> QED BY <1>1, <1>2, <2>2, <2>5 DEF Card2State
<1>11. CASE r + 1 = SectorWords
  <2> DEFINE sector == [n \in at..(at + SectorWords - 1) |-> words[n - at + 1]]
  <2>1. card' = [card EXCEPT !.pos = 0, !.left = @ - 1, !.block = <<>>,
                             !.at = @ + SectorWords, !.written = Over(sector, @),
                             !.card2_active = card.left > 1]
    BY <1>5, <1>8, <1>9, <1>11 DEF WriteCardFifo, words
  <2> HIDE DEF sector
  <2>2. /\ DOMAIN card' = CardNames /\ card'.left = card.left - 1 /\ card'.block = <<>>
        /\ card'.at = at + SectorWords /\ card'.written = Over(sector, card.written)
        /\ card'.card2_active = (card.left > 1)
    BY <1>2, <1>5, <2>1 DEF CardNames
  <2>3. /\ RightMedium(card'.written) /\ Holds(card'.written, job.from, at + SectorWords - 1)
    <3>1. job.from \in Int /\ SectorWords \in Nat /\ words = DataFrom(SectorWords, at)
      BY <1>3, <1>8, <1>11
    <3>2. DOMAIN sector = at..(at + SectorWords - 1) /\ RightMedium(sector)
      <4>1. DOMAIN sector = at..(at + SectorWords - 1)
        BY DEF sector
      <4>2. ASSUME NEW n \in at..(at + SectorWords - 1)
            PROVE  sector[n] = Data(n)
        <5>1. n \in Int /\ n - at + 1 \in 1..SectorWords /\ at + (n - at + 1) - 1 = n
          BY <1>7, <3>1
        <5>2. words[n - at + 1] = Data(n)
          BY <3>1, <5>1 DEF DataFrom
        <5> QED BY <5>2 DEF sector
      <4> QED BY <4>1, <4>2 DEF RightMedium
    <3>3. /\ RightMedium(Over(sector, card.written))
          /\ Holds(Over(sector, card.written), job.from, at + SectorWords - 1)
      BY <1>2, <1>7, <1>9, <3>1, <3>2, MediumGrows
    <3> QED BY <2>2, <3>3
  <2>4. /\ q + 1 \in Nat /\ 0 \in 0..(SectorWords - 1)
        /\ SectorWords * (q + 1) = SectorWords * q + SectorWords
        /\ SectorWords * (q + 1) + 0 = job.fed + 1
        /\ at + SectorWords = job.from + SectorWords * (q + 1)
    BY <1>3, <1>6, <1>7, <1>11
  <2>5. Sectors(q + 1, 0)'
    BY <1>1, <2>2, <2>4, NothingIsFrom DEF Sectors
  <2>6. Card2Writes'
    <3>1. Total' = Total /\ job.fed + 1 <= Total
      BY <1>1, <1>3 DEF Total
    <3>2. job.fed + 1 < Total => (card.left > 1) = TRUE /\ card.left - 1 = Total - (job.fed + 1)
      BY <1>3, <1>9
    <3>3. \E qq \in Nat, rr \in 0..(SectorWords - 1) : Sectors(qq, rr)'
      BY <2>4, <2>5
    <3>4. Holds(card'.written, job'.from, card'.at - 1)
      BY <1>1, <1>3, <1>7, <2>2, <2>3
    <3> QED BY <1>1, <2>2, <3>1, <3>2, <3>3, <3>4 DEF Card2Writes
  <2> QED BY <1>1, <1>2, <2>2, <2>3, <2>6 DEF Card2State
<1> QED BY <1>10, <1>11

(* When all words have been written, the last sector was a whole one.       *)
LEMMA Card2IsWhole ==
    ASSUME Card2Writes, job.fed = Total, job.j.n \in Nat, job.from \in Nat
    PROVE  Holds(card.written, job.from, job.from + Total - 1)
<1>1. SectorWords \in Nat \ {0} /\ Total = SectorWords * job.j.n + 0 /\ 0 \in 0..(SectorWords - 1)
  BY CartridgeAssumption DEF Total
<1>2. PICK q \in Nat, r \in 0..(SectorWords - 1) : Sectors(q, r)
  BY DEF Card2Writes
<1>3. PICK n \in Nat : n = job.j.n
  OBVIOUS
<1>4. SectorWords * n + 0 = SectorWords * q + r
  BY <1>1, <1>2, <1>3 DEF Sectors
<1>5. n = q
  <2>1. n \in Int /\ q \in Int
    BY <1>2, <1>3
  <2>2. (SectorWords * n + 0) \div SectorWords = n
    BY <1>1, <2>1, DivUnique
  <2>3. (SectorWords * q + r) \div SectorWords = q
    BY <1>1, <2>1, DivUnique
  <2> QED BY <1>4, <2>2, <2>3
<1>6. card.at = job.from + Total
  BY <1>1, <1>2, <1>3, <1>5 DEF Sectors
<1>7. card.at - 1 = job.from + Total - 1
  BY <1>1, <1>3, <1>6
<1> QED BY <1>7 DEF Card2Writes

LEMMA Card2Driver ==
    ASSUME BusOk, Card2State, Card2Job
    PROVE  Card2State'
<1>1. /\ JobOk /\ MediaOk /\ job.from \in Nat /\ job.fed \in Nat /\ job.j.route = "card2"
      /\ job.j.n \in Nat /\ out' = out /\ NoDma'
  BY NoDmaStays, JobsAssumption DEF BusOk, JobOk, Card2Job, On, Card2State, Registers_
<1>2. /\ DOMAIN card = CardNames /\ RightMedium(card.written) /\ out = <<>>
      /\ "begin" \in job.todo => job.fed = 0 /\ "end" \in job.todo
      /\ "end" \in job.todo => "plain" \in job.todo
      /\ "begin" \notin job.todo /\ "end" \in job.todo => Card2Writes
      /\ "end" \notin job.todo => Holds(card.written, job.from, job.from + Total - 1)
  BY DEF Card2State
<1>3. SectorWords \in Nat \ {0} /\ Total \in Nat
  BY <1>1, CartridgeAssumption DEF Total
<1>4. ASSUME Step("begin", {}), Card2Begin(job.from, job.j.n)
      PROVE  Card2State'
  <2>1. /\ "begin" \in job.todo /\ job'.todo = job.todo \ {"begin"} /\ job'.j = job.j
        /\ job'.from = job.from /\ job'.fed = job.fed
    BY <1>1, <1>4, StepOk
  <2>2. job.fed = 0 /\ "end" \in job.todo /\ "plain" \in job.todo
    BY <1>2, <2>1
  <2>3. /\ DOMAIN card' = CardNames /\ card'.written = card.written /\ card'.left = Total
        /\ card'.card2_active = TRUE /\ card'.at = job.from /\ card'.block = <<>>
    BY <1>2, <1>4 DEF Card2Begin, Answer, CardNames, Total
  <2>4. Total' = Total /\ Total - 0 = Total
    BY <1>3, <2>1 DEF Total
  <2>5. Sectors(0, 0)'
    <3>1. /\ 0 = SectorWords * 0 + 0 /\ job.from = job.from + SectorWords * 0
      BY <1>1, <1>3
    <3> QED BY <2>1, <2>2, <2>3, <3>1, NothingIsFrom DEF Sectors
  <2>6. \E q \in Nat, r \in 0..(SectorWords - 1) : Sectors(q, r)'
    <3>1. 0 \in Nat /\ 0 \in 0..(SectorWords - 1)
      BY <1>3
    <3> QED BY <2>5, <3>1
  <2>7. Holds(card'.written, job'.from, card'.at - 1)
    <3>1. \A n : n \notin job.from..(job.from - 1)
      BY <1>1
    <3> QED BY <2>1, <2>3, <3>1 DEF Holds
  <2>8. Card2Writes'
    BY <1>3, <2>1, <2>2, <2>3, <2>4, <2>6, <2>7 DEF Card2Writes
  <2> QED BY <1>1, <1>2, <2>1, <2>2, <2>3, <2>8 DEF Card2State
<1>5. ASSUME job.fed = job.j.n * SectorWords, Step("end", {"begin"}), Card2Status
      PROVE  Card2State'
  <2>1. /\ "end" \in job.todo /\ "begin" \notin job.todo /\ job'.todo = job.todo \ {"end"}
        /\ job'.j = job.j /\ job'.from = job.from /\ job'.fed = job.fed
    BY <1>1, <1>5, StepOk
  <2>2. DOMAIN card' = CardNames /\ card'.written = card.written
    BY <1>1, <1>2, <1>5, CardWritesOk
  <2>3. Holds(card.written, job.from, job.from + Total - 1)
    BY <1>1, <1>2, <1>5, <2>1, Card2IsWhole DEF Total
  <2>4. Total' = Total
    BY <2>1 DEF Total
  <2> QED BY <1>1, <1>2, <2>1, <2>2, <2>3, <2>4 DEF Card2State
<1>6. ASSUME "begin" \notin job.todo, "end" \notin job.todo,
             DOMAIN card' = CardNames, card'.written = card.written,
             job'.j = job.j, job'.from = job.from, job'.todo \subseteq job.todo
      PROVE  Card2State'
  <2>1. Total' = Total
    BY <1>6 DEF Total
  <2>2. "end" \notin job'.todo /\ "begin" \notin job'.todo
    BY <1>6
  <2> QED BY <1>1, <1>2, <1>6, <2>1, <2>2 DEF Card2State
<1>7. ASSUME NEW name \in {"plain", "ntr"}, NEW first, Step(name, {first}),
             name = "plain" => first = "end", name = "ntr" => first = "plain",
             DOMAIN card' = DOMAIN card, card'.written = card.written
      PROVE  Card2State'
  <2>1. /\ job'.todo = job.todo \ {name} /\ first \notin job.todo /\ job'.j = job.j
        /\ job'.from = job.from
    BY <1>1, <1>7, StepOk
  <2> QED BY <1>2, <1>6, <1>7, <2>1
<1>8. ASSUME job' = job, "plain" \notin job.todo,
             DOMAIN card' = DOMAIN card, card'.written = card.written
      PROVE  Card2State'
  BY <1>2, <1>6, <1>8
<1>9. CASE /\ Step("plain", {"end"})
           /\ \E cmd \in {"x82", "x83", "xA2", "xC4"} : CtrCommand(cmd, FALSE)
  BY <1>1, <1>7, <1>9, CardWritesOk
<1>10. CASE Step("ntr", {"plain"}) /\ ~card.busy /\ \E cmd \in {"x90", "x3E"} : NtrCommand(cmd)
  BY <1>1, <1>7, <1>10, CardWritesOk
<1>11. CASE \/ "plain" \notin job.todo /\ card.busy /\ ReadCardFifo /\ job' = job
            \/ job.todo = {} /\ card.ntr_ready /\ ReadNtrFifo /\ job' = job
  BY <1>1, <1>8, <1>11, CardWritesOk
<1>12. CASE /\ "end" \in job.todo /\ "begin" \notin job.todo /\ job.fed < job.j.n * SectorWords
            /\ Fed(1) /\ WriteCardFifo(Data(job.from + job.fed))
  BY <1>1, <1>12, Card2Word DEF Total
<1> QED BY <1>4, <1>5, <1>9, <1>10, <1>11, <1>12 DEF Card2Job

LEMMA Card2Begins ==
    ASSUME BusOk', job'.j.route = "card2", job'.todo = job'.j.todo, job'.fed = 0,
           NoDma', out' = <<>>, DOMAIN card' = CardNames, RightMedium(card'.written)
    PROVE  Card2State'
<1>1. {"begin", "end", "plain"} \subseteq job'.todo
  BY JobsAssumption DEF BusOk, JobOk
<1> QED BY <1>1 DEF Card2State

LEMMA Card2Next ==
    ASSUME KeyInv, BusInv, Card2Inv, [Next]_vars
    PROVE  Card2Inv'
<1> SUFFICES ASSUME job.j.route = "card2"
             PROVE  Card2State'
  BY RouteStays DEF Card2Inv
<1>1. Card2State /\ BusOk /\ BusOk' /\ job'.j.route = "card2" /\ JobOk
  <2>1. job'.j.route = "card2" /\ BusInv'
    BY RouteStays, BusNext
  <2> QED BY <2>1 DEF Card2Inv, BusInv, BusOk
<1>2. CASE Reset
  <2>1. NoDma' /\ out' = <<>> /\ NextProgram /\ CartridgeReset
    BY <1>2, ResetNoDma DEF Reset
  <2>2. DOMAIN card' = CardNames /\ card'.written = card.written
    BY <1>1, <2>1 DEF CartridgeReset, Card2State, CardNames
  <2> QED BY <1>1, <2>1, <2>2, ProgramOk, Card2Begins DEF Card2State
<1>3. CASE Driver
  <2>1. NextJob \/ Card2Job
    BY <1>3, DriverIs
  <2>2. CASE NextJob
    <3>1. out' = <<>> /\ NextProgram /\ UNCHANGED <<chan, run, card>>
      BY <2>2 DEF NextJob, devices, cardVars
    <3>2. NoDma' /\ DOMAIN card' = CardNames /\ RightMedium(card'.written)
      BY <1>1, <3>1, NoDmaStays DEF Card2State
    <3> QED BY <1>1, <3>1, <3>2, ProgramOk, Card2Begins
  <2> QED BY <1>1, <2>1, <2>2, Card2Driver
<1>4. ASSUME NoDma', UNCHANGED <<card, out, job>>
      PROVE  Card2State'
  BY <1>1, <1>4 DEF Card2State, Card2Writes, Sectors, Total
<1>5. CASE Dma \/ Defer \/ Deliver \/ EndSlice
  BY <1>1, <1>4, <1>5, NoDmaKeeps DEF Card2State, devices, cardVars
<1>6. CASE UNCHANGED vars
  BY <1>1, <1>4, <1>6, NoDmaStays DEF Card2State, vars, dmaVars, devices, cardVars
<1> QED BY <1>2, <1>3, <1>5, <1>6 DEF Next

LEMMA Card2Init == Init => Card2Inv
<1> SUFFICES ASSUME Init, job.j.route = "card2" PROVE Card2State
  BY DEF Card2Inv
<1>1. NoDma /\ out = <<>> /\ JobOk /\ job.todo = job.j.todo /\ job.fed = 0
  BY InitNoDma, JobInitially
<1>2. {"begin", "end", "plain"} \subseteq job.todo
  BY <1>1, JobsAssumption DEF JobOk
<1>3. DOMAIN card = CardNames /\ card.written = <<>>
  BY DEF Init, CartridgeInit, CardNames
<1> QED BY <1>1, <1>2, <1>3, NothingIsOut DEF Card2State, RightMedium

LEMMA Card2Delivered ==
    ASSUME BusInv, Card2Inv, job.j.route = "card2"
    PROVE  DeliveredIsExpected
<1>1. Card2State /\ MediaOk /\ OnMedium(job.j) = Total /\ InMemory(job.j) = 0
  BY DEF Card2Inv, BusInv, BusOk, OnMedium, Total, InMemory
<1>2. out = <<>> /\ drive.written = <<>> /\ RightMedium(card.written)
  BY <1>1 DEF Card2State, MediaOk
<1>3. ASSUME run.phase = "cpu", Done
      PROVE  Holds(card.written, job.from, job.from + Total - 1)
  BY <1>1, <1>3 DEF Done, Card2Done, Card2State
<1> QED BY <1>1, <1>2, <1>3, NothingIsOut DEF DeliveredIsExpected, RightMedium, Holds

-----------------------------------------------------------------------------
(* The power of a message by a key.                                         *)

RsaNames == {"keyslot", "word_order", "msg", "msg_ctr", "keys"}
KeyNames == {"exp", "mod", "exp_ctr", "mod_ctr"}

(* A register of all its units. *)
Register(f) == f = [i \in 1..Cells |-> f[i]]

RsaTyped ==
    /\ DOMAIN rsa = RsaNames /\ rsa.keyslot \in KeySlots /\ DOMAIN rsa.keys = KeySlots
    /\ Register(rsa.msg)
    /\ \A s \in KeySlots :
           /\ DOMAIN rsa.keys[s] = KeyNames
           /\ Register(rsa.keys[s].exp) /\ Register(rsa.keys[s].mod)

(* Where unit i goes, and the counter after n units. *)
CellOf(order, i) == IF order THEN i + 1 ELSE Cells - i
CtrAfter(n) == IF n = Cells THEN 0 ELSE n

LEMMA WrapsOnce ==
    ASSUME NEW n \in 0..(Cells - 1)
    PROVE  Wrapped(CtrAfter(n)) = CtrAfter(n + 1)
<1>1. Cells \in Nat \ {0} /\ CtrAfter(n) = n /\ n \in Nat
  BY RsaAssumption DEF CtrAfter
<1>2. CASE n + 1 = Cells
  <2>1. n + 1 = Cells * 1 + 0 /\ 0 \in 0..(Cells - 1)
    BY <1>1, <1>2
  <2>2. (Cells * 1 + 0) % Cells = 0
    BY <1>1, <2>1, DivUnique
  <2> QED BY <1>1, <1>2, <2>1, <2>2 DEF Wrapped, CtrAfter
<1>3. CASE n + 1 # Cells
  <2>1. n + 1 = Cells * 0 + (n + 1) /\ n + 1 \in 0..(Cells - 1)
    BY <1>1, <1>3
  <2>2. (Cells * 0 + (n + 1)) % Cells = n + 1
    BY <1>1, <2>1, DivUnique
  <2> QED BY <1>1, <1>3, <2>1, <2>2 DEF Wrapped, CtrAfter
<1> QED BY <1>2, <1>3

LEMMA CellsDiffer ==
    ASSUME NEW order \in BOOLEAN, NEW n \in 0..(Cells - 1)
    PROVE  /\ CellOf(order, n) \in 1..Cells
           /\ \A i \in 0..(n - 1) : CellOf(order, i) # CellOf(order, n)
           /\ \A i \in 0..(n - 1) : CellOf(order, i) \in 1..Cells
BY RsaAssumption DEF CellOf

LEMMA RegisterIsSet ==
    ASSUME NEW f, Register(f), NEW at \in 1..Cells, NEW word
    PROVE  /\ Register([f EXCEPT ![at] = word]) /\ [f EXCEPT ![at] = word][at] = word
           /\ \A i \in 1..Cells : i # at => [f EXCEPT ![at] = word][i] = f[i]
<1>1. f = [i \in 1..Cells |-> f[i]]
  BY DEF Register
<1>2. [f EXCEPT ![at] = word] = [i \in 1..Cells |-> IF i = at THEN word ELSE f[i]]
  BY <1>1
<1> QED BY <1>2 DEF Register

(* The first n words of w are in their places. *)
Filled(f, order, n, w) == Register(f) /\ \A i \in 0..(n - 1) : f[CellOf(order, i)] = w[i]

LEMMA FilledGrows ==
    ASSUME NEW order \in BOOLEAN, NEW n \in 0..(Cells - 1), NEW w, NEW f,
           Filled(f, order, n, w)
    PROVE  Filled([f EXCEPT ![CellOf(order, n)] = w[n]], order, n + 1, w)
<1>1. PICK at \in 1..Cells : at = CellOf(order, n)
  BY CellsDiffer
<1> DEFINE g == [f EXCEPT ![at] = w[n]]
<1>2. Register(g) /\ g[at] = w[n] /\ \A i \in 1..Cells : i # at => g[i] = f[i]
  BY RegisterIsSet DEF Filled
<1> HIDE DEF g
<1>3. ASSUME NEW i \in 0..((n + 1) - 1)
      PROVE  g[CellOf(order, i)] = w[i]
  <2>1. CASE i = n
    BY <1>1, <1>2, <2>1
  <2>2. CASE i # n
    <3>1. i \in 0..(n - 1)
      BY <2>2, RsaAssumption
    <3>2. CellOf(order, i) \in 1..Cells /\ CellOf(order, i) # at
      BY <1>1, <3>1, CellsDiffer
    <3> QED BY <1>2, <3>1, <3>2 DEF Filled
  <2> QED BY <2>1, <2>2
<1>4. Filled(g, order, n + 1, w)
  BY <1>2, <1>3 DEF Filled
<1> QED BY <1>1, <1>4 DEF g

(* A key but for one of its registers. *)
SameMod(k, old) == k.mod = old.mod /\ k.mod_ctr = old.mod_ctr
SameExp(k, old) == k.exp = old.exp /\ k.exp_ctr = old.exp_ctr

(* All but a key. *)
OnlyKey(s) ==
    /\ DOMAIN rsa' = DOMAIN rsa /\ DOMAIN rsa'.keys = DOMAIN rsa.keys
    /\ rsa'.keyslot = rsa.keyslot /\ rsa'.word_order = rsa.word_order
    /\ rsa'.msg = rsa.msg /\ rsa'.msg_ctr = rsa.msg_ctr
    /\ \A t \in KeySlots : t # s => rsa'.keys[t] = rsa.keys[t]

LEMMA ExpIsWritten ==
    ASSUME RsaTyped, NEW s, s = rsa.keyslot, NEW n \in 0..(Cells - 1), NEW w,
           rsa.keys[s].exp_ctr = n, Filled(rsa.keys[s].exp, TRUE, n, w), WriteExp(w[n])
    PROVE  /\ OnlyKey(s) /\ RsaTyped' /\ SameMod(rsa'.keys[s], rsa.keys[s])
           /\ Filled(rsa'.keys[s].exp, TRUE, n + 1, w) /\ rsa'.keys[s].exp_ctr = CtrAfter(n + 1)
<1> DEFINE exp == [rsa.keys[s].exp EXCEPT ![CellOf(TRUE, n)] = w[n]]
           key == [rsa.keys[s] EXCEPT !.exp = exp, !.exp_ctr = CtrAfter(n + 1)]
           keys_ == [rsa.keys EXCEPT ![s] = key]
<1>1. s \in KeySlots /\ DOMAIN rsa = RsaNames /\ DOMAIN rsa.keys = KeySlots
      /\ DOMAIN rsa.keys[s] = KeyNames
  BY DEF RsaTyped
<1>2. rsa' = [rsa EXCEPT !.keys = keys_]
  <2>1. rsa' = [rsa EXCEPT !.keys[s].exp[n + 1] = w[n], !.keys[s].exp_ctr = Wrapped(@)]
    BY DEF WriteExp
  <2>2. n + 1 = CellOf(TRUE, n) /\ Wrapped(n) = CtrAfter(n + 1)
    <3>1. CtrAfter(n) = n
      BY RsaAssumption DEF CtrAfter
    <3> QED BY <3>1, WrapsOnce DEF CellOf
  <2> DEFINE once == [rsa.keys[s] EXCEPT !.exp = exp]
             first == [rsa EXCEPT !.keys = [rsa.keys EXCEPT ![s] = once]]
  <2>3. rsa' = [first EXCEPT !.keys[s].exp_ctr = Wrapped(@)]
    BY <1>1, <2>1, <2>2 DEF RsaNames, KeyNames
  <2>4. DOMAIN once = KeyNames /\ once.exp_ctr = n
    BY <1>1 DEF KeyNames
  <2>5. [once EXCEPT !.exp_ctr = CtrAfter(n + 1)] = key
    BY <1>1 DEF KeyNames
  <2> HIDE DEF once, key
  <2>6. first.keys = [rsa.keys EXCEPT ![s] = once] /\ first.keys[s] = once
    BY <1>1 DEF RsaNames
  <2>7. rsa' = [first EXCEPT !.keys = [first.keys EXCEPT ![s] = key]]
    BY <2>2, <2>3, <2>4, <2>5, <2>6
  <2>8. [first.keys EXCEPT ![s] = key] = keys_
    BY <1>1, <2>6
  <2> HIDE DEF keys_
  <2> QED BY <1>1, <2>7, <2>8 DEF RsaNames
<1>3. Filled(exp, TRUE, n + 1, w)
  BY FilledGrows
<1> HIDE DEF exp
<1>4. /\ DOMAIN key = KeyNames /\ key.exp = exp /\ key.exp_ctr = CtrAfter(n + 1)
      /\ SameMod(key, rsa.keys[s])
  BY <1>1 DEF KeyNames, SameMod
<1> HIDE DEF key
<1>5. /\ DOMAIN keys_ = KeySlots /\ keys_[s] = key
      /\ \A t \in KeySlots : t # s => keys_[t] = rsa.keys[t]
  BY <1>1
<1> HIDE DEF keys_
<1>6. /\ DOMAIN rsa' = RsaNames /\ rsa'.keys = keys_ /\ rsa'.keyslot = rsa.keyslot
      /\ rsa'.word_order = rsa.word_order /\ rsa'.msg = rsa.msg /\ rsa'.msg_ctr = rsa.msg_ctr
  BY <1>1, <1>2 DEF RsaNames
<1>7. OnlyKey(s)
  BY <1>1, <1>5, <1>6 DEF OnlyKey
<1>8. RsaTyped'
  BY <1>3, <1>4, <1>5, <1>6 DEF RsaTyped, SameMod, Filled
<1> QED BY <1>3, <1>4, <1>5, <1>6, <1>7, <1>8

LEMMA ModIsWritten ==
    ASSUME RsaTyped, NEW s, s = rsa.keyslot, NEW n \in 0..(Cells - 1), NEW w,
           NEW order \in BOOLEAN, order = rsa.word_order,
           rsa.keys[s].mod_ctr = n, Filled(rsa.keys[s].mod, order, n, w), WriteMod(w[n])
    PROVE  /\ OnlyKey(s) /\ RsaTyped' /\ SameExp(rsa'.keys[s], rsa.keys[s])
           /\ Filled(rsa'.keys[s].mod, order, n + 1, w) /\ rsa'.keys[s].mod_ctr = CtrAfter(n + 1)
<1> DEFINE mod == [rsa.keys[s].mod EXCEPT ![CellOf(order, n)] = w[n]]
           key == [rsa.keys[s] EXCEPT !.mod = mod, !.mod_ctr = CtrAfter(n + 1)]
           keys_ == [rsa.keys EXCEPT ![s] = key]
<1>1. s \in KeySlots /\ DOMAIN rsa = RsaNames /\ DOMAIN rsa.keys = KeySlots
      /\ DOMAIN rsa.keys[s] = KeyNames
  BY DEF RsaTyped
<1>2. rsa' = [rsa EXCEPT !.keys = keys_]
  <2>1. rsa' = [rsa EXCEPT !.keys[s].mod[CellOf(order, n)] = w[n], !.keys[s].mod_ctr = Wrapped(@)]
    BY DEF WriteMod, Cell, CellOf
  <2>2. Wrapped(n) = CtrAfter(n + 1)
    <3>1. CtrAfter(n) = n
      BY RsaAssumption DEF CtrAfter
    <3> QED BY <3>1, WrapsOnce
  <2> DEFINE once == [rsa.keys[s] EXCEPT !.mod = mod]
             first == [rsa EXCEPT !.keys = [rsa.keys EXCEPT ![s] = once]]
  <2>3. rsa' = [first EXCEPT !.keys[s].mod_ctr = Wrapped(@)]
    BY <1>1, <2>1, <2>2 DEF RsaNames, KeyNames
  <2>4. DOMAIN once = KeyNames /\ once.mod_ctr = n
    BY <1>1 DEF KeyNames
  <2>5. [once EXCEPT !.mod_ctr = CtrAfter(n + 1)] = key
    BY <1>1 DEF KeyNames
  <2> HIDE DEF once, key
  <2>6. first.keys = [rsa.keys EXCEPT ![s] = once] /\ first.keys[s] = once
    BY <1>1 DEF RsaNames
  <2>7. rsa' = [first EXCEPT !.keys = [first.keys EXCEPT ![s] = key]]
    BY <2>2, <2>3, <2>4, <2>5, <2>6
  <2>8. [first.keys EXCEPT ![s] = key] = keys_
    BY <1>1, <2>6
  <2> HIDE DEF keys_
  <2> QED BY <1>1, <2>7, <2>8 DEF RsaNames
<1>3. Filled(mod, order, n + 1, w)
  BY FilledGrows
<1> HIDE DEF mod
<1>4. /\ DOMAIN key = KeyNames /\ key.mod = mod /\ key.mod_ctr = CtrAfter(n + 1)
      /\ SameExp(key, rsa.keys[s])
  BY <1>1 DEF KeyNames, SameExp
<1> HIDE DEF key
<1>5. /\ DOMAIN keys_ = KeySlots /\ keys_[s] = key
      /\ \A t \in KeySlots : t # s => keys_[t] = rsa.keys[t]
  BY <1>1
<1> HIDE DEF keys_
<1>6. /\ DOMAIN rsa' = RsaNames /\ rsa'.keys = keys_ /\ rsa'.keyslot = rsa.keyslot
      /\ rsa'.word_order = rsa.word_order /\ rsa'.msg = rsa.msg /\ rsa'.msg_ctr = rsa.msg_ctr
  BY <1>1, <1>2 DEF RsaNames
<1>7. OnlyKey(s)
  BY <1>1, <1>5, <1>6 DEF OnlyKey
<1>8. RsaTyped'
  BY <1>3, <1>4, <1>5, <1>6 DEF RsaTyped, SameExp, Filled
<1> QED BY <1>3, <1>4, <1>5, <1>6, <1>7, <1>8

LEMMA MsgIsWritten ==
    ASSUME RsaTyped, NEW n \in 0..(Cells - 1), NEW w,
           NEW order \in BOOLEAN, order = rsa.word_order,
           rsa.msg_ctr = n, Filled(rsa.msg, order, n, w), WriteMsg(w[n])
    PROVE  /\ RsaTyped' /\ rsa'.keyslot = rsa.keyslot /\ rsa'.word_order = rsa.word_order
           /\ rsa'.keys = rsa.keys /\ rsa'.msg_ctr = CtrAfter(n + 1)
           /\ Filled(rsa'.msg, order, n + 1, w)
<1> DEFINE msg == [rsa.msg EXCEPT ![CellOf(order, n)] = w[n]]
<1>1. DOMAIN rsa = RsaNames
  BY DEF RsaTyped
<1>2. rsa' = [rsa EXCEPT !.msg = msg, !.msg_ctr = CtrAfter(n + 1)]
  <2>1. rsa' = [rsa EXCEPT !.msg[CellOf(order, n)] = w[n], !.msg_ctr = Wrapped(@)]
    BY DEF WriteMsg, Cell, CellOf
  <2>2. Wrapped(n) = CtrAfter(n + 1)
    <3>1. CtrAfter(n) = n
      BY RsaAssumption DEF CtrAfter
    <3> QED BY <3>1, WrapsOnce
  <2> QED BY <1>1, <2>1, <2>2 DEF RsaNames
<1>3. Filled(msg, order, n + 1, w)
  BY FilledGrows
<1> HIDE DEF msg
<1>4. /\ DOMAIN rsa' = RsaNames /\ rsa'.keyslot = rsa.keyslot
      /\ rsa'.word_order = rsa.word_order
      /\ rsa'.keys = rsa.keys /\ rsa'.msg_ctr = CtrAfter(n + 1) /\ rsa'.msg = msg
  BY <1>1, <1>2 DEF RsaNames
<1>5. RsaTyped'
  BY <1>3, <1>4 DEF RsaTyped, Filled
<1> QED BY <1>3, <1>4, <1>5

LEMMA CntIsWritten ==
    ASSUME RsaTyped, NEW slot \in KeySlots, NEW order, NEW go \in BOOLEAN,
           WriteRsaCnt(slot, order, go)
    PROVE  /\ RsaTyped' /\ rsa'.keyslot = slot /\ rsa'.word_order = order
           /\ rsa'.keys = rsa.keys /\ rsa'.msg_ctr = rsa.msg_ctr
           /\ ~go => rsa'.msg = rsa.msg /\ IF_' = IF_
           /\ go => rsa'.msg = Power(rsa.msg, rsa.keys[slot]) /\ 22 \in IF_'
<1> DEFINE msg == IF go THEN Power(rsa.msg, rsa.keys[slot]) ELSE rsa.msg
<1>1. DOMAIN rsa = RsaNames
  BY DEF RsaTyped
<1>2. rsa' = [rsa EXCEPT !.keyslot = slot, !.word_order = order, !.msg = msg]
  BY <1>1 DEF WriteRsaCnt, RsaNames
<1>3. Register(msg)
  <2>1. Register(Power(rsa.msg, rsa.keys[slot]))
    BY DEF Register, Power
  <2> QED BY <2>1 DEF RsaTyped
<1> HIDE DEF msg
<1>4. /\ DOMAIN rsa' = RsaNames /\ rsa'.keyslot = slot /\ rsa'.word_order = order
      /\ rsa'.keys = rsa.keys /\ rsa'.msg_ctr = rsa.msg_ctr /\ rsa'.msg = msg
  BY <1>1, <1>2 DEF RsaNames
<1>5. RsaTyped'
  BY <1>3, <1>4 DEF RsaTyped
<1>6. IF_' = IF go THEN IF_ \union {22} ELSE IF_
  BY DEF WriteRsaCnt
<1> QED BY <1>4, <1>5, <1>6 DEF msg


(* The words of the key and the message, as they are written. *)
ExpWords(from) == [i \in 0..(Cells - 1) |-> Data(from + 2 * i)]
ModWords(from) == [i \in 0..(Cells - 1) |-> Data(from + (2 * i + 1))]
MsgWords(from) == [i \in 0..(Cells - 1) |-> Data(from + (2 * Cells + i))]

KeyIs(k, a, b, j, from) ==
    /\ k.exp_ctr = CtrAfter(a) /\ Filled(k.exp, TRUE, a, ExpWords(from))
    /\ k.mod_ctr = CtrAfter(b) /\ Filled(k.mod, j.keyorder, b, ModWords(from))

AtRest(k) == k.exp_ctr = 0 /\ k.mod_ctr = 0

OthersAtRest == \A s \in KeySlots : s # job.j.slot => AtRest(rsa.keys[s])

RsaJobIs(j) ==
    /\ j.slot \in KeySlots /\ j.keyorder \in BOOLEAN /\ j.order \in BOOLEAN
    /\ {"slot", "order", "go"} \subseteq j.todo

(* The exponent and the modulus are written in turn. *)
KeyPhase ==
    /\ rsa.keyslot = job.j.slot /\ rsa.word_order = job.j.keyorder
    /\ rsa.msg_ctr = 0 /\ OthersAtRest
    /\ \E a, b \in 0..Cells :
           /\ (a = b \/ a = b + 1) /\ job.fed = a + b
           /\ KeyIs(rsa.keys[job.j.slot], a, b, job.j, job.from)

MsgPhase ==
    /\ rsa.keyslot = job.j.slot /\ rsa.word_order = job.j.order
    /\ OthersAtRest /\ KeyIs(rsa.keys[job.j.slot], Cells, Cells, job.j, job.from)
    /\ \E n \in 0..Cells :
           /\ job.fed = 2 * Cells + n /\ rsa.msg_ctr = CtrAfter(n)
           /\ Filled(rsa.msg, job.j.order, n, MsgWords(job.from))

Raised ==
    /\ job.fed >= 3 * Cells /\ rsa.word_order = job.j.order
    /\ (\A s \in KeySlots : AtRest(rsa.keys[s])) /\ rsa.msg_ctr = 0
    /\ \A n \in 0..(Cells - 1) : rsa.msg[CellOf(job.j.order, n)] = RsaExpected(job.from + n)
    /\ \A n \in DOMAIN out : out[n] = RsaExpected(n)

RsaState ==
    /\ NoDma /\ RsaTyped
    /\ "slot" \in job.todo =>
           /\ job.fed = 0 /\ "order" \in job.todo
           /\ rsa.msg_ctr = 0 /\ \A s \in KeySlots : AtRest(rsa.keys[s])
    /\ "order" \in job.todo => "go" \in job.todo
    /\ "slot" \notin job.todo /\ "order" \in job.todo => KeyPhase
    /\ "order" \notin job.todo /\ "go" \in job.todo => MsgPhase
    /\ "go" \in job.todo => out = <<>> /\ 22 \notin IF_
    /\ "go" \notin job.todo => Raised

RsaInv == job.j.route = "rsa" => RsaState

Turned(order, i) == IF order THEN i - 1 ELSE Cells - i
WholeOf(order, w) == [i \in 1..Cells |-> w[Turned(order, i)]]

LEMMA WholeIs ==
    ASSUME NEW order \in BOOLEAN, NEW f, NEW w, Filled(f, order, Cells, w)
    PROVE  f = WholeOf(order, w)
<1>1. ASSUME NEW i \in 1..Cells
      PROVE  f[i] = w[Turned(order, i)]
  <2>1. Turned(order, i) \in 0..(Cells - 1) /\ CellOf(order, Turned(order, i)) = i
    BY RsaAssumption DEF Turned, CellOf
  <2> QED BY <2>1 DEF Filled
<1> QED BY <1>1 DEF Filled, Register, WholeOf

LEMMA RsaExpectedIs ==
    ASSUME NEW n, job.from \in Nat, job.j.order \in BOOLEAN, job.j.keyorder \in BOOLEAN
    PROVE  RsaExpected(n) = [power |-> WholeOf(job.j.order, MsgWords(job.from)),
                             exp |-> WholeOf(TRUE, ExpWords(job.from)),
                             mod |-> WholeOf(job.j.keyorder, ModWords(job.from)),
                             at |-> Turned(job.j.order, n - job.from + 1) + 1]
<1> DEFINE exp == [i \in 1..Cells |-> Data(job.from + 2 * (i - 1))]
           mod == [i \in 1..Cells |-> Data(job.from + (2 * Turned(job.j.keyorder, i) + 1))]
           msg == [i \in 1..Cells |-> Data(job.from + (2 * Cells + Turned(job.j.order, i)))]
<1>1. RsaExpected(n) = [power |-> msg, exp |-> exp, mod |-> mod,
                        at |-> Turned(job.j.order, n - job.from + 1) + 1]
  BY DEF RsaExpected, Turned
<1>2. ASSUME NEW order \in BOOLEAN, NEW i \in 1..Cells
      PROVE  Turned(order, i) \in 0..(Cells - 1)
  BY RsaAssumption DEF Turned
<1>3. msg = WholeOf(job.j.order, MsgWords(job.from))
  BY <1>2 DEF WholeOf, MsgWords
<1>4. mod = WholeOf(job.j.keyorder, ModWords(job.from))
  BY <1>2 DEF WholeOf, ModWords
<1>5. exp = WholeOf(TRUE, ExpWords(job.from))
  <2>1. \A i \in 1..Cells : i - 1 \in 0..(Cells - 1) /\ Turned(TRUE, i) = i - 1
    BY RsaAssumption DEF Turned
  <2> QED BY <2>1 DEF WholeOf, ExpWords
<1> HIDE DEF msg, mod, exp
<1> QED BY <1>1, <1>3, <1>4, <1>5

(* What has been written is raised to the power that is expected. *)
LEMMA PowerIs ==
    ASSUME RsaJobIs(job.j), job.from \in Nat, NEW msg, NEW k,
           Filled(msg, job.j.order, Cells, MsgWords(job.from)),
           KeyIs(k, Cells, Cells, job.j, job.from), NEW n \in 0..(Cells - 1)
    PROVE  Power(msg, k)[CellOf(job.j.order, n)] = RsaExpected(job.from + n)
<1>1. PICK m \in Int : m = job.from + n
  OBVIOUS
<1>2. /\ job.j.order \in BOOLEAN /\ job.j.keyorder \in BOOLEAN /\ TRUE \in BOOLEAN
      /\ Cells \in Nat \ {0}
  BY RsaAssumption DEF RsaJobIs
<1>3. PICK at \in 1..Cells : at = CellOf(job.j.order, n)
  BY <1>2, CellsDiffer
<1>4. at = Turned(job.j.order, m - job.from + 1) + 1
  BY <1>1, <1>2, <1>3 DEF Turned, CellOf
<1>5. /\ msg = WholeOf(job.j.order, MsgWords(job.from))
      /\ k.exp = WholeOf(TRUE, ExpWords(job.from))
      /\ k.mod = WholeOf(job.j.keyorder, ModWords(job.from))
  BY <1>2, WholeIs DEF KeyIs
<1>6. Power(msg, k)[at] = [power |-> msg, exp |-> k.exp, mod |-> k.mod, at |-> at]
  BY DEF Power
<1>7. RsaExpected(m) = [power |-> msg, exp |-> k.exp, mod |-> k.mod, at |-> at]
  BY <1>2, <1>4, <1>5, RsaExpectedIs
<1> QED BY <1>1, <1>3, <1>6, <1>7

LEMMA RsaJobParameters ==
    ASSUME JobOk, job.j.route = "rsa"
    PROVE  RsaJobIs(job.j) /\ job.from \in Nat /\ job.fed \in Nat
BY JobsAssumption DEF RsaJobIs, JobOk

(* The slot and the order of the key are chosen. *)
LEMMA RsaSlot ==
    ASSUME JobOk, RsaState, RsaJobIs(job.j), NoDma', out' = out, job.from \in Nat,
           Step("slot", {}), WriteRsaCnt(job.j.slot, job.j.keyorder, FALSE)
    PROVE  RsaState'
<1>1. /\ "slot" \in job.todo /\ job'.todo = job.todo \ {"slot"} /\ job'.j = job.j
      /\ job'.from = job.from /\ job'.fed = job.fed
  BY StepOk
<1>2. /\ job.fed = 0 /\ "order" \in job.todo /\ "go" \in job.todo
      /\ rsa.msg_ctr = 0 /\ (\A s \in KeySlots : AtRest(rsa.keys[s]))
      /\ out = <<>> /\ 22 \notin IF_ /\ RsaTyped
  BY <1>1 DEF RsaState
<1>3. /\ RsaTyped' /\ rsa'.keyslot = job.j.slot /\ rsa'.word_order = job.j.keyorder
      /\ rsa'.keys = rsa.keys /\ rsa'.msg_ctr = rsa.msg_ctr /\ IF_' = IF_
  BY <1>2, CntIsWritten DEF RsaJobIs
<1>4. KeyIs(rsa.keys[job.j.slot], 0, 0, job.j, job.from)
  <2>1. AtRest(rsa.keys[job.j.slot]) /\ (\A i : i \notin 0..(0 - 1)) /\ CtrAfter(0) = 0
    BY <1>2 DEF RsaJobIs, CtrAfter
  <2>2. Register(rsa.keys[job.j.slot].exp) /\ Register(rsa.keys[job.j.slot].mod)
    BY <1>2 DEF RsaJobIs, RsaTyped
  <2> QED BY <2>1, <2>2 DEF KeyIs, Filled, AtRest
<1>5. 0 \in 0..Cells /\ 0 = 0 + 0
  BY RsaAssumption
<1>6. KeyPhase'
  BY <1>1, <1>2, <1>3, <1>4, <1>5 DEF KeyPhase, OthersAtRest
<1> QED BY <1>1, <1>2, <1>3, <1>6 DEF RsaState

(* A unit of the key. *)
LEMMA RsaKey ==
    ASSUME JobOk, RsaState, RsaJobIs(job.j), NoDma', out' = out, job.from \in Nat,
           job.fed \in Nat, "slot" \notin job.todo, "order" \in job.todo,
           job.fed < 2 * Cells, Fed(1),
           IF job.fed % 2 = 0 THEN WriteExp(Data(job.from + job.fed))
           ELSE WriteMod(Data(job.from + job.fed))
    PROVE  RsaState'
<1>1. /\ job'.todo = job.todo /\ job'.j = job.j
      /\ job'.from = job.from /\ job'.fed = job.fed + 1
  BY FedOk
<1>2. /\ "go" \in job.todo /\ out = <<>> /\ 22 \notin IF_ /\ RsaTyped /\ KeyPhase
  BY DEF RsaState
<1>3. PICK s \in KeySlots : s = job.j.slot
  BY DEF RsaJobIs
<1>4. /\ rsa.keyslot = s /\ rsa.word_order = job.j.keyorder
      /\ rsa.msg_ctr = 0 /\ OthersAtRest /\ Cells \in Nat \ {0}
      /\ job.j.keyorder \in BOOLEAN
  BY <1>2, <1>3, RsaAssumption DEF KeyPhase, RsaJobIs
<1>5. PICK a, b \in 0..Cells :
          /\ (a = b \/ a = b + 1) /\ job.fed = a + b
          /\ KeyIs(rsa.keys[s], a, b, job.j, job.from)
  BY <1>2, <1>3 DEF KeyPhase
<1>6. /\ rsa.keys[s].exp_ctr = CtrAfter(a)
      /\ Filled(rsa.keys[s].exp, TRUE, a, ExpWords(job.from))
      /\ rsa.keys[s].mod_ctr = CtrAfter(b)
      /\ Filled(rsa.keys[s].mod, job.j.keyorder, b, ModWords(job.from))
  BY <1>5 DEF KeyIs
<1>7. ASSUME OnlyKey(s), RsaTyped', IF_' = IF_, NEW c \in 0..Cells, NEW d \in 0..Cells,
             c = d \/ c = d + 1, job.fed + 1 = c + d,
             KeyIs(rsa'.keys[s], c, d, job.j, job.from)
      PROVE  RsaState'
  <2>1. OthersAtRest'
    BY <1>1, <1>3, <1>4, <1>7 DEF OthersAtRest, OnlyKey
  <2>2. rsa'.keyslot = s /\ rsa'.word_order = job.j.keyorder /\ rsa'.msg_ctr = 0
    BY <1>4, <1>7 DEF OnlyKey
  <2>3. KeyPhase'
    BY <1>1, <1>3, <1>7, <2>1, <2>2 DEF KeyPhase
  <2> QED BY <1>1, <1>2, <1>7, <2>3 DEF RsaState
<1>8. CASE job.fed % 2 = 0
  <2>1. a = b /\ a \in 0..(Cells - 1) /\ a + 1 \in 0..Cells /\ job.fed + 1 = (a + 1) + b
        /\ a + 1 = b + 1
    BY <1>4, <1>5, <1>8
  <2>2. CtrAfter(a) = a
    BY <2>1, <1>4 DEF CtrAfter
  <2>3. ExpWords(job.from)[a] = Data(job.from + job.fed)
    <3>1. job.from + 2 * a = job.from + job.fed
      BY <1>4, <1>5, <2>1
    <3> QED BY <2>1, <3>1 DEF ExpWords
  <2>4. WriteExp(ExpWords(job.from)[a])
    BY <1>8, <2>3
  <2>5. /\ OnlyKey(s) /\ RsaTyped' /\ SameMod(rsa'.keys[s], rsa.keys[s])
        /\ Filled(rsa'.keys[s].exp, TRUE, a + 1, ExpWords(job.from))
        /\ rsa'.keys[s].exp_ctr = CtrAfter(a + 1)
    <3>1. PICK w : w = ExpWords(job.from)
      OBVIOUS
    <3>2. Filled(rsa.keys[s].exp, TRUE, a, w) /\ WriteExp(w[a]) /\ rsa.keys[s].exp_ctr = a
      BY <1>6, <2>2, <2>4, <3>1
    <3>3. /\ OnlyKey(s) /\ RsaTyped' /\ SameMod(rsa'.keys[s], rsa.keys[s])
          /\ Filled(rsa'.keys[s].exp, TRUE, a + 1, w)
          /\ rsa'.keys[s].exp_ctr = CtrAfter(a + 1)
      BY <1>2, <1>4, <2>1, <3>2, ExpIsWritten
    <3> QED BY <3>1, <3>3
  <2>6. KeyIs(rsa'.keys[s], a + 1, b, job.j, job.from)
    BY <1>6, <2>5 DEF KeyIs, SameMod
  <2>7. IF_' = IF_
    BY <2>4 DEF WriteExp
  <2> QED BY <1>7, <2>1, <2>5, <2>6, <2>7
<1>9. CASE job.fed % 2 # 0
  <2>1. a = b + 1 /\ b \in 0..(Cells - 1) /\ b + 1 \in 0..Cells /\ job.fed + 1 = a + (b + 1)
    BY <1>4, <1>5, <1>9
  <2>2. CtrAfter(b) = b
    BY <2>1, <1>4 DEF CtrAfter
  <2>3. ModWords(job.from)[b] = Data(job.from + job.fed)
    <3>1. job.from + (2 * b + 1) = job.from + job.fed
      BY <1>4, <1>5, <2>1
    <3> QED BY <2>1, <3>1 DEF ModWords
  <2>4. WriteMod(ModWords(job.from)[b])
    BY <1>9, <2>3
  <2>5. /\ OnlyKey(s) /\ RsaTyped' /\ SameExp(rsa'.keys[s], rsa.keys[s])
        /\ Filled(rsa'.keys[s].mod, job.j.keyorder, b + 1, ModWords(job.from))
        /\ rsa'.keys[s].mod_ctr = CtrAfter(b + 1)
    BY <1>2, <1>4, <1>6, <2>1, <2>2, <2>4, ModIsWritten
  <2>6. KeyIs(rsa'.keys[s], a, b + 1, job.j, job.from)
    BY <1>6, <2>5 DEF KeyIs, SameExp
  <2>7. IF_' = IF_
    BY <2>4 DEF WriteMod
  <2> QED BY <1>7, <2>1, <2>5, <2>6, <2>7
<1> QED BY <1>8, <1>9

(* The order of the message is chosen. *)
LEMMA RsaOrder ==
    ASSUME JobOk, RsaState, RsaJobIs(job.j), NoDma', out' = out, job.from \in Nat,
           job.fed = 2 * Cells, Step("order", {"slot"}),
           WriteRsaCnt(job.j.slot, job.j.order, FALSE)
    PROVE  RsaState'
<1>1. /\ "order" \in job.todo /\ "slot" \notin job.todo /\ job'.todo = job.todo \ {"order"}
      /\ job'.j = job.j /\ job'.from = job.from /\ job'.fed = job.fed
  BY StepOk
<1>2. /\ "go" \in job.todo /\ out = <<>> /\ 22 \notin IF_ /\ RsaTyped /\ KeyPhase
  BY <1>1 DEF RsaState
<1>3. /\ RsaTyped' /\ rsa'.keyslot = job.j.slot /\ rsa'.word_order = job.j.order
      /\ rsa'.keys = rsa.keys /\ rsa'.msg_ctr = rsa.msg_ctr /\ IF_' = IF_
  BY <1>2, CntIsWritten DEF RsaJobIs
<1>4. KeyIs(rsa.keys[job.j.slot], Cells, Cells, job.j, job.from) /\ OthersAtRest
  <2>1. PICK a, b \in 0..Cells : /\ (a = b \/ a = b + 1) /\ job.fed = a + b
                                 /\ KeyIs(rsa.keys[job.j.slot], a, b, job.j, job.from)
    BY <1>2 DEF KeyPhase
  <2>2. a = Cells /\ b = Cells
    <3>1. a + b = 2 * Cells
      BY <2>1
    <3>2. a <= Cells /\ b <= Cells /\ a \in Int /\ b \in Int /\ Cells \in Int
      BY RsaAssumption
    <3> QED BY <3>1, <3>2
  <2> QED BY <1>2, <2>1, <2>2 DEF KeyPhase
<1>5. /\ 0 \in 0..Cells /\ job.fed = 2 * Cells + 0 /\ rsa.msg_ctr = CtrAfter(0)
      /\ Filled(rsa'.msg, job.j.order, 0, MsgWords(job.from))
  <2>1. rsa.msg_ctr = 0 /\ CtrAfter(0) = 0
    BY <1>2 DEF KeyPhase, CtrAfter
  <2>2. Register(rsa'.msg) /\ (\A i : i \notin 0..(0 - 1))
    BY <1>3 DEF RsaTyped
  <2> QED BY <2>1, <2>2, RsaAssumption DEF Filled
<1>6. MsgPhase'
  BY <1>1, <1>3, <1>4, <1>5 DEF MsgPhase, OthersAtRest
<1> QED BY <1>1, <1>2, <1>3, <1>6 DEF RsaState

(* A unit of the message. *)
LEMMA RsaMsg ==
    ASSUME JobOk, RsaState, RsaJobIs(job.j), NoDma', out' = out, job.from \in Nat,
           "order" \notin job.todo, job.fed < 3 * Cells, job.fed \in Nat, Fed(1),
           WriteMsg(Data(job.from + job.fed))
    PROVE  RsaState'
<1>1. /\ job'.todo = job.todo /\ job'.j = job.j
      /\ job'.from = job.from /\ job'.fed = job.fed + 1
  BY FedOk
<1>2. Cells \in Nat \ {0} /\ job.j.order \in BOOLEAN
  BY RsaAssumption DEF RsaJobIs
<1>3. "go" \in job.todo /\ "slot" \notin job.todo
  <2>1. "go" \notin job.todo => FALSE
    BY <1>2 DEF RsaState, Raised
  <2> QED BY <2>1 DEF RsaState
<1>4. /\ out = <<>> /\ 22 \notin IF_ /\ RsaTyped /\ MsgPhase
  BY <1>3 DEF RsaState
<1>5. PICK n \in 0..Cells : /\ job.fed = 2 * Cells + n /\ rsa.msg_ctr = CtrAfter(n)
                            /\ Filled(rsa.msg, job.j.order, n, MsgWords(job.from))
  BY <1>4 DEF MsgPhase
<1>6. n \in 0..(Cells - 1) /\ n + 1 \in 0..Cells /\ job.fed + 1 = 2 * Cells + (n + 1)
  BY <1>2, <1>5
<1>7. rsa.msg_ctr = n
  BY <1>2, <1>5, <1>6 DEF CtrAfter
<1>8. MsgWords(job.from)[n] = Data(job.from + job.fed)
  BY <1>5, <1>6 DEF MsgWords
<1>9. PICK w : w = MsgWords(job.from)
  OBVIOUS
<1>10. WriteMsg(w[n]) /\ Filled(rsa.msg, job.j.order, n, w) /\ rsa.word_order = job.j.order
  BY <1>4, <1>5, <1>8, <1>9 DEF MsgPhase
<1>11. /\ RsaTyped' /\ rsa'.keyslot = rsa.keyslot /\ rsa'.word_order = rsa.word_order
       /\ rsa'.keys = rsa.keys /\ rsa'.msg_ctr = CtrAfter(n + 1)
       /\ Filled(rsa'.msg, job.j.order, n + 1, w)
  BY <1>2, <1>4, <1>6, <1>7, <1>10, MsgIsWritten
<1>12. MsgPhase'
  BY <1>1, <1>4, <1>6, <1>9, <1>11 DEF MsgPhase, OthersAtRest
<1>13. IF_' = IF_
  BY DEF WriteMsg
<1> QED BY <1>1, <1>3, <1>4, <1>11, <1>12, <1>13 DEF RsaState

(* The operation. *)
LEMMA RsaGo ==
    ASSUME JobOk, RsaState, RsaJobIs(job.j), NoDma', out' = out, job.from \in Nat,
           job.fed = 3 * Cells, Step("go", {"order"}),
           WriteRsaCnt(job.j.slot, job.j.order, TRUE)
    PROVE  RsaState'
<1>1. /\ "go" \in job.todo /\ "order" \notin job.todo /\ job'.todo = job.todo \ {"go"}
      /\ job'.j = job.j /\ job'.from = job.from /\ job'.fed = job.fed
  BY StepOk
<1>2. /\ "slot" \notin job.todo /\ out = <<>> /\ RsaTyped /\ MsgPhase
  BY <1>1 DEF RsaState
<1>3. /\ RsaTyped' /\ rsa'.word_order = job.j.order
      /\ rsa'.keys = rsa.keys /\ rsa'.msg_ctr = rsa.msg_ctr
      /\ rsa'.msg = Power(rsa.msg, rsa.keys[job.j.slot])
  BY <1>2, CntIsWritten DEF RsaJobIs
<1>4. Cells \in Nat \ {0} /\ CtrAfter(Cells) = 0
  BY RsaAssumption DEF CtrAfter
<1>5. PICK n \in 0..Cells : /\ job.fed = 2 * Cells + n /\ rsa.msg_ctr = CtrAfter(n)
                            /\ Filled(rsa.msg, job.j.order, n, MsgWords(job.from))
  BY <1>2 DEF MsgPhase
<1>6. n = Cells
  BY <1>4, <1>5
<1>7. KeyIs(rsa.keys[job.j.slot], Cells, Cells, job.j, job.from) /\ OthersAtRest
  BY <1>2 DEF MsgPhase
<1>8. \A k \in 0..(Cells - 1) : rsa'.msg[CellOf(job.j.order, k)] = RsaExpected(job.from + k)
  BY <1>3, <1>5, <1>6, <1>7, PowerIs
<1>9. \A s \in KeySlots : AtRest(rsa.keys[s])
  BY <1>4, <1>7 DEF KeyIs, OthersAtRest, AtRest
<1>10. \A n_ : RsaExpected(n_)' = RsaExpected(n_)
  BY <1>1 DEF RsaExpected
<1>11. Raised'
  BY <1>1, <1>2, <1>3, <1>4, <1>5, <1>6, <1>8, <1>9, <1>10, NothingIsOut DEF Raised
<1> QED BY <1>1, <1>2, <1>3, <1>11 DEF RsaState

(* A unit of the result is read. *)
LEMMA RsaIsRead ==
    ASSUME JobOk, RsaState, RsaJobIs(job.j), NoDma', job.from \in Nat, job.fed \in Nat,
           22 \in IF_, NEW n \in 0..(Cells - 1), Store(job.from + n, RsaWord(n)),
           job' = [job EXCEPT !.fed = @ + 1], rsa' = rsa
    PROVE  RsaState'
<1>1. /\ job'.todo = job.todo /\ job'.j = job.j
      /\ job'.from = job.from /\ job'.fed = job.fed + 1
  BY FedOk
<1>2. /\ "go" \notin job.todo /\ "order" \notin job.todo /\ "slot" \notin job.todo
      /\ Raised /\ RsaTyped
  BY DEF RsaState
<1>3. RsaWord(n) = RsaExpected(job.from + n)
  BY <1>2 DEF Raised, RsaWord, Cell, CellOf
<1>4. PICK at : at = job.from + n
  OBVIOUS
<1>5. \A k \in DOMAIN out' : out'[k] = RsaExpected(k)
  <2>1. Store(at, RsaExpected(at))
    BY <1>3, <1>4
  <2>2. /\ DOMAIN out' = {at} \union DOMAIN out /\ out'[at] = RsaExpected(at)
        /\ \A k \in DOMAIN out : k # at => out'[k] = out[k]
    BY <2>1, OutIs
  <2> QED BY <1>2, <2>2 DEF Raised
<1>6. \A k : RsaExpected(k)' = RsaExpected(k)
  BY <1>1 DEF RsaExpected
<1>7. job.fed + 1 >= 3 * Cells
  BY <1>2, RsaAssumption DEF Raised
<1>8. Raised'
  BY <1>1, <1>2, <1>5, <1>6, <1>7 DEF Raised
<1> QED BY <1>1, <1>2, <1>8 DEF RsaState, RsaTyped

LEMMA RsaDriver ==
    ASSUME BusOk, RsaState, RsaJob
    PROVE  RsaState'
<1>1. /\ JobOk /\ job.j.route = "rsa" /\ NoDma'
  BY NoDmaStays DEF BusOk, RsaJob, On, RsaState, Registers_
<1>2. RsaJobIs(job.j) /\ job.from \in Nat /\ job.fed \in Nat
  BY <1>1, RsaJobParameters
<1>3. CASE /\ Registers_
           /\ \/ Step("slot", {}) /\ WriteRsaCnt(job.j.slot, job.j.keyorder, FALSE)
              \/ job.fed = 2 * Cells /\ Step("order", {"slot"})
                 /\ WriteRsaCnt(job.j.slot, job.j.order, FALSE)
              \/ job.fed = 3 * Cells /\ Step("go", {"order"})
                 /\ WriteRsaCnt(job.j.slot, job.j.order, TRUE)
  BY <1>1, <1>2, <1>3, RsaSlot, RsaOrder, RsaGo DEF Registers_
<1>4. CASE /\ Registers_
           /\ "slot" \notin job.todo /\ "order" \in job.todo /\ job.fed < 2 * Cells /\ Fed(1)
           /\ IF job.fed % 2 = 0 THEN WriteExp(Data(job.from + job.fed))
              ELSE WriteMod(Data(job.from + job.fed))
  BY <1>1, <1>2, <1>4, RsaKey DEF Registers_
<1>5. CASE /\ Registers_
           /\ "order" \notin job.todo /\ job.fed < 3 * Cells
           /\ Fed(1) /\ WriteMsg(Data(job.from + job.fed))
  BY <1>1, <1>2, <1>5, RsaMsg DEF Registers_
<1>6. CASE /\ 22 \in IF_ /\ \E n \in 0..(Cells - 1) :
                  job.from + n \notin DOMAIN out /\ Store(job.from + n, RsaWord(n))
           /\ job' = [job EXCEPT !.fed = @ + 1] /\ rsa' = rsa
  BY <1>1, <1>2, <1>6, RsaIsRead
<1> QED BY <1>3, <1>4, <1>5, <1>6 DEF RsaJob

(* Nothing is left of the last job but registers. *)
LEMMA RsaBegins ==
    ASSUME BusOk', job'.j.route = "rsa", job'.todo = job'.j.todo, job'.fed = 0,
           NoDma', out' = <<>>, IF_' = {}, RsaTyped', rsa'.msg_ctr = 0,
           \A s \in KeySlots : AtRest(rsa'.keys[s])
    PROVE  RsaState'
<1>1. {"slot", "order", "go"} \subseteq job'.todo
  BY JobsAssumption DEF BusOk, JobOk
<1> QED BY <1>1 DEF RsaState

LEMMA BlankRsaIs ==
    /\ DOMAIN BlankRsa = RsaNames /\ BlankRsa.keyslot \in KeySlots
    /\ DOMAIN BlankRsa.keys = KeySlots /\ Register(BlankRsa.msg) /\ BlankRsa.msg_ctr = 0
    /\ \A s \in KeySlots :
           /\ DOMAIN BlankRsa.keys[s] = KeyNames /\ AtRest(BlankRsa.keys[s])
           /\ Register(BlankRsa.keys[s].exp) /\ Register(BlankRsa.keys[s].mod)
<1> DEFINE blank == [n \in 1..Cells |-> Data(0)]
<1>1. Register(blank)
  BY DEF Register
<1>2. BlankRsa = [keyslot |-> 0, word_order |-> FALSE, msg |-> blank, msg_ctr |-> 0,
                  keys |-> [s \in KeySlots |->
                                [exp |-> blank, mod |-> blank, exp_ctr |-> 0, mod_ctr |-> 0]]]
  BY DEF BlankRsa
<1> HIDE DEF blank
<1> QED BY <1>1, <1>2 DEF RsaNames, KeyNames, KeySlots, AtRest

LEMMA RsaNext ==
    ASSUME KeyInv, BusInv, RsaInv, [Next]_vars
    PROVE  RsaInv'
<1> SUFFICES ASSUME job.j.route = "rsa"
             PROVE  RsaState'
  BY RouteStays DEF RsaInv
<1>1. RsaState /\ BusOk /\ BusOk' /\ job'.j.route = "rsa" /\ JobOk
  <2>1. job'.j.route = "rsa" /\ BusInv'
    BY RouteStays, BusNext
  <2> QED BY <2>1 DEF RsaInv, BusInv, BusOk
<1>2. CASE Reset
  <2>1. NoDma' /\ out' = <<>> /\ IF_' = {} /\ NextProgram /\ RsaReset
    BY <1>2, ResetNoDma DEF Reset
  <2>2. rsa' = [BlankRsa EXCEPT !.msg = rsa.msg] /\ RsaTyped
    BY <1>1, <2>1 DEF RsaReset, RsaState
  <2>3. /\ DOMAIN rsa' = RsaNames /\ rsa'.keyslot = BlankRsa.keyslot
        /\ rsa'.keys = BlankRsa.keys /\ rsa'.msg = rsa.msg /\ rsa'.msg_ctr = 0
    <3> HIDE DEF BlankRsa
    <3> QED BY <2>2, BlankRsaIs DEF RsaNames
  <2>4. RsaTyped' /\ \A s \in KeySlots : AtRest(rsa'.keys[s])
    BY <2>2, <2>3, BlankRsaIs DEF RsaTyped
  <2> QED BY <1>1, <2>1, <2>3, <2>4, ProgramOk, RsaBegins
<1>3. CASE Driver
  <2>1. NextJob \/ RsaJob
    BY <1>3, DriverIs
  <2>2. CASE NextJob
    <3>1. /\ out' = <<>> /\ IF_' = {} /\ NextProgram /\ UNCHANGED <<chan, run, rsa>> /\ RsaDone
      BY <1>1, <2>2 DEF NextJob, devices, Done
    <3>2. "go" \notin job.todo
      BY <1>1, <3>1, NothingIsOut, RsaAssumption DEF RsaState, RsaDone
    <3>3. NoDma' /\ RsaTyped' /\ rsa'.msg_ctr = 0 /\ \A s \in KeySlots : AtRest(rsa'.keys[s])
      BY <1>1, <3>1, <3>2, NoDmaStays DEF RsaState, Raised, RsaTyped
    <3> QED BY <1>1, <3>1, <3>3, ProgramOk, RsaBegins
  <2> QED BY <1>1, <2>1, <2>2, RsaDriver
<1>4. ASSUME NoDma', UNCHANGED <<rsa, out, job, IF_>>
      PROVE  RsaState'
  <2>1. \A k : RsaExpected(k)' = RsaExpected(k)
    BY <1>4 DEF RsaExpected
  <2> QED BY <1>1, <1>4, <2>1 DEF RsaState, RsaTyped, KeyPhase, MsgPhase, Raised, OthersAtRest
<1>5. CASE Dma \/ Defer \/ Deliver \/ EndSlice
  BY <1>1, <1>4, <1>5, NoDmaKeeps DEF RsaState, devices
<1>6. CASE UNCHANGED vars
  BY <1>1, <1>4, <1>6, NoDmaStays DEF RsaState, vars, dmaVars, devices
<1> QED BY <1>2, <1>3, <1>5, <1>6 DEF Next

LEMMA RsaInitially == Init => RsaInv
<1> SUFFICES ASSUME Init, job.j.route = "rsa" PROVE RsaState
  BY DEF RsaInv
<1>1. NoDma /\ out = <<>> /\ IF_ = {} /\ JobOk /\ job.todo = job.j.todo /\ job.fed = 0
  BY InitNoDma, JobInitially
<1>2. {"slot", "order", "go"} \subseteq job.todo
  BY <1>1, JobsAssumption DEF JobOk
<1>3. rsa = BlankRsa
  BY DEF Init, RsaInit
<1>4. RsaTyped /\ rsa.msg_ctr = 0 /\ \A s \in KeySlots : AtRest(rsa.keys[s])
  <2> HIDE DEF BlankRsa
  <2> QED BY <1>3, BlankRsaIs DEF RsaTyped
<1> QED BY <1>1, <1>2, <1>4 DEF RsaState

LEMMA RsaDelivered ==
    ASSUME BusInv, RsaInv, job.j.route = "rsa"
    PROVE  DeliveredIsExpected
<1>1. RsaState /\ MediaOk /\ JobOk
  BY DEF RsaInv, BusInv, BusOk
<1>2. \A n \in DOMAIN out : out[n] = Expected(n)
  <2>1. \A n : Expected(n) = RsaExpected(n)
    BY DEF Expected
  <2>2. \A n \in DOMAIN out : out[n] = RsaExpected(n)
    BY <1>1, NothingIsOut DEF RsaState, Raised
  <2> QED BY <2>1, <2>2
<1>3. ASSUME run.phase = "cpu", Done
      PROVE  Cardinality(DOMAIN out) = InMemory(job.j)
  BY <1>3 DEF Done, RsaDone, InMemory
<1> QED BY <1>1, <1>2, <1>3, MemoryIsDelivered

-----------------------------------------------------------------------------
(* The save memory.                                                         *)

SaveNames ==
    {"state", "data", "addr", "cmd", "input", "in_pos", "output", "out_pos", "len"}

Buffer == 0..(SaveWords - 1)

SaveTyped ==
    /\ DOMAIN save = SaveNames /\ DOMAIN save.input = Buffer /\ DOMAIN save.output = Buffer
    /\ save.in_pos \in Nat /\ 0..(4 * SaveWords) \subseteq DOMAIN save.data

LEMMA SpiFifoIs ==
    ASSUME SaveTyped, NEW word, WriteSpiFifo(word)
    PROVE  /\ SaveTyped' /\ save'.in_pos = save.in_pos + 1
           /\ save'.state = save.state /\ save'.data = save.data /\ save'.addr = save.addr
           /\ save'.len = save.len /\ save'.input[save.in_pos] = word
           /\ \A k \in Buffer : k # save.in_pos => save'.input[k] = save.input[k]
<1> DEFINE input == [save.input EXCEPT ![save.in_pos] = word]
<1>1. SaveWords \in Nat \ {0} /\ save.in_pos \in Buffer /\ save.in_pos + 1 \in Nat
  BY CartridgeAssumption DEF SaveTyped, WriteSpiFifo, Buffer
<1>2. DOMAIN save = SaveNames /\ DOMAIN save.input = Buffer /\ DOMAIN save.output = Buffer
  BY DEF SaveTyped
<1>3. save' = [save EXCEPT !.input = input, !.in_pos = save.in_pos + 1]
  BY <1>2 DEF WriteSpiFifo, SaveNames
<1>4. /\ DOMAIN input = Buffer /\ input[save.in_pos] = word
      /\ \A k \in Buffer : k # save.in_pos => input[k] = save.input[k]
  BY <1>1, <1>2
<1> HIDE DEF input
<1>5. /\ DOMAIN save' = SaveNames /\ save'.input = input /\ save'.in_pos = save.in_pos + 1
      /\ save'.state = save.state /\ save'.data = save.data /\ save'.addr = save.addr
      /\ save'.len = save.len /\ save'.output = save.output
  BY <1>2, <1>3 DEF SaveNames
<1>6. SaveTyped'
  BY <1>1, <1>2, <1>4, <1>5 DEF SaveTyped
<1> QED BY <1>4, <1>5, <1>6

LEMMA SpiLengthIs ==
    ASSUME SaveTyped, NEW n, WriteSpiLength(n)
    PROVE  /\ SaveTyped' /\ save'.in_pos = save.in_pos
           /\ save'.state = save.state /\ save'.data = save.data /\ save'.addr = save.addr
           /\ save'.len = n /\ save'.input = save.input
BY DEF SaveTyped, WriteSpiLength, SaveNames

(* The words of a bufferful. *)
FetchedIs(output, addr, len) ==
    \A k \in Buffer : k < len => output[k] = save.data[addr + k]

LEMMA WordsAreFetched ==
    ASSUME SaveTyped, NEW addr, NEW len
    PROVE  DOMAIN Fetched(addr, len) = Buffer /\ FetchedIs(Fetched(addr, len), addr, len)
BY DEF SaveTyped, Fetched, FetchedIs

LEMMA SpiCommandIs ==
    ASSUME SaveTyped, SpiCommand
    PROVE  /\ SaveTyped' /\ save'.in_pos = 0 /\ save'.data = save.data
           /\ save'.len = save.len /\ save'.input = save.input
           /\ save.state = "IDLE" => save'.state = "SELECTED"
           /\ save.state = "SELECTED" /\ save.input[0] = 2 =>
                  save'.state = "WRITE_READY" /\ save'.addr = save.input[1]
           /\ save.state = "SELECTED" /\ save.input[0] = 235 => save'.state = "NEEDS_PARAMS"
           /\ save.state = "SELECTED" /\ save.input[0] = 3 =>
                  /\ save'.state = "SELECTED" /\ save'.addr = save.input[1] /\ save'.out_pos = 0
                  /\ FetchedIs(save'.output, save.input[1], save.len)
           /\ save.state = "NEEDS_PARAMS" =>
                  /\ save'.state = "SELECTED" /\ save'.addr = save.input[0] /\ save'.out_pos = 0
                  /\ FetchedIs(save'.output, save.input[0], save.len)
<1> DEFINE cmd == save.input[0]
           addr == save.input[1]
           started == [save EXCEPT !.in_pos = 0, !.out_pos = 0]
           fetched == Fetched(addr, save.len)
           fetched0 == Fetched(cmd, save.len)
           other == [save.output EXCEPT ![0] = cmd]
<1>1. DOMAIN save = SaveNames /\ DOMAIN save.input = Buffer /\ DOMAIN save.output = Buffer
  BY DEF SaveTyped
<1>2. /\ DOMAIN started = SaveNames /\ started.in_pos = 0 /\ started.out_pos = 0
      /\ started.data = save.data /\ started.len = save.len /\ started.input = save.input
      /\ started.output = save.output /\ started.state = save.state
  BY <1>1 DEF SaveNames
<1>3. save' =
          IF save.state = "IDLE" THEN [started EXCEPT !.state = "SELECTED"]
          ELSE IF save.state = "NEEDS_PARAMS"
          THEN [started EXCEPT !.state = "SELECTED", !.addr = cmd, !.output = fetched0]
          ELSE IF cmd = 2
          THEN [started EXCEPT !.state = "WRITE_READY", !.addr = addr, !.cmd = cmd]
          ELSE IF cmd = 3
          THEN [started EXCEPT !.addr = addr, !.cmd = cmd, !.output = fetched]
          ELSE IF cmd = 235 THEN [started EXCEPT !.state = "NEEDS_PARAMS", !.cmd = cmd]
          ELSE IF cmd = 6 THEN [started EXCEPT !.cmd = cmd]
          ELSE [started EXCEPT !.cmd = cmd, !.output = other]
  BY <1>2 DEF SpiCommand, SaveNames
<1>4. /\ DOMAIN fetched = Buffer /\ FetchedIs(fetched, addr, save.len)
      /\ DOMAIN fetched0 = Buffer /\ FetchedIs(fetched0, cmd, save.len)
      /\ DOMAIN other = Buffer
  BY <1>1, WordsAreFetched
<1> HIDE DEF started, fetched, fetched0, other
<1>5. /\ DOMAIN save' = SaveNames /\ save'.in_pos = 0 /\ save'.data = save.data
      /\ save'.len = save.len /\ save'.input = save.input
      /\ save'.output \in {save.output, fetched, fetched0, other}
  BY <1>2, <1>3 DEF SaveNames
<1>6. SaveTyped'
  <2>1. DOMAIN save'.output = Buffer
    BY <1>1, <1>4, <1>5
  <2> QED BY <1>1, <1>5, <2>1 DEF SaveTyped
<1>7. save.state = "IDLE" => save'.state = "SELECTED"
  BY <1>2, <1>3 DEF SaveNames
<1>8. save.state = "SELECTED" /\ cmd = 2 => save'.state = "WRITE_READY" /\ save'.addr = addr
  BY <1>2, <1>3 DEF SaveNames
<1>9. save.state = "SELECTED" /\ cmd = 235 => save'.state = "NEEDS_PARAMS"
  BY <1>2, <1>3 DEF SaveNames
<1>10. save.state = "SELECTED" /\ cmd = 3 =>
           /\ save'.state = "SELECTED" /\ save'.addr = addr /\ save'.out_pos = 0
           /\ save'.output = fetched
  BY <1>2, <1>3 DEF SaveNames
<1>11. save.state = "NEEDS_PARAMS" =>
           /\ save'.state = "SELECTED" /\ save'.addr = cmd /\ save'.out_pos = 0
           /\ save'.output = fetched0
  BY <1>2, <1>3 DEF SaveNames
<1> QED BY <1>4, <1>5, <1>6, <1>7, <1>8, <1>9, <1>10, <1>11

LEMMA SpiFifoIsRead ==
    ASSUME SaveTyped, ReadSpiFifo, save.out_pos \in Nat, save.addr \in Nat, save.len \in Nat
    PROVE  /\ SaveTyped' /\ save'.state = save.state /\ save'.data = save.data
           /\ save.len > 0 /\ save'.len = save.len - 1
           /\ \/ /\ save'.addr = save.addr /\ save'.out_pos = save.out_pos + 1
                 /\ save'.output = save.output
                 /\ save'.out_pos < SaveWords \/ save'.len = 0
              \/ /\ save.out_pos + 1 >= SaveWords
                 /\ save'.addr = save.addr + SaveWords /\ save'.out_pos = 0
                 /\ FetchedIs(save'.output, save'.addr, save'.len)
<1> DEFINE s == [save EXCEPT !.out_pos = @ + 1, !.len = @ - 1]
           next == save.addr + SaveWords
           fetched == Fetched(next, s.len)
<1>1. DOMAIN save = SaveNames /\ DOMAIN save.input = Buffer /\ DOMAIN save.output = Buffer
  BY DEF SaveTyped
<1>2. /\ DOMAIN s = SaveNames /\ s.out_pos = save.out_pos + 1 /\ s.len = save.len - 1
      /\ s.addr = save.addr /\ s.state = save.state /\ s.data = save.data
      /\ s.input = save.input /\ s.output = save.output /\ s.in_pos = save.in_pos
  BY <1>1 DEF SaveNames
<1>3. /\ save.len > 0
      /\ save' = IF s.out_pos >= SaveWords /\ s.len > 0
                 THEN [s EXCEPT !.out_pos = 0, !.addr = @ + SaveWords, !.output = fetched]
                 ELSE s
  BY DEF ReadSpiFifo, Refilled
<1>4. DOMAIN fetched = Buffer /\ FetchedIs(fetched, next, s.len) /\ SaveWords \in Nat
  BY WordsAreFetched, CartridgeAssumption
<1> HIDE DEF s, fetched
<1>5. CASE s.out_pos >= SaveWords /\ s.len > 0
  <2>1. /\ DOMAIN save' = SaveNames /\ save'.out_pos = 0 /\ save'.addr = next
        /\ save'.output = fetched /\ save'.len = s.len /\ save'.state = save.state
        /\ save'.data = save.data /\ save'.input = save.input /\ save'.in_pos = save.in_pos
    BY <1>2, <1>3, <1>5 DEF SaveNames
  <2>2. SaveTyped'
    BY <1>1, <1>4, <2>1 DEF SaveTyped
  <2> HIDE DEF next
  <2>3. FetchedIs(save'.output, save'.addr, save'.len)
    BY <1>4, <2>1
  <2> QED BY <1>2, <1>3, <1>5, <2>1, <2>2, <2>3 DEF next
<1>6. CASE ~(s.out_pos >= SaveWords /\ s.len > 0)
  <2>1. save' = s
    BY <1>3, <1>6
  <2>2. SaveTyped'
    BY <1>1, <1>2, <2>1 DEF SaveTyped
  <2> QED BY <1>2, <1>3, <1>4, <1>6, <2>1, <2>2
<1> QED BY <1>5, <1>6

(* The end of a selection. *)
LEMMA SelectionEnds ==
    ASSUME SaveTyped, ClearChipSelect
    PROVE  /\ SaveTyped' /\ save'.state = "IDLE" /\ save'.len = save.len
           /\ save.state # "WRITE_READY" => save'.data = save.data
           /\ save.state = "WRITE_READY" =>
                  /\ \A k \in save.addr..(save.addr + save.len - 1) :
                         save'.data[k] = save.input[k - save.addr]
                  /\ \A k \in 0..(4 * SaveWords) :
                         k \notin save.addr..(save.addr + save.len - 1) =>
                             save'.data[k] = save.data[k]
<1> DEFINE part == [n \in save.addr..(save.addr + save.len - 1) |-> save.input[n - save.addr]]
           data == Over(part, save.data)
<1>1. /\ DOMAIN save = SaveNames /\ DOMAIN save.input = Buffer /\ DOMAIN save.output = Buffer
      /\ 0..(4 * SaveWords) \subseteq DOMAIN save.data
  BY DEF SaveTyped
<1>2. save' = [save EXCEPT !.state = "IDLE",
                           !.data = IF save.state # "WRITE_READY" THEN @ ELSE data]
  BY DEF ClearChipSelect
<1>3. /\ DOMAIN part = save.addr..(save.addr + save.len - 1)
      /\ \A k \in DOMAIN part : part[k] = save.input[k - save.addr]
  OBVIOUS
<1> HIDE DEF part
<1>4. /\ DOMAIN data = DOMAIN part \union DOMAIN save.data
      /\ \A n \in DOMAIN part : data[n] = part[n]
      /\ \A n \in DOMAIN save.data : n \notin DOMAIN part => data[n] = save.data[n]
  BY OverIs
<1> HIDE DEF data
<1>5. /\ DOMAIN save' = SaveNames /\ save'.state = "IDLE" /\ save'.len = save.len
      /\ save'.in_pos = save.in_pos /\ save'.input = save.input /\ save'.output = save.output
      /\ save.state # "WRITE_READY" => save'.data = save.data
      /\ save.state = "WRITE_READY" => save'.data = data
  BY <1>1, <1>2 DEF SaveNames
<1>6. SaveTyped'
  BY <1>1, <1>4, <1>5 DEF SaveTyped
<1> QED BY <1>1, <1>3, <1>4, <1>5, <1>6

(* The steps of the driver come one after the other. *)
SaveOrder(todo) ==
    /\ "select" \in todo => "write" \in todo
    /\ "write" \in todo => "addr" \in todo
    /\ "addr" \in todo => "cmd" \in todo
    /\ "cmd" \in todo => "len" \in todo
    /\ "len" \in todo => "off" \in todo
    /\ "off" \in todo => "select2" \in todo
    /\ "select2" \in todo => "read" \in todo
    /\ "read" \in todo => "addr2" \in todo /\ "len2" \in todo
    /\ "addr2" \in todo => "param" \in todo
    /\ "len2" \in todo => "param" \in todo
    /\ "param" \in todo => "cmd2" \in todo

At(done, next) == done \notin job.todo /\ next \in job.todo

(* Beyond what the jobs write nothing is ever written. *)
Untouched == \A k \in 0..(4 * SaveWords) : k >= job.j.n => save.data[k] = 0

Saved == \A k \in 0..(4 * SaveWords) : save.data[k] = IF k < job.j.n THEN job.from + k ELSE 0

SaveWriting ==
    /\ "select" \in job.todo => save.state = "IDLE" /\ job.fed = 0
    /\ At("select", "write") => save.state = "SELECTED" /\ save.in_pos = 0 /\ job.fed = 0
    /\ At("write", "addr") =>
           save.state = "SELECTED" /\ save.in_pos = 1 /\ save.input[0] = 2 /\ job.fed = 0
    /\ At("addr", "cmd") =>
           save.state = "SELECTED" /\ save.input[0] = 2 /\ save.input[1] = 0 /\ job.fed = 0
    /\ At("cmd", "len") =>
           save.state = "WRITE_READY" /\ save.addr = 0 /\ save.in_pos = 0 /\ job.fed = 0
    /\ At("len", "off") =>
           /\ save.state = "WRITE_READY" /\ save.addr = 0 /\ save.len = job.j.n
           /\ save.in_pos = job.fed
           /\ \A k \in 0..(job.fed - 1) : save.input[k] = job.from + k

SaveReading ==
    /\ "off" \notin job.todo => Saved
    /\ At("off", "select2") => save.state = "IDLE"
    /\ At("select2", "read") => save.state = "SELECTED" /\ save.in_pos = 0
    /\ At("read", "addr2") =>
           save.state = "SELECTED" /\ save.in_pos = 1 /\ save.input[0] = job.j.cmd
    /\ At("addr2", "param") =>
           /\ job.j.cmd = 3 =>
                  save.state = "SELECTED" /\ save.input[0] = 3 /\ save.input[1] = 0
           /\ job.j.cmd = 235 => save.state = "NEEDS_PARAMS" /\ save.in_pos = 0
    /\ At("param", "cmd2") =>
           /\ job.j.cmd = 3 =>
                  save.state = "SELECTED" /\ save.input[0] = 3 /\ save.input[1] = 0
           /\ job.j.cmd = 235 => save.state = "NEEDS_PARAMS" /\ save.input[0] = 0
    /\ "len2" \notin job.todo /\ "cmd2" \in job.todo => save.len = job.j.read
    /\ "cmd2" \in job.todo => out = <<>>

(* What has been read, and what is yet to be read. *)
ReadBack ==
    /\ save.len \in 0..job.j.read
    /\ save.state = "SELECTED" \/ (save.state = "IDLE" /\ save.len = 0)
    /\ DOMAIN out = job.from..(job.from + (job.j.read - save.len) - 1)
    /\ \A m \in DOMAIN out : out[m] = IF m < job.from + job.j.n THEN m ELSE 0
    /\ save.len > 0 =>
           /\ save.addr \in Nat /\ save.out_pos \in Buffer
           /\ save.addr + save.out_pos = job.j.read - save.len
           /\ FetchedIs(save.output, save.addr, job.j.read - save.addr)

SaveState ==
    /\ NoDma /\ SaveTyped /\ SaveOrder(job.todo) /\ Untouched
    /\ SaveWriting /\ SaveReading
    /\ "cmd2" \notin job.todo => ReadBack

SaveInv == job.j.route = "save" => SaveState

LEMMA SaveParameters ==
    ASSUME JobOk, job.j.route = "save"
    PROVE  /\ job.from \in Nat /\ job.fed \in Nat /\ job.j.n \in Nat
           /\ job.j.read \in 0..(4 * SaveWords) /\ job.j.cmd \in {3, 235}
           /\ SaveWords \in Nat \ {0} /\ Buffer = 0..(SaveWords - 1)
BY JobsAssumption, CartridgeAssumption DEF JobOk, Buffer

(* The steps until the words are written. *)
LEMMA SaveWrites ==
    ASSUME JobOk, SaveState, job.j.route = "save", NoDma', out' = out,
           \/ Step("select", {}) /\ SpiCommand
           \/ Step("write", {"select"}) /\ WriteSpiFifo(2)
           \/ Step("addr", {"write"}) /\ WriteSpiFifo(0)
           \/ Step("cmd", {"addr"}) /\ SpiCommand
           \/ Step("len", {"cmd"}) /\ WriteSpiLength(job.j.n)
    PROVE  SaveState'
<1>1. /\ job.from \in Nat /\ job.fed \in Nat /\ job.j.n \in Nat
      /\ SaveWords \in Nat \ {0} /\ Buffer = 0..(SaveWords - 1)
  BY SaveParameters
<1>2. /\ SaveTyped /\ SaveOrder(job.todo) /\ Untouched /\ SaveWriting /\ SaveReading
  BY DEF SaveState
<1>3. ASSUME NEW name, NEW needed, Step(name, needed),
             name \in {"select", "write", "addr", "cmd", "len"},
             SaveTyped', save'.data = save.data, SaveOrder(job.todo \ {name}),
             SaveWriting', "off" \in job.todo
      PROVE  SaveState'
  <2>1. /\ job'.todo = job.todo \ {name} /\ job'.j = job.j /\ job'.from = job.from
        /\ job'.fed = job.fed
    BY <1>3, StepOk
  <2>2. /\ "off" \in job'.todo /\ "select2" \in job'.todo /\ "read" \in job'.todo
        /\ "addr2" \in job'.todo /\ "len2" \in job'.todo /\ "param" \in job'.todo
        /\ "cmd2" \in job'.todo /\ "cmd2" \in job.todo
    BY <1>2, <1>3, <2>1 DEF SaveOrder
  <2>3. SaveReading'
    BY <1>2, <2>2 DEF SaveReading, At
  <2>4. Untouched'
    BY <1>2, <1>3, <2>1 DEF Untouched
  <2> QED BY <1>3, <2>1, <2>2, <2>3, <2>4 DEF SaveState
<1>4. CASE Step("select", {}) /\ SpiCommand
  <2>1. /\ "select" \in job.todo /\ job'.todo = job.todo \ {"select"} /\ job'.j = job.j
        /\ job'.from = job.from /\ job'.fed = job.fed
    BY <1>4, StepOk
  <2>2. /\ "write" \in job.todo /\ "addr" \in job.todo /\ "cmd" \in job.todo
        /\ "len" \in job.todo /\ "off" \in job.todo /\ SaveOrder(job.todo \ {"select"})
    BY <1>2, <2>1 DEF SaveOrder
  <2>3. save.state = "IDLE" /\ job.fed = 0
    BY <1>2, <2>1 DEF SaveWriting
  <2>4. SaveTyped' /\ save'.in_pos = 0 /\ save'.data = save.data /\ save'.state = "SELECTED"
    BY <1>2, <1>4, <2>3, SpiCommandIs
  <2>5. SaveWriting'
    BY <2>1, <2>2, <2>3, <2>4 DEF SaveWriting, At
  <2> QED BY <1>3, <1>4, <2>2, <2>4, <2>5
<1>5. CASE Step("write", {"select"}) /\ WriteSpiFifo(2)
  <2>1. /\ "write" \in job.todo /\ "select" \notin job.todo
        /\ job'.todo = job.todo \ {"write"} /\ job'.j = job.j
        /\ job'.from = job.from /\ job'.fed = job.fed
    BY <1>5, StepOk
  <2>2. /\ "addr" \in job.todo /\ "cmd" \in job.todo
        /\ "len" \in job.todo /\ "off" \in job.todo /\ SaveOrder(job.todo \ {"write"})
    BY <1>2, <2>1 DEF SaveOrder
  <2>3. save.state = "SELECTED" /\ save.in_pos = 0 /\ job.fed = 0
    BY <1>2, <2>1 DEF SaveWriting, At
  <2>4. /\ SaveTyped' /\ save'.in_pos = 1 /\ save'.data = save.data /\ save'.state = "SELECTED"
        /\ save'.input[0] = 2
    BY <1>2, <1>5, <2>3, SpiFifoIs
  <2>5. SaveWriting'
    BY <2>1, <2>2, <2>3, <2>4 DEF SaveWriting, At
  <2> QED BY <1>3, <1>5, <2>2, <2>4, <2>5
<1>6. CASE Step("addr", {"write"}) /\ WriteSpiFifo(0)
  <2>1. /\ "addr" \in job.todo /\ "write" \notin job.todo
        /\ job'.todo = job.todo \ {"addr"} /\ job'.j = job.j
        /\ job'.from = job.from /\ job'.fed = job.fed
    BY <1>6, StepOk
  <2>2. /\ "select" \notin job.todo /\ "cmd" \in job.todo
        /\ "len" \in job.todo /\ "off" \in job.todo /\ SaveOrder(job.todo \ {"addr"})
    BY <1>2, <2>1 DEF SaveOrder
  <2>3. save.state = "SELECTED" /\ save.in_pos = 1 /\ save.input[0] = 2 /\ job.fed = 0
    BY <1>2, <2>1 DEF SaveWriting, At
  <2>4. 0 \in Buffer /\ 0 # save.in_pos
    BY <1>1, <2>3
  <2>5. /\ SaveTyped' /\ save'.data = save.data /\ save'.state = "SELECTED"
        /\ save'.input[0] = 2 /\ save'.input[1] = 0
    BY <1>2, <1>6, <2>3, <2>4, SpiFifoIs
  <2>6. SaveWriting'
    BY <2>1, <2>2, <2>3, <2>5 DEF SaveWriting, At
  <2> QED BY <1>3, <1>6, <2>2, <2>5, <2>6
<1>7. CASE Step("cmd", {"addr"}) /\ SpiCommand
  <2>1. /\ "cmd" \in job.todo /\ "addr" \notin job.todo
        /\ job'.todo = job.todo \ {"cmd"} /\ job'.j = job.j
        /\ job'.from = job.from /\ job'.fed = job.fed
    BY <1>7, StepOk
  <2>2. /\ "select" \notin job.todo /\ "write" \notin job.todo
        /\ "len" \in job.todo /\ "off" \in job.todo /\ SaveOrder(job.todo \ {"cmd"})
    BY <1>2, <2>1 DEF SaveOrder
  <2>3. save.state = "SELECTED" /\ save.input[0] = 2 /\ save.input[1] = 0 /\ job.fed = 0
    BY <1>2, <2>1 DEF SaveWriting, At
  <2>4. /\ SaveTyped' /\ save'.data = save.data /\ save'.state = "WRITE_READY"
        /\ save'.addr = 0 /\ save'.in_pos = 0
    BY <1>2, <1>7, <2>3, SpiCommandIs
  <2>5. SaveWriting'
    BY <2>1, <2>2, <2>3, <2>4 DEF SaveWriting, At
  <2> QED BY <1>3, <1>7, <2>2, <2>4, <2>5
<1>8. CASE Step("len", {"cmd"}) /\ WriteSpiLength(job.j.n)
  <2>1. /\ "len" \in job.todo /\ "cmd" \notin job.todo
        /\ job'.todo = job.todo \ {"len"} /\ job'.j = job.j
        /\ job'.from = job.from /\ job'.fed = job.fed
    BY <1>8, StepOk
  <2>2. /\ "select" \notin job.todo /\ "write" \notin job.todo /\ "addr" \notin job.todo
        /\ "off" \in job.todo /\ SaveOrder(job.todo \ {"len"})
    BY <1>2, <2>1 DEF SaveOrder
  <2>3. save.state = "WRITE_READY" /\ save.addr = 0 /\ save.in_pos = 0 /\ job.fed = 0
    BY <1>2, <2>1 DEF SaveWriting, At
  <2>4. /\ SaveTyped' /\ save'.data = save.data /\ save'.state = "WRITE_READY"
        /\ save'.addr = 0 /\ save'.in_pos = 0 /\ save'.len = job.j.n
    BY <1>2, <1>8, <2>3, SpiLengthIs
  <2>5. SaveWriting'
    <3>1. \A k : k \notin 0..(0 - 1)
      OBVIOUS
    <3> QED BY <2>1, <2>2, <2>3, <2>4, <3>1 DEF SaveWriting, At
  <2> QED BY <1>3, <1>8, <2>2, <2>4, <2>5
<1> QED BY <1>4, <1>5, <1>6, <1>7, <1>8

(* The words. *)
LEMMA SaveWord ==
    ASSUME JobOk, SaveState, job.j.route = "save", NoDma', out' = out,
           job.fed < job.j.n, "len" \notin job.todo, "off" \in job.todo,
           Fed(1), WriteSpiFifo(job.from + job.fed)
    PROVE  SaveState'
<1>1. /\ job.from \in Nat /\ job.fed \in Nat /\ job.j.n \in Nat
      /\ SaveWords \in Nat \ {0} /\ Buffer = 0..(SaveWords - 1)
  BY SaveParameters
<1>2. /\ SaveTyped /\ SaveOrder(job.todo) /\ Untouched /\ SaveWriting /\ SaveReading
  BY DEF SaveState
<1>3. /\ job'.todo = job.todo /\ job'.j = job.j /\ job'.from = job.from
      /\ job'.fed = job.fed + 1
  BY FedOk
<1>4. /\ "select" \notin job.todo /\ "write" \notin job.todo /\ "addr" \notin job.todo
      /\ "cmd" \notin job.todo
      /\ "select2" \in job.todo /\ "read" \in job.todo /\ "addr2" \in job.todo
      /\ "len2" \in job.todo /\ "param" \in job.todo /\ "cmd2" \in job.todo
  BY <1>2 DEF SaveOrder
<1>5. /\ save.state = "WRITE_READY" /\ save.addr = 0 /\ save.len = job.j.n
      /\ save.in_pos = job.fed /\ \A k \in 0..(job.fed - 1) : save.input[k] = job.from + k
  BY <1>2 DEF SaveWriting, At
<1>6. /\ SaveTyped' /\ save'.in_pos = job.fed + 1 /\ save'.data = save.data
      /\ save'.state = "WRITE_READY" /\ save'.addr = 0 /\ save'.len = job.j.n
      /\ save'.input[job.fed] = job.from + job.fed
      /\ \A k \in Buffer : k # job.fed => save'.input[k] = save.input[k]
  BY <1>2, <1>5, SpiFifoIs
<1>7. ASSUME NEW k \in 0..((job.fed + 1) - 1)
      PROVE  save'.input[k] = job.from + k
  <2>1. CASE k = job.fed
    BY <1>6, <2>1
  <2>2. CASE k # job.fed
    <3>1. job.fed < SaveWords - 1
      BY <1>5 DEF WriteSpiFifo
    <3>2. k \in Buffer /\ k \in 0..(job.fed - 1)
      BY <1>1, <2>2, <3>1
    <3> QED BY <1>5, <1>6, <2>2, <3>2
  <2> QED BY <2>1, <2>2
<1>8. SaveWriting'
  BY <1>3, <1>4, <1>6, <1>7 DEF SaveWriting, At
<1>9. SaveReading'
  BY <1>2, <1>3, <1>4 DEF SaveReading, At
<1>10. Untouched'
  BY <1>2, <1>3, <1>6 DEF Untouched
<1> QED BY <1>2, <1>3, <1>4, <1>6, <1>8, <1>9, <1>10 DEF SaveState

LEMMA SaveIsWritten ==
    ASSUME JobOk, SaveState, job.j.route = "save", NoDma', out' = out,
           job.fed = job.j.n, Step("off", {"len"}), ClearChipSelect
    PROVE  SaveState'
<1>1. /\ job.from \in Nat /\ job.fed \in Nat /\ job.j.n \in Nat
      /\ SaveWords \in Nat \ {0} /\ Buffer = 0..(SaveWords - 1)
  BY SaveParameters
<1>2. /\ SaveTyped /\ SaveOrder(job.todo) /\ Untouched /\ SaveWriting /\ SaveReading
  BY DEF SaveState
<1>3. /\ "off" \in job.todo /\ "len" \notin job.todo
      /\ job'.todo = job.todo \ {"off"} /\ job'.j = job.j /\ job'.from = job.from
      /\ job'.fed = job.fed
  BY StepOk
<1>4. /\ "select" \notin job.todo /\ "write" \notin job.todo /\ "addr" \notin job.todo
      /\ "cmd" \notin job.todo /\ SaveOrder(job.todo \ {"off"})
      /\ "select2" \in job.todo /\ "read" \in job.todo /\ "addr2" \in job.todo
      /\ "len2" \in job.todo /\ "param" \in job.todo /\ "cmd2" \in job.todo
  BY <1>2, <1>3 DEF SaveOrder
<1>5. /\ save.state = "WRITE_READY" /\ save.addr = 0 /\ save.len = job.j.n
      /\ \A k \in 0..(job.fed - 1) : save.input[k] = job.from + k
  BY <1>2, <1>3 DEF SaveWriting, At
<1>6. /\ SaveTyped' /\ save'.state = "IDLE"
      /\ \A k \in save.addr..(save.addr + save.len - 1) :
             save'.data[k] = save.input[k - save.addr]
      /\ \A k \in 0..(4 * SaveWords) :
             k \notin save.addr..(save.addr + save.len - 1) => save'.data[k] = save.data[k]
  BY <1>2, <1>5, SelectionEnds
<1>7. ASSUME NEW k \in 0..(4 * SaveWords)
      PROVE  save'.data[k] = IF k < job.j.n THEN job.from + k ELSE 0
  <2>1. CASE k < job.j.n
    <3>1. k \in save.addr..(save.addr + save.len - 1) /\ k - save.addr = k
          /\ k \in 0..(job.fed - 1)
      BY <1>1, <1>5, <2>1
    <3> QED BY <1>5, <1>6, <2>1, <3>1
  <2>2. CASE ~(k < job.j.n)
    <3>1. k \notin save.addr..(save.addr + save.len - 1) /\ k >= job.j.n
      BY <1>1, <1>5, <2>2
    <3> QED BY <1>2, <1>6, <2>2, <3>1 DEF Untouched
  <2> QED BY <2>1, <2>2
<1>8. Saved' /\ Untouched'
  <2>1. \A k \in 0..(4 * SaveWords) : k >= job.j.n => ~(k < job.j.n)
    BY <1>1
  <2> QED BY <1>3, <1>7, <2>1 DEF Saved, Untouched
<1>9. SaveWriting'
  BY <1>3, <1>4 DEF SaveWriting, At
<1>10. SaveReading'
  BY <1>2, <1>3, <1>4, <1>6, <1>8 DEF SaveReading, At
<1> QED BY <1>3, <1>4, <1>6, <1>8, <1>9, <1>10 DEF SaveState

(* The steps until the words are read. *)
LEMMA SaveReads ==
    ASSUME JobOk, SaveState, job.j.route = "save", NoDma', out' = out,
           \/ Step("select2", {"off"}) /\ SpiCommand
           \/ Step("read", {"select2"}) /\ WriteSpiFifo(job.j.cmd)
           \/ Step("addr2", {"read", "len2"} \ (IF job.j.cmd = 235 THEN {"len2"} ELSE {}))
              /\ (IF job.j.cmd = 235 THEN SpiCommand ELSE WriteSpiFifo(0))
           \/ Step("len2", {"read"}) /\ WriteSpiLength(job.j.read)
           \/ Step("param", {"addr2", "len2"})
              /\ (IF job.j.cmd = 235 THEN WriteSpiFifo(0) ELSE WriteSpiLength(job.j.read))
    PROVE  SaveState'
<1>1. /\ job.from \in Nat /\ job.fed \in Nat /\ job.j.n \in Nat /\ job.j.cmd \in {3, 235}
      /\ SaveWords \in Nat \ {0} /\ Buffer = 0..(SaveWords - 1)
  BY SaveParameters
<1>2. /\ SaveTyped /\ SaveOrder(job.todo) /\ Untouched /\ SaveReading
  BY DEF SaveState
<1>3. ASSUME NEW name, NEW needed, Step(name, needed),
             name \in {"select2", "read", "addr2", "len2", "param"},
             SaveTyped', save'.data = save.data, SaveOrder(job.todo \ {name}),
             SaveReading', "off" \notin job.todo
      PROVE  SaveState'
  <2>1. /\ job'.todo = job.todo \ {name} /\ job'.j = job.j /\ job'.from = job.from
        /\ name \in job.todo
    BY <1>3, StepOk
  <2>2. /\ "select" \notin job'.todo /\ "write" \notin job'.todo /\ "addr" \notin job'.todo
        /\ "cmd" \notin job'.todo /\ "len" \notin job'.todo /\ "off" \notin job'.todo
        /\ "cmd2" \in job'.todo
    BY <1>2, <1>3, <2>1 DEF SaveOrder
  <2>3. SaveWriting'
    BY <2>2 DEF SaveWriting, At
  <2>4. Untouched'
    BY <1>2, <1>3, <2>1 DEF Untouched
  <2> QED BY <1>3, <2>1, <2>2, <2>3, <2>4 DEF SaveState
<1>4. ASSUME job'.j = job.j, job'.from = job.from, save'.data = save.data,
             "off" \notin job.todo
      PROVE  Saved'
  BY <1>2, <1>4 DEF SaveReading, Saved
<1>5. CASE Step("select2", {"off"}) /\ SpiCommand
  <2>1. /\ "select2" \in job.todo /\ "off" \notin job.todo
        /\ job'.todo = job.todo \ {"select2"} /\ job'.j = job.j /\ job'.from = job.from
    BY <1>5, StepOk
  <2>2. /\ "read" \in job.todo /\ "addr2" \in job.todo /\ "len2" \in job.todo
        /\ "param" \in job.todo /\ "cmd2" \in job.todo /\ SaveOrder(job.todo \ {"select2"})
    BY <1>2, <2>1 DEF SaveOrder
  <2>3. save.state = "IDLE" /\ out = <<>>
    BY <1>2, <2>1, <2>2 DEF SaveReading, At
  <2>4. SaveTyped' /\ save'.in_pos = 0 /\ save'.data = save.data /\ save'.state = "SELECTED"
    BY <1>2, <1>5, <2>3, SpiCommandIs
  <2>5. SaveReading'
    BY <1>4, <2>1, <2>2, <2>3, <2>4 DEF SaveReading, At
  <2> QED BY <1>3, <1>5, <2>1, <2>2, <2>4, <2>5
<1>6. CASE Step("read", {"select2"}) /\ WriteSpiFifo(job.j.cmd)
  <2>1. /\ "read" \in job.todo /\ "select2" \notin job.todo
        /\ job'.todo = job.todo \ {"read"} /\ job'.j = job.j /\ job'.from = job.from
    BY <1>6, StepOk
  <2>2. /\ "off" \notin job.todo /\ "addr2" \in job.todo /\ "len2" \in job.todo
        /\ "param" \in job.todo /\ "cmd2" \in job.todo /\ SaveOrder(job.todo \ {"read"})
    BY <1>2, <2>1 DEF SaveOrder
  <2>3. save.state = "SELECTED" /\ save.in_pos = 0 /\ out = <<>>
    BY <1>2, <2>1, <2>2 DEF SaveReading, At
  <2>4. /\ SaveTyped' /\ save'.in_pos = 1 /\ save'.data = save.data
        /\ save'.state = "SELECTED" /\ save'.input[0] = job.j.cmd
    BY <1>2, <1>6, <2>3, SpiFifoIs
  <2>5. SaveReading'
    BY <1>4, <2>1, <2>2, <2>3, <2>4 DEF SaveReading, At
  <2> QED BY <1>3, <1>6, <2>2, <2>4, <2>5
<1>7. CASE Step("len2", {"read"}) /\ WriteSpiLength(job.j.read)
  <2>1. /\ "len2" \in job.todo /\ "read" \notin job.todo
        /\ job'.todo = job.todo \ {"len2"} /\ job'.j = job.j /\ job'.from = job.from
    BY <1>7, StepOk
  <2>2. /\ "off" \notin job.todo /\ "select2" \notin job.todo
        /\ "param" \in job.todo /\ "cmd2" \in job.todo /\ SaveOrder(job.todo \ {"len2"})
    BY <1>2, <2>1 DEF SaveOrder
  <2>3. /\ SaveTyped' /\ save'.data = save.data /\ save'.len = job.j.read
        /\ save'.state = save.state /\ save'.in_pos = save.in_pos /\ save'.input = save.input
    BY <1>2, <1>7, SpiLengthIs
  <2>4. SaveReading'
    BY <1>2, <1>4, <2>1, <2>2, <2>3 DEF SaveReading, At
  <2> QED BY <1>3, <1>7, <2>2, <2>3, <2>4
<1>8. ASSUME "addr2" \in job.todo, "read" \notin job.todo
      PROVE  /\ "off" \notin job.todo /\ "select2" \notin job.todo
             /\ "param" \in job.todo /\ "cmd2" \in job.todo /\ SaveOrder(job.todo \ {"addr2"})
             /\ save.state = "SELECTED" /\ save.in_pos = 1 /\ save.input[0] = job.j.cmd
             /\ out = <<>>
             /\ "len2" \notin job.todo => save.len = job.j.read
  <2>1. /\ "off" \notin job.todo /\ "select2" \notin job.todo
        /\ "param" \in job.todo /\ "cmd2" \in job.todo /\ SaveOrder(job.todo \ {"addr2"})
    BY <1>2, <1>8 DEF SaveOrder
  <2> QED BY <1>2, <1>8, <2>1 DEF SaveReading, At
<1>9. CASE job.j.cmd = 235 /\ Step("addr2", {"read"}) /\ SpiCommand
  <2>1. /\ "addr2" \in job.todo /\ "read" \notin job.todo
        /\ job'.todo = job.todo \ {"addr2"} /\ job'.j = job.j /\ job'.from = job.from
    BY <1>9, StepOk
  <2>2. /\ SaveTyped' /\ save'.data = save.data /\ save'.len = save.len
        /\ save'.state = "NEEDS_PARAMS" /\ save'.in_pos = 0
    BY <1>2, <1>8, <1>9, <2>1, SpiCommandIs
  <2>3. SaveReading'
    BY <1>4, <1>8, <1>9, <2>1, <2>2 DEF SaveReading, At
  <2> QED BY <1>3, <1>8, <1>9, <2>1, <2>2, <2>3
<1>10. CASE job.j.cmd = 3 /\ Step("addr2", {"read", "len2"}) /\ WriteSpiFifo(0)
  <2>1. /\ "addr2" \in job.todo /\ "read" \notin job.todo
        /\ job'.todo = job.todo \ {"addr2"} /\ job'.j = job.j /\ job'.from = job.from
    BY <1>10, StepOk
  <2>2. 0 \in Buffer /\ 0 # save.in_pos
    BY <1>1, <1>8, <2>1
  <2>3. /\ SaveTyped' /\ save'.data = save.data /\ save'.len = save.len
        /\ save'.state = "SELECTED" /\ save'.input[0] = 3 /\ save'.input[1] = 0
    BY <1>2, <1>8, <1>10, <2>1, <2>2, SpiFifoIs
  <2>4. SaveReading'
    BY <1>4, <1>8, <1>10, <2>1, <2>3 DEF SaveReading, At
  <2> QED BY <1>3, <1>8, <1>10, <2>1, <2>3, <2>4
<1>11. ASSUME "param" \in job.todo, "addr2" \notin job.todo, "len2" \notin job.todo
       PROVE  /\ "off" \notin job.todo /\ "select2" \notin job.todo /\ "read" \notin job.todo
              /\ "cmd2" \in job.todo /\ SaveOrder(job.todo \ {"param"})
              /\ job.j.cmd = 3 =>
                     save.state = "SELECTED" /\ save.input[0] = 3 /\ save.input[1] = 0
              /\ job.j.cmd = 235 => save.state = "NEEDS_PARAMS" /\ save.in_pos = 0
              /\ out = <<>> /\ save.len = job.j.read
  <2>1. /\ "off" \notin job.todo /\ "select2" \notin job.todo /\ "read" \notin job.todo
        /\ "cmd2" \in job.todo /\ SaveOrder(job.todo \ {"param"})
    BY <1>2, <1>11 DEF SaveOrder
  <2> QED BY <1>2, <1>11, <2>1 DEF SaveReading, At
<1>12. CASE job.j.cmd = 235 /\ Step("param", {"addr2", "len2"}) /\ WriteSpiFifo(0)
  <2>1. /\ "param" \in job.todo /\ "addr2" \notin job.todo /\ "len2" \notin job.todo
        /\ job'.todo = job.todo \ {"param"} /\ job'.j = job.j /\ job'.from = job.from
    BY <1>12, StepOk
  <2>2. /\ SaveTyped' /\ save'.data = save.data /\ save'.len = save.len
        /\ save'.state = "NEEDS_PARAMS" /\ save'.input[0] = 0
    BY <1>2, <1>11, <1>12, <2>1, SpiFifoIs
  <2>3. SaveReading'
    BY <1>4, <1>11, <1>12, <2>1, <2>2 DEF SaveReading, At
  <2> QED BY <1>3, <1>11, <1>12, <2>1, <2>2, <2>3
<1>13. CASE job.j.cmd = 3 /\ Step("param", {"addr2", "len2"}) /\ WriteSpiLength(job.j.read)
  <2>1. /\ "param" \in job.todo /\ "addr2" \notin job.todo /\ "len2" \notin job.todo
        /\ job'.todo = job.todo \ {"param"} /\ job'.j = job.j /\ job'.from = job.from
    BY <1>13, StepOk
  <2>2. /\ SaveTyped' /\ save'.data = save.data /\ save'.len = job.j.read
        /\ save'.state = "SELECTED" /\ save'.input[0] = 3 /\ save'.input[1] = 0
    BY <1>2, <1>11, <1>13, <2>1, SpiLengthIs
  <2>3. SaveReading'
    BY <1>4, <1>11, <1>13, <2>1, <2>2 DEF SaveReading, At
  <2> QED BY <1>3, <1>11, <1>13, <2>1, <2>2, <2>3
<1>14. CASE /\ Step("addr2", {"read", "len2"} \ (IF job.j.cmd = 235 THEN {"len2"} ELSE {}))
            /\ (IF job.j.cmd = 235 THEN SpiCommand ELSE WriteSpiFifo(0))
  <2> DEFINE needed == {"read", "len2"} \ (IF job.j.cmd = 235 THEN {"len2"} ELSE {})
  <2>1. job.j.cmd = 235 => needed = {"read"}
    OBVIOUS
  <2>2. job.j.cmd # 235 => needed = {"read", "len2"}
    OBVIOUS
  <2>3. Step("addr2", needed)
    BY <1>14
  <2> HIDE DEF needed
  <2>4. CASE job.j.cmd = 235
    <3>1. Step("addr2", {"read"}) /\ SpiCommand
      BY <1>14, <2>1, <2>3, <2>4
    <3> QED BY <1>9, <2>4, <3>1
  <2>5. CASE job.j.cmd # 235
    <3>1. job.j.cmd = 3 /\ Step("addr2", {"read", "len2"}) /\ WriteSpiFifo(0)
      BY <1>1, <1>14, <2>2, <2>3, <2>5
    <3> QED BY <1>10, <3>1
  <2> QED BY <2>4, <2>5
<1>15. CASE /\ Step("param", {"addr2", "len2"})
            /\ (IF job.j.cmd = 235 THEN WriteSpiFifo(0) ELSE WriteSpiLength(job.j.read))
  BY <1>1, <1>12, <1>13, <1>15
<1> QED BY <1>5, <1>6, <1>7, <1>14, <1>15

(* The command that reads. *)
LEMMA SaveIsFetched ==
    ASSUME JobOk, SaveState, job.j.route = "save", NoDma', out' = out,
           Step("cmd2", {"param"}), SpiCommand
    PROVE  SaveState'
<1>1. /\ job.from \in Nat /\ job.j.n \in Nat /\ job.j.cmd \in {3, 235}
      /\ job.j.read \in 0..(4 * SaveWords)
      /\ SaveWords \in Nat \ {0} /\ Buffer = 0..(SaveWords - 1)
  BY SaveParameters
<1>2. /\ SaveTyped /\ SaveOrder(job.todo) /\ Untouched /\ SaveReading
  BY DEF SaveState
<1>3. /\ "cmd2" \in job.todo /\ "param" \notin job.todo
      /\ job'.todo = job.todo \ {"cmd2"} /\ job'.j = job.j /\ job'.from = job.from
  BY StepOk
<1>4. /\ "select" \notin job.todo /\ "write" \notin job.todo /\ "addr" \notin job.todo
      /\ "cmd" \notin job.todo /\ "len" \notin job.todo /\ "off" \notin job.todo
      /\ "select2" \notin job.todo /\ "read" \notin job.todo /\ "addr2" \notin job.todo
      /\ "len2" \notin job.todo /\ SaveOrder(job.todo \ {"cmd2"})
  BY <1>2, <1>3 DEF SaveOrder
<1>5. /\ Saved /\ save.len = job.j.read /\ out = <<>>
      /\ job.j.cmd = 3 => save.state = "SELECTED" /\ save.input[0] = 3 /\ save.input[1] = 0
      /\ job.j.cmd = 235 => save.state = "NEEDS_PARAMS" /\ save.input[0] = 0
  BY <1>2, <1>3, <1>4 DEF SaveReading, At
<1>6. /\ SaveTyped' /\ save'.data = save.data /\ save'.len = job.j.read
      /\ save'.state = "SELECTED" /\ save'.addr = 0 /\ save'.out_pos = 0
      /\ FetchedIs(save'.output, 0, job.j.read)
  <2>1. CASE job.j.cmd = 3
    BY <1>2, <1>5, <2>1, SpiCommandIs
  <2>2. CASE job.j.cmd = 235
    BY <1>2, <1>5, <2>2, SpiCommandIs
  <2> QED BY <1>1, <2>1, <2>2
<1>7. SaveWriting' /\ Untouched'
  BY <1>2, <1>3, <1>4, <1>6 DEF SaveWriting, At, Untouched
<1>8. SaveReading'
  <2>1. Saved'
    BY <1>3, <1>5, <1>6 DEF Saved
  <2> QED BY <1>3, <1>4, <2>1 DEF SaveReading, At
<1>9. ReadBack'
  <2>1. /\ job.j.read \in 0..job.j.read /\ job.j.read - job.j.read = 0
        /\ 0 \in Buffer /\ 0 + 0 = 0 /\ job.j.read - 0 = job.j.read
        /\ job.from + 0 - 1 = job.from - 1
    BY <1>1
  <2>2. DOMAIN out' = job.from..(job.from + 0 - 1)
    <3>1. job.from..(job.from + 0 - 1) = {}
      BY <1>1
    <3> QED BY <1>5, <3>1, NothingIsOut
  <2>3. FetchedIs(save.output, save.addr, job.j.read - save.addr)'
    BY <1>3, <1>6, <2>1 DEF FetchedIs
  <2>4. \A m : m \notin DOMAIN out'
    BY <1>5, NothingIsOut
  <2> QED BY <1>3, <1>6, <2>1, <2>2, <2>3, <2>4 DEF ReadBack
<1> QED BY <1>3, <1>4, <1>6, <1>7, <1>8, <1>9 DEF SaveState

(* A word is read. *)
LEMMA SaveWordIsRead ==
    ASSUME JobOk, SaveState, job.j.route = "save", NoDma', job.todo = {}, job' = job,
           ReadSpiFifo, Store(job.from + (job.j.read - save.len), SpiFifo)
    PROVE  SaveState'
<1>1. /\ job.from \in Nat /\ job.j.n \in Nat /\ job.j.read \in 0..(4 * SaveWords)
      /\ SaveWords \in Nat \ {0} /\ Buffer = 0..(SaveWords - 1)
  BY SaveParameters
<1>2. /\ SaveTyped /\ Untouched /\ SaveReading /\ ReadBack /\ save.len > 0
  BY DEF SaveState, ReadSpiFifo
<1>3. /\ save.len \in 0..job.j.read /\ save.state = "SELECTED" /\ Saved
      /\ DOMAIN out = job.from..(job.from + (job.j.read - save.len) - 1)
      /\ \A m \in DOMAIN out : out[m] = IF m < job.from + job.j.n THEN m ELSE 0
      /\ save.addr \in Nat /\ save.out_pos \in Buffer
      /\ save.addr + save.out_pos = job.j.read - save.len
      /\ FetchedIs(save.output, save.addr, job.j.read - save.addr)
  BY <1>2 DEF ReadBack, SaveReading
<1>4. PICK r \in Nat, l \in Nat, f \in Nat, a \in Nat, p \in Nat, n \in Nat, w \in Nat :
          /\ r = job.j.read /\ l = save.len /\ f = job.from /\ a = save.addr /\ p = save.out_pos
          /\ n = job.j.n /\ w = SaveWords /\ Buffer = 0..(w - 1) /\ 4 * SaveWords = 4 * w
  <2>1. \A x \in 0..job.j.read : x \in Nat
    BY <1>1
  <2>2. \A x \in 0..(4 * SaveWords) : x \in Nat
    OBVIOUS
  <2>3. \A x \in 0..(SaveWords - 1) : x \in Nat
    OBVIOUS
  <2> QED BY <1>1, <1>3, <2>1, <2>2, <2>3
<1>5. /\ a + p = r - l /\ l > 0 /\ l <= r /\ p < w /\ r <= 4 * w
  BY <1>1, <1>2, <1>3, <1>4
<1>6. SpiFifo = IF a + p < n THEN f + (a + p) ELSE 0
  <2>1. p \in 0..(w - 1) /\ p < r - a /\ a + p \in 0..(4 * w)
    BY <1>5
  <2>2. SpiFifo = save.data[a + p]
    BY <1>3, <1>4, <2>1 DEF FetchedIs, SpiFifo
  <2> QED BY <1>3, <1>4, <2>1, <2>2 DEF Saved
<1>7. PICK at \in Nat : at = f + (a + p)
  OBVIOUS
<1>8. /\ DOMAIN out' = {at} \union DOMAIN out
      /\ out'[at] = IF at < f + n THEN at ELSE 0
      /\ \A m \in DOMAIN out : m # at => out'[m] = out[m]
  <2>1. Store(at, SpiFifo)
    BY <1>4, <1>5, <1>7
  <2>2. SpiFifo = IF at < f + n THEN at ELSE 0
    BY <1>6, <1>7
  <2> QED BY <2>1, <2>2, OutIs
<1>9. DOMAIN out' = f..at /\ \A m \in DOMAIN out' : out'[m] = IF m < f + n THEN m ELSE 0
  <2>1. f + (r - l) - 1 = at - 1 /\ f <= at /\ f \in Int /\ at \in Int
    BY <1>5, <1>7
  <2>2. DOMAIN out = f..(at - 1)
    BY <1>3, <1>4, <2>1
  <2>3. DOMAIN out' = f..at
    BY <1>8, <2>1, <2>2, IntervalGrows
  <2> QED BY <1>3, <1>4, <1>8, <2>3
<1>10. /\ SaveTyped' /\ save'.state = save.state /\ save'.data = save.data
       /\ save'.len = l - 1
       /\ \/ /\ save'.addr = a /\ save'.out_pos = p + 1 /\ save'.output = save.output
             /\ save'.out_pos < w \/ save'.len = 0
          \/ /\ p + 1 >= w /\ save'.addr = a + w /\ save'.out_pos = 0
             /\ FetchedIs(save'.output, save'.addr, save'.len)
  BY <1>2, <1>4, SpiFifoIsRead
<1>11. l - 1 \in 0..r /\ f + (r - (l - 1)) - 1 = at
  BY <1>5, <1>7
<1>12. ASSUME save'.len > 0
       PROVE  /\ save'.addr \in Nat /\ save'.out_pos \in Buffer
              /\ save'.addr + save'.out_pos = r - (l - 1)
              /\ FetchedIs(save'.output, save'.addr, r - save'.addr)
  <2>1. CASE /\ save'.addr = a /\ save'.out_pos = p + 1 /\ save'.output = save.output
             /\ save'.out_pos < w \/ save'.len = 0
    <3>1. p + 1 < w
      BY <1>5, <1>10, <1>12, <2>1
    <3>2. p + 1 \in 0..(w - 1) /\ a + (p + 1) = r - (l - 1)
      BY <1>5, <3>1
    <3> QED BY <1>3, <1>4, <2>1, <3>2
  <2>2. CASE /\ p + 1 >= w /\ save'.addr = a + w /\ save'.out_pos = 0
             /\ FetchedIs(save'.output, save'.addr, save'.len)
    <3>1. p + 1 >= w
      BY <2>2
    <3>2. /\ a + w \in Nat /\ 0 \in 0..(w - 1)
          /\ (a + w) + 0 = r - (l - 1) /\ r - (a + w) = l - 1
      BY <1>5, <3>1
    <3> QED BY <1>4, <1>10, <2>2, <3>2
  <2> QED BY <1>10, <2>1, <2>2
<1>13. ReadBack'
  <2>1. FetchedIs(save'.output, save'.addr, r - save'.addr) =>
            FetchedIs(save.output, save.addr, job.j.read - save.addr)'
    BY <1>4, <1>10 DEF FetchedIs
  <2>2. /\ DOMAIN out' = job'.from..(job'.from + (job'.j.read - save'.len) - 1)
        /\ save'.len \in 0..job'.j.read
    BY <1>4, <1>9, <1>10, <1>11
  <2>3. \A m \in DOMAIN out' : out'[m] = IF m < job'.from + job'.j.n THEN m ELSE 0
    BY <1>4, <1>9
  <2>4. save'.len > 0 =>
           /\ save'.addr \in Nat /\ save'.out_pos \in Buffer
           /\ save'.addr + save'.out_pos = job'.j.read - save'.len
    BY <1>4, <1>10, <1>12
  <2> QED BY <1>3, <1>10, <1>12, <2>1, <2>2, <2>3, <2>4 DEF ReadBack
<1>14. SaveWriting' /\ Untouched' /\ SaveReading'
  BY <1>2, <1>3, <1>10 DEF SaveWriting, At, Untouched, SaveReading, Saved
<1> QED BY <1>10, <1>13, <1>14 DEF SaveState, SaveOrder

(* The selection ends when all has been read. *)
LEMMA SaveReadEnds ==
    ASSUME JobOk, SaveState, job.j.route = "save", NoDma', job.todo = {}, job' = job,
           save.len = 0, save.state = "SELECTED", ClearChipSelect, out' = out
    PROVE  SaveState'
<1>1. /\ SaveTyped /\ Untouched /\ SaveReading /\ ReadBack
  BY DEF SaveState
<1>2. SaveTyped' /\ save'.state = "IDLE" /\ save'.len = 0 /\ save'.data = save.data
  BY <1>1, SelectionEnds
<1>3. SaveWriting' /\ Untouched' /\ SaveReading'
  BY <1>1, <1>2 DEF SaveWriting, At, Untouched, SaveReading, Saved
<1>4. ReadBack'
  BY <1>1, <1>2 DEF ReadBack
<1> QED BY <1>2, <1>3, <1>4 DEF SaveState, SaveOrder

LEMMA SaveDriver ==
    ASSUME BusOk, SaveState, SaveJob
    PROVE  SaveState'
<1>1. JobOk /\ job.j.route = "save" /\ NoDma'
  BY NoDmaStays DEF BusOk, SaveJob, On, SaveState
<1>2. CASE /\ Registers_
           /\ \/ Step("select", {}) /\ SpiCommand
              \/ Step("write", {"select"}) /\ WriteSpiFifo(2)
              \/ Step("addr", {"write"}) /\ WriteSpiFifo(0)
              \/ Step("cmd", {"addr"}) /\ SpiCommand
              \/ Step("len", {"cmd"}) /\ WriteSpiLength(job.j.n)
  BY <1>1, <1>2, SaveWrites DEF Registers_
<1>3. CASE /\ Registers_ /\ job.fed < job.j.n /\ "len" \notin job.todo /\ "off" \in job.todo
           /\ Fed(1) /\ WriteSpiFifo(job.from + job.fed)
  BY <1>1, <1>3, SaveWord DEF Registers_
<1>4. CASE Registers_ /\ job.fed = job.j.n /\ Step("off", {"len"}) /\ ClearChipSelect
  BY <1>1, <1>4, SaveIsWritten DEF Registers_
<1>5. CASE /\ Registers_
           /\ \/ Step("select2", {"off"}) /\ SpiCommand
              \/ Step("read", {"select2"}) /\ WriteSpiFifo(job.j.cmd)
              \/ Step("addr2", {"read", "len2"} \ (IF job.j.cmd = 235 THEN {"len2"} ELSE {}))
                 /\ (IF job.j.cmd = 235 THEN SpiCommand ELSE WriteSpiFifo(0))
              \/ Step("len2", {"read"}) /\ WriteSpiLength(job.j.read)
              \/ Step("param", {"addr2", "len2"})
                 /\ (IF job.j.cmd = 235 THEN WriteSpiFifo(0) ELSE WriteSpiLength(job.j.read))
  BY <1>1, <1>5, SaveReads DEF Registers_
<1>6. CASE Registers_ /\ Step("cmd2", {"param"}) /\ SpiCommand
  BY <1>1, <1>6, SaveIsFetched DEF Registers_
<1>7. CASE /\ Registers_ /\ job.todo = {} /\ save.len = 0 /\ save.state = "SELECTED"
           /\ ClearChipSelect /\ job' = job
  BY <1>1, <1>7, SaveReadEnds DEF Registers_
<1>8. CASE /\ job.todo = {} /\ save.len > 0 /\ ReadSpiFifo /\ job' = job
           /\ Store(job.from + (job.j.read - save.len), SpiFifo)
  BY <1>1, <1>8, SaveWordIsRead
<1> QED BY <1>2, <1>3, <1>4, <1>5, <1>6, <1>7, <1>8 DEF SaveJob

LEMMA SaveBegins ==
    ASSUME BusOk', job'.j.route = "save", job'.todo = job'.j.todo, job'.fed = 0,
           NoDma', out' = <<>>, SaveTyped', Untouched', save'.state = "IDLE"
    PROVE  SaveState'
<1>1. {"select", "write", "addr", "cmd", "len", "off", "select2", "read",
       "addr2", "len2", "param", "cmd2"} \subseteq job'.todo
  BY JobsAssumption DEF BusOk, JobOk
<1>2. SaveOrder(job'.todo)
  BY <1>1 DEF SaveOrder
<1>3. SaveWriting' /\ SaveReading'
  BY <1>1 DEF SaveWriting, SaveReading, At
<1> QED BY <1>1, <1>2, <1>3 DEF SaveState

LEMMA SaveNext ==
    ASSUME KeyInv, BusInv, SaveInv, [Next]_vars
    PROVE  SaveInv'
<1> SUFFICES ASSUME job.j.route = "save"
             PROVE  SaveState'
  BY RouteStays DEF SaveInv
<1>1. SaveState /\ BusOk /\ BusOk' /\ job'.j.route = "save" /\ JobOk
  <2>1. job'.j.route = "save" /\ BusInv'
    BY RouteStays, BusNext
  <2> QED BY <2>1 DEF SaveInv, BusInv, BusOk
<1>2. job'.j.n = job.j.n
  <2>1. job.j \in Jobs /\ job'.j \in Jobs
    BY <1>1 DEF BusOk, JobOk
  <2> QED BY <1>1, <2>1, JobsAssumption
<1>3. CASE Reset
  <2>1. NoDma' /\ out' = <<>> /\ NextProgram /\ CartridgeReset
    BY <1>3, ResetNoDma DEF Reset
  <2>2. /\ SaveTyped /\ Untouched
        /\ save' = [save EXCEPT !.state = "IDLE", !.in_pos = 0, !.out_pos = 0, !.len = 0]
    BY <1>1, <2>1 DEF SaveState, CartridgeReset
  <2>3. SaveTyped' /\ save'.state = "IDLE" /\ save'.data = save.data
    BY <2>2 DEF SaveTyped, SaveNames
  <2>4. Untouched'
    BY <1>2, <2>2, <2>3 DEF Untouched
  <2> QED BY <1>1, <2>1, <2>3, <2>4, ProgramOk, SaveBegins
<1>4. CASE Driver
  <2>1. NextJob \/ SaveJob
    BY <1>4, DriverIs
  <2>2. CASE NextJob
    <3>1. out' = <<>> /\ NextProgram /\ UNCHANGED <<chan, run, save>> /\ SaveDone
      BY <1>1, <2>2 DEF NextJob, devices, cardVars, Done
    <3>2. NoDma' /\ SaveTyped' /\ Untouched' /\ save'.state = "IDLE"
      BY <1>1, <1>2, <3>1, NoDmaStays DEF SaveState, SaveTyped, Untouched, SaveDone
    <3> QED BY <1>1, <3>1, <3>2, ProgramOk, SaveBegins
  <2> QED BY <1>1, <2>1, <2>2, SaveDriver
<1>5. ASSUME NoDma', UNCHANGED <<save, out, job>>
      PROVE  SaveState'
  <2>1. SaveTyped' /\ Untouched' /\ SaveWriting' /\ SaveReading' /\ SaveOrder(job.todo)'
    BY <1>1, <1>5 DEF SaveState, SaveTyped, Untouched, SaveWriting, SaveReading, At, Saved,
                      SaveOrder
  <2>2. "cmd2" \notin job.todo => ReadBack'
    BY <1>1, <1>5 DEF SaveState, ReadBack, FetchedIs
  <2> QED BY <1>5, <2>1, <2>2 DEF SaveState
<1>6. CASE Dma \/ Defer \/ Deliver \/ EndSlice
  BY <1>1, <1>5, <1>6, NoDmaKeeps DEF SaveState, devices, cardVars
<1>7. CASE UNCHANGED vars
  BY <1>1, <1>5, <1>7, NoDmaStays DEF SaveState, vars, dmaVars, devices, cardVars
<1> QED BY <1>3, <1>4, <1>6, <1>7 DEF Next

LEMMA SaveInit == Init => SaveInv
<1> SUFFICES ASSUME Init, job.j.route = "save" PROVE SaveState
  BY DEF SaveInv
<1>1. NoDma /\ out = <<>> /\ JobOk /\ job.todo = job.j.todo /\ job.fed = 0
  BY InitNoDma, JobInitially
<1>2. {"select", "write", "addr", "cmd", "len", "off", "select2", "read",
       "addr2", "len2", "param", "cmd2"} \subseteq job.todo
  BY <1>1, JobsAssumption DEF JobOk
<1>3. SaveTyped /\ save.state = "IDLE" /\ Untouched
  BY DEF Init, CartridgeInit, SaveTyped, SaveNames, Buffer, Untouched
<1> QED BY <1>1, <1>2, <1>3 DEF SaveState, SaveOrder, SaveWriting, SaveReading, At

LEMMA SaveDelivered ==
    ASSUME BusInv, SaveInv, job.j.route = "save"
    PROVE  DeliveredIsExpected
<1>1. SaveState /\ MediaOk /\ JobOk
  BY DEF SaveInv, BusInv, BusOk
<1>2. job.from \in Nat /\ job.j.read \in Nat
  <2>1. job.from \in Nat /\ job.j.read \in 0..(4 * SaveWords)
    BY <1>1, SaveParameters
  <2> QED BY <2>1
<1>3. \A n \in DOMAIN out : out[n] = Expected(n)
  <2>1. CASE "cmd2" \in job.todo
    BY <1>1, <2>1, NothingIsOut DEF SaveState, SaveReading
  <2>2. CASE "cmd2" \notin job.todo
    BY <1>1, <2>2 DEF SaveState, ReadBack, Expected
  <2> QED BY <2>1, <2>2
<1>4. ASSUME run.phase = "cpu", Done
      PROVE  Cardinality(DOMAIN out) = InMemory(job.j)
  <2>1. job.todo = {} /\ save.state = "IDLE" /\ ReadBack
    BY <1>1, <1>4 DEF Done, SaveDone, SaveState
  <2>2. save.len = 0 /\ job.j.read - save.len = job.j.read
    BY <1>2, <2>1 DEF ReadBack
  <2>3. DOMAIN out = job.from..(job.from + job.j.read - 1)
    BY <2>1, <2>2 DEF ReadBack
  <2>4. PICK a \in Int, n \in Nat : a = job.from /\ n = job.j.read
    BY <1>2
  <2>5. DOMAIN out = a..(a + n - 1)
    BY <2>3, <2>4
  <2>6. Cardinality(DOMAIN out) = n
    BY <2>5, IntervalSize
  <2> QED BY <2>4, <2>6 DEF InMemory
<1> QED BY <1>1, <1>3, <1>4, MemoryIsDelivered

-----------------------------------------------------------------------------
(* A card, which the processor and channel 0 read in turn.                  *)

(* What the channel reads of a bufferful, and of the whole card. *)
Rest == BufferWords - Early
Rests == (Total \div BufferWords) * Rest

(* Bufferful q begins at word b, and the channel's part of it at its word s. *)
Bufferful(t, n, q, b, s) ==
    /\ q \in Nat /\ b \in Nat /\ s \in Nat /\ t \in Nat /\ n \in Nat
    /\ b = BufferWords * q /\ s = Rest * q
    /\ b + BufferWords <= t /\ s + Rest <= n
    /\ b + BufferWords = t <=> s + Rest = n

LEMMA CardConstants ==
    /\ BufferWords \in Nat \ {0} /\ Early \in 1..(BufferWords - 1)
    /\ Rest \in 1..(BufferWords - 1) /\ Early + Rest = BufferWords
BY CartridgeAssumption DEF Rest

(* A whole number of buffers. *)
Buffers(t, n, m) ==
    /\ m \in Nat \ {0} /\ t \in Nat \ {0} /\ n \in Nat \ {0} /\ n <= t
    /\ t = BufferWords * m /\ n = Rest * m

LEMMA CardSizes ==
    ASSUME JobOk, job.j.route = "card"
    PROVE  /\ \E m : Buffers(Total, Rests, m)
           /\ Total < CountLimit /\ CountLimit \in Nat \ {0}
<1>0. job.j \in Jobs
  BY DEF JobOk
<1>1. /\ job.j.n \in Nat \ {0} /\ SectorWords \in Nat \ {0}
      /\ (job.j.n * SectorWords) % BufferWords = 0 /\ job.j.n * SectorWords < CountLimit
  BY <1>0, JobsAssumption, CartridgeAssumption
<1>2. Total \in Nat \ {0}
  <2>1. \A k \in Nat \ {0}, w \in Nat \ {0} : k * w \in Nat \ {0}
    OBVIOUS
  <2> QED BY <1>1, <2>1 DEF Total
<1> DEFINE m == Total \div BufferWords
<1>3. m \in Nat /\ Total = BufferWords * m
  <2>1. Total % BufferWords = 0
    BY <1>1 DEF Total
  <2>2. PICK k \in Nat, w \in Nat \ {0} : k = Total /\ w = BufferWords /\ k % w = 0
    BY <1>2, <2>1, CardConstants
  <2>3. k \div w \in Nat /\ k = w * (k \div w) + (k % w)
    BY DivMod
  <2>4. k \div w \in Nat /\ k = w * (k \div w)
    BY <2>2, <2>3
  <2> QED BY <2>2, <2>4
<1>4. Rests = Rest * m
  <2>1. PICK r \in Nat : r = Rest
    BY CardConstants
  <2> QED BY <1>3, <2>1 DEF Rests
<1> HIDE DEF m
<1>5. m # 0
  BY <1>2, <1>3, CardConstants
<1>6. Rest * m \in Nat \ {0} /\ Rest * m <= BufferWords * m
  <2>1. PICK r \in Nat \ {0}, w \in Nat : r = Rest /\ w = BufferWords /\ r <= w
    BY CardConstants
  <2>2. r * m \in Nat \ {0} /\ r * m <= w * m
    BY <1>3, <1>5, <2>1
  <2> QED BY <2>1, <2>2
<1>7. Total < CountLimit
  BY <1>1 DEF Total
<1> QED BY <1>2, <1>3, <1>4, <1>5, <1>6, <1>7, Dma9Assumption DEF Buffers

LEMMA FirstBufferful ==
    ASSUME NEW t, NEW n, NEW m, Buffers(t, n, m)
    PROVE  Bufferful(t, n, 0, 0, 0) /\ BufferWords <= t
<1>1. PICK r \in Nat \ {0}, w \in Nat \ {0} : r = Rest /\ w = BufferWords
  BY CardConstants
<1>2. m \in Nat \ {0} /\ t \in Nat /\ n \in Nat /\ t = w * m /\ n = r * m
  BY <1>1 DEF Buffers
<1>3. w <= w * m /\ r <= r * m /\ (w * m = w <=> m = 1) /\ (r * m = r <=> m = 1)
  BY <1>1, <1>2
<1> QED BY <1>1, <1>2, <1>3 DEF Bufferful

LEMMA NextBufferful ==
    ASSUME NEW t, NEW n, NEW m, Buffers(t, n, m), NEW q, NEW b, NEW s, Bufferful(t, n, q, b, s),
           b + BufferWords # t
    PROVE  Bufferful(t, n, q + 1, b + BufferWords, s + Rest)
<1>1. PICK r \in Nat \ {0}, w \in Nat \ {0} : r = Rest /\ w = BufferWords
  BY CardConstants
<1>2. m \in Nat \ {0} /\ t \in Nat /\ n \in Nat /\ t = w * m /\ n = r * m
  BY <1>1 DEF Buffers
<1>3. /\ q \in Nat /\ b \in Nat /\ s \in Nat /\ b = w * q /\ s = r * q
      /\ b + w <= t /\ b + w # t
  BY <1>1 DEF Bufferful
<1>4. q + 1 \in Nat /\ b + w = w * (q + 1) /\ s + r = r * (q + 1)
  BY <1>1, <1>3
<1>5. q + 1 < m
  <2> SUFFICES ASSUME m <= q + 1 PROVE FALSE
    BY <1>2, <1>3
  <2>1. w * m <= w * (q + 1)
    BY <1>1, <1>2, <1>3
  <2> QED BY <1>2, <1>3, <1>4, <2>1
<1>6. /\ w * (q + 1) + w = w * (q + 2) /\ r * (q + 1) + r = r * (q + 2)
      /\ w * (q + 2) <= w * m /\ r * (q + 2) <= r * m
      /\ w * (q + 2) = w * m <=> q + 2 = m
      /\ r * (q + 2) = r * m <=> q + 2 = m
  <2>1. q + 2 \in Nat /\ q + 2 <= m
    BY <1>2, <1>3, <1>5
  <2>2. PICK x \in Nat, d \in Nat : x = q + 2 /\ m = x + d
    <3>1. m - (q + 2) \in Nat /\ m = (q + 2) + (m - (q + 2))
      BY <1>2, <2>1
    <3> QED BY <2>1, <3>1
  <2>3. ASSUME NEW k \in Nat \ {0}
        PROVE  k * x <= k * m /\ (k * x = k * m <=> x = m) /\ k * (q + 1) + k = k * x
    <3>1. k * m = k * x + k * d /\ k * d \in Nat /\ (k * d = 0 <=> d = 0)
      BY <2>2
    <3>2. k * x \in Nat /\ k * (q + 1) + k = k * (q + 2)
      BY <1>3, <2>2
    <3> QED BY <2>2, <3>1, <3>2
  <2> QED BY <2>2, <2>3
<1> QED BY <1>1, <1>2, <1>3, <1>4, <1>6 DEF Bufferful

(* The words of a card that are in the memory: the processor's where they   *)
(* are in the card, the channel's behind all of them.                       *)
WordOfCard(from, t, n) ==
    LET i == n - from - t IN
    Data(IF i < 0 THEN n ELSE from + (i \div Rest) * BufferWords + Early + (i % Rest))

ProcessorExpects(from, t, b) ==
    \A p \in 0..(BufferWords - 1) : WordOfCard(from, t, from + b + p) = Data(from + b + p)
ChannelExpects(from, t, b, s) ==
    \A i \in 0..(Rest - 1) :
        WordOfCard(from, t, from + t + s + i) = Data(from + b + Early + i)

LEMMA CardExpects ==
    ASSUME NEW from \in Int, NEW t, NEW n, NEW q, NEW b, NEW s, Bufferful(t, n, q, b, s)
    PROVE  ProcessorExpects(from, t, b) /\ ChannelExpects(from, t, b, s)
<1>1. PICK r \in Nat \ {0}, w \in Nat \ {0}, e \in Nat :
          r = Rest /\ w = BufferWords /\ e = Early
  BY CardConstants
<1>2. /\ q \in Nat /\ b \in Nat /\ s \in Nat /\ t \in Nat /\ b = w * q /\ s = r * q
      /\ b + w <= t
  BY <1>1 DEF Bufferful
<1>3. ASSUME NEW p \in 0..(w - 1)
      PROVE  WordOfCard(from, t, from + b + p) = Data(from + b + p)
  <2>1. PICK n_ \in Int : n_ = from + b + p /\ n_ - from - t < 0
    <3>1. from + b + p \in Int /\ (from + b + p) - from - t < 0
      BY <1>2
    <3> QED BY <3>1
  <2>2. WordOfCard(from, t, n_) = Data(n_)
    BY <2>1 DEF WordOfCard
  <2> QED BY <2>1, <2>2
<1>4. ASSUME NEW i \in 0..(r - 1)
      PROVE  WordOfCard(from, t, from + t + s + i) = Data(from + b + e + i)
  <2>1. q \in Int
    BY <1>2
  <2>2. (r * q + i) \div r = q /\ (r * q + i) % r = i
    BY <2>1, DivUnique
  <2>3. PICK n_ \in Int, k \in Nat :
            n_ = from + t + s + i /\ k = s + i /\ n_ - from - t = k /\ k = r * q + i
    <3>1. /\ from + t + s + i \in Int /\ s + i \in Nat /\ s + i = r * q + i
          /\ (from + t + s + i) - from - t = s + i
      BY <1>2
    <3> QED BY <3>1
  <2>4. k \div r = q /\ k % r = i /\ ~(k < 0)
    BY <2>2, <2>3
  <2>5. WordOfCard(from, t, n_) = Data(from + q * w + e + i)
    BY <1>1, <2>3, <2>4 DEF WordOfCard
  <2>6. from + q * w + e + i = from + b + e + i
    BY <1>2
  <2> QED BY <2>3, <2>5, <2>6
<1> QED BY <1>1, <1>3, <1>4 DEF ProcessorExpects, ChannelExpects

(* What is in the memory: k words, of the processor's none from word g on,  *)
(* and of the channel's the first d.                                        *)
OfCard(o, from, t, g, d, k) ==
    /\ IsFiniteSet(DOMAIN o) /\ Cardinality(DOMAIN o) = k
    /\ \A n \in DOMAIN o :
           /\ o[n] = WordOfCard(from, t, n) /\ n \in Int
           /\ n < from + g \/ (from + t <= n /\ n < from + t + d)

LEMMA NoneOfCard ==
    ASSUME NEW from, NEW t
    PROVE  OfCard(<<>>, from, t, 0, 0, 0)
BY NothingIsOut, FS_EmptySet DEF OfCard

LEMMA CardIsStored ==
    ASSUME NEW from \in Int, NEW t \in Nat, NEW g \in Nat, NEW d \in Nat, NEW k \in Nat,
           OfCard(out, from, t, g, d, k), NEW at, Store(at, WordOfCard(from, t, at)),
           \/ g < t /\ at = from + g
           \/ g <= t /\ at = from + t + d
    PROVE  /\ at = from + g => OfCard(out', from, t, g + 1, d, k + 1)
           /\ at = from + t + d => OfCard(out', from, t, g, d + 1, k + 1)
<1>1. /\ DOMAIN out' = DOMAIN out \union {at} /\ out'[at] = WordOfCard(from, t, at)
      /\ \A n \in DOMAIN out : n # at => out'[n] = out[n]
  BY OutIs
<1>2. at \in Int /\ at \notin DOMAIN out
  <2>1. \A n \in DOMAIN out : n \in Int /\ (n < from + g \/ (from + t <= n /\ n < from + t + d))
    BY DEF OfCard
  <2> QED BY <2>1
<1>3. IsFiniteSet(DOMAIN out') /\ Cardinality(DOMAIN out') = k + 1
  BY <1>1, <1>2, FS_AddElement DEF OfCard
<1>4. \A n \in DOMAIN out' : n \in Int /\ out'[n] = WordOfCard(from, t, n)
  BY <1>1, <1>2 DEF OfCard
<1>5. \A n \in DOMAIN out' :
         n = at \/ n < from + g \/ (from + t <= n /\ n < from + t + d)
  BY <1>1 DEF OfCard
<1>6. ASSUME at = from + g
      PROVE  OfCard(out', from, t, g + 1, d, k + 1)
  <2>1. \A n \in DOMAIN out' : n < from + (g + 1) \/ (from + t <= n /\ n < from + t + d)
    BY <1>4, <1>5, <1>6
  <2> QED BY <1>3, <1>4, <2>1 DEF OfCard
<1>7. ASSUME at = from + t + d
      PROVE  OfCard(out', from, t, g, d + 1, k + 1)
  <2>1. \A n \in DOMAIN out' : n < from + g \/ (from + t <= n /\ n < from + t + (d + 1))
    BY <1>4, <1>5, <1>7
  <2> QED BY <1>3, <1>4, <2>1 DEF OfCard
<1> QED BY <1>6, <1>7

(* The controller is at word p of the bufferful that begins at word b. *)
CardAt(from, t, b, p) ==
    /\ card.busy = TRUE /\ card.irq_enable = TRUE /\ card.kind = "card"
    /\ card.base = from + b /\ card.at = from + b + BufferWords
    /\ card.pos = p /\ card.left = t - (b + p)
    /\ 23 \notin IF_ /\ (pending["CTRCARD0"] => p >= Early)

CardOver == card.busy = FALSE /\ ~pending["CTRCARD0"]

(* The same when p words of the bufferful were read, of all perhaps. *)
CardAfter(from, t, b, p) ==
    /\ p < BufferWords => CardAt(from, t, b, p)
    /\ p = BufferWords /\ b + BufferWords # t => CardAt(from, t, b + BufferWords, 0)
    /\ p = BufferWords /\ b + BufferWords = t => CardOver

LEMMA CardIsRead ==
    ASSUME DOMAIN card = CardNames, DOMAIN pending = Requests, NEW from \in Int,
           NEW t \in Nat, NEW b \in Nat, NEW p \in 0..(BufferWords - 1), b + BufferWords <= t,
           CardAt(from, t, b, p), ReadCardFifo
    PROVE  /\ CardFifo = Data(from + b + p) /\ DOMAIN card' = CardNames /\ late' = late
           /\ CardAfter(from, t, b, p + 1)'
<1>1. PICK w \in Nat \ {0}, e \in Nat : w = BufferWords /\ e = Early /\ 0 < e /\ e < w
  BY CardConstants
<1>2. /\ card.kind = "card" /\ card.irq_enable = TRUE /\ card.base = from + b
      /\ card.at = from + b + w /\ card.pos = p /\ card.left = t - (b + p)
      /\ card.busy = TRUE /\ 23 \notin IF_ /\ (pending["CTRCARD0"] => p >= e)
  BY <1>1 DEF CardAt
<1>3. CardFifo = Data(from + b + p)
  BY <1>2 DEF CardFifo
<1>4. /\ card' = CtrAfterRead(p + 1, t - (b + (p + 1)))
      /\ late' = late
      /\ pending' = IF t - (b + (p + 1)) = 0 \/ p + 1 = w THEN Lines({}, {"CTRCARD0"})
                    ELSE IF p + 1 = e THEN Lines({"CTRCARD0"}, {}) ELSE pending
      /\ IF_' = IF t - (b + (p + 1)) = 0 THEN IF_ \union {23} ELSE IF_
  <2>1. card.pos + 1 = p + 1 /\ card.left - 1 = t - (b + (p + 1))
    BY <1>1, <1>2
  <2> QED BY <1>1, <1>2, <2>1 DEF ReadCardFifo
<1>5. Lines({}, {"CTRCARD0"})["CTRCARD0"] = FALSE
  BY DEF Lines, Requests
<1>6. CASE p + 1 < w
  <2>1. t - (b + (p + 1)) # 0 /\ p + 1 # w /\ p + 1 # BufferWords
    BY <1>1, <1>6
  <2>2. card' = [card EXCEPT !.left = t - (b + (p + 1)), !.pos = p + 1]
    BY <1>4, <2>1 DEF CtrAfterRead
  <2>3. /\ DOMAIN card' = CardNames /\ card'.left = t - (b + (p + 1)) /\ card'.pos = p + 1
        /\ card'.busy = TRUE /\ card'.irq_enable = TRUE /\ card'.kind = "card"
        /\ card'.base = from + b /\ card'.at = from + b + w
    BY <1>2, <2>2 DEF CardNames
  <2>4. IF_' = IF_ /\ (p + 1 # e => pending' = pending)
    BY <1>4, <2>1
  <2>5. p + 1 >= e \/ (p + 1 # e /\ ~(p >= e))
    BY <1>1
  <2>6. CardAt(from, t, b, p + 1)'
    BY <1>1, <1>2, <2>3, <2>4, <2>5 DEF CardAt
  <2> QED BY <1>1, <1>3, <1>4, <2>1, <2>3, <2>6 DEF CardAfter
<1>7. CASE p + 1 = w /\ b + w # t
  <2>1. t - (b + (p + 1)) # 0 /\ p + 1 = BufferWords /\ t - (b + (p + 1)) = t - ((b + w) + 0)
    BY <1>1, <1>7
  <2>2. card' = [card EXCEPT !.left = t - (b + (p + 1)), !.pos = 0, !.base = from + b + w,
                             !.at = from + b + w + w]
    BY <1>1, <1>2, <1>4, <2>1 DEF CtrAfterRead
  <2>3. /\ DOMAIN card' = CardNames /\ card'.left = t - ((b + w) + 0) /\ card'.pos = 0
        /\ card'.busy = TRUE /\ card'.irq_enable = TRUE /\ card'.kind = "card"
        /\ card'.base = from + b + w /\ card'.at = from + b + w + w
    BY <1>2, <2>1, <2>2 DEF CardNames
  <2>4. IF_' = IF_ /\ pending'["CTRCARD0"] = FALSE
    BY <1>4, <1>5, <1>7, <2>1
  <2>5. from + (b + w) = from + b + w
    OBVIOUS
  <2>6. CardAt(from, t, b + w, 0)'
    BY <1>1, <1>2, <2>3, <2>4, <2>5 DEF CardAt
  <2> QED BY <1>1, <1>3, <1>4, <1>7, <2>1, <2>3, <2>6 DEF CardAfter
<1>8. CASE p + 1 = w /\ b + w = t
  <2>1. t - (b + (p + 1)) = 0 /\ p + 1 = BufferWords
    BY <1>1, <1>8
  <2>2. card' = [card EXCEPT !.left = 0, !.pos = p + 1, !.busy = FALSE, !.ready = FALSE]
    BY <1>4, <2>1 DEF CtrAfterRead
  <2>3. DOMAIN card' = CardNames /\ card'.busy = FALSE
    BY <2>2 DEF CardNames
  <2>4. pending'["CTRCARD0"] = FALSE
    BY <1>4, <1>5, <2>1
  <2>5. CardOver'
    BY <2>3, <2>4 DEF CardOver
  <2> QED BY <1>1, <1>3, <1>4, <1>8, <2>1, <2>3, <2>5 DEF CardAfter
<1>9. p + 1 < w \/ p + 1 = w
  BY <1>1
<1> QED BY <1>6, <1>7, <1>8, <1>9

(* The channel, before and after it is started; s is where it is. *)
ChanIs(from, t, n, s) ==
    /\ chan[0].write_count = Rest /\ chan[0].imm_mode = FALSE
    /\ chan[0].startup_mode = "CTRCARD0" /\ chan[0].src_step = 0 /\ chan[0].dest_step = 1
    /\ chan[0].int_src.port = "CARD" /\ chan[0].int_dest = Mem(from + t + s)
    /\ chan[0].transfer_count = n - s /\ chan[0].busy = (s # n)

ChanWaits(from, t, n) ==
    /\ chan[0].busy = FALSE
    /\ "chan" \notin job.todo =>
           /\ chan[0].source_addr = Fifo("CARD") /\ chan[0].dest_addr = Mem(from + t)
           /\ chan[0].transfer_count = n /\ chan[0].write_count = Rest

CardChan(from, t, n, s) ==
    /\ "chan!" \in job.todo => s = 0 /\ ChanWaits(from, t, n)
    /\ "chan!" \notin job.todo => ChanIs(from, t, n, s)

CardBefore(from, t, n) ==
    /\ "cmd" \in job.todo /\ ~Copying /\ CardOver /\ out = <<>> /\ 23 \notin IF_
    /\ "blocks" \notin job.todo => card.blocks = job.j.n
    /\ CardChan(from, t, n, 0)

(* The processor reads up to Early words of a bufferful, then waits. *)
CardFeeds(from, t, n, q, b, s) ==
    /\ "cmd" \notin job.todo /\ ~Copying /\ Bufferful(t, n, q, b, s)
    /\ CardChan(from, t, n, s)
    /\ \E p \in 0..Early : CardAt(from, t, b, p) /\ OfCard(out, from, t, b + p, s, b + p)

(* The channel reads the others. *)
CardCopies(from, t, n, q, b, s) ==
    /\ "cmd" \notin job.todo /\ "chan!" \notin job.todo /\ Bufferful(t, n, q, b, s)
    /\ run.phase \in {"read", "write"} /\ run.ch = 0 /\ run.imm = FALSE /\ run.i \in 0..Rest
    /\ ChanIs(from, t, n, s)
    /\ OfCard(out, from, t, b + Early, s + run.i, b + Early + run.i)
    /\ run.phase = "read" => CardAfter(from, t, b, Early + run.i)
    /\ run.phase = "write" => /\ run.i < Rest /\ CardAfter(from, t, b, Early + run.i + 1)
                              /\ run.word = Data(from + b + Early + run.i)

CardEnded(from, t, n) ==
    /\ "cmd" \notin job.todo /\ "chan!" \notin job.todo /\ ~Copying /\ CardOver
    /\ chan[0].busy = FALSE /\ OfCard(out, from, t, t, n, t)

CardPhase(from, t, n) ==
    \/ CardBefore(from, t, n)
    \/ CardEnded(from, t, n)
    \/ \E q, b, s : CardFeeds(from, t, n, q, b, s) \/ CardCopies(from, t, n, q, b, s)

CardShape ==
    /\ late = {} /\ DOMAIN card = CardNames
    /\ \A c \in 1..LastChan : chan[c].busy = FALSE /\ chan[c].startup_mode # "AES2"
    /\ "blocks" \in job.todo => "cmd" \in job.todo
    /\ "chan" \in job.todo => "chan!" \in job.todo

CardState == CardShape /\ CardPhase(job.from, Total, Rests)

CardInv == job.j.route = "card" => CardState

(* The parameters of a job, as numbers. *)
CardJobIs(from, t, n, m) ==
    /\ from \in Nat /\ from \in Int /\ Buffers(t, n, m) /\ t \in Nat /\ t < CountLimit
    /\ CountLimit \in Nat \ {0}

LEMMA CardParameters ==
    ASSUME JobOk, job.j.route = "card"
    PROVE  \E m : CardJobIs(job.from, Total, Rests, m)
<1>1. PICK m : Buffers(Total, Rests, m)
  BY CardSizes
<1>2. job.from \in Nat /\ job.from \in Int /\ Total < CountLimit /\ CountLimit \in Nat \ {0}
  BY CardSizes DEF JobOk
<1>3. Total \in Nat
  BY <1>1 DEF Buffers
<1> QED BY <1>1, <1>2, <1>3 DEF CardJobIs

LEMMA CardIsAt ==
    ASSUME NEW from, NEW t, NEW b, NEW p, UNCHANGED <<card, pending>>,
           23 \in IF_' => 23 \in IF_
    PROVE  /\ CardAt(from, t, b, p) => CardAt(from, t, b, p)'
           /\ CardAfter(from, t, b, p) => CardAfter(from, t, b, p)'
           /\ CardOver => CardOver'
BY DEF CardAt, CardAfter, CardOver

(* A step of the DMA that copies nothing, or begins to. *)
LEMMA CardGoesOn ==
    ASSUME BusOk, CardShape, NEW from, NEW t, NEW n, CardPhase(from, t, n), GoesOn
    PROVE  CardPhase(from, t, n)' /\ CardShape'
<1>1. /\ UNCHANGED <<card, chan, out, job, IF_>> /\ ~Copying
      /\ pending'["CTRCARD0"] = pending["CTRCARD0"] /\ late' = {}
  <2>1. "CTRCARD0" \in Requests
    BY DEF Requests
  <2>2. /\ UNCHANGED <<card, chan, out, job, IF_>> /\ ~Copying
    BY DEF GoesOn, devices, cardVars
  <2>3. late = {}
    BY DEF CardShape
  <2> QED BY <2>1, <2>2, <2>3 DEF GoesOn
<1>2. CardShape'
  BY <1>1 DEF CardShape
<1>3. \A b, p : CardAt(from, t, b, p) => CardAt(from, t, b, p)'
  BY <1>1 DEF CardAt
<1>4. CardOver => CardOver'
  BY <1>1 DEF CardOver
<1>5. /\ \A s : CardChan(from, t, n, s) => CardChan(from, t, n, s)'
      /\ \A s : ChanIs(from, t, n, s) => ChanIs(from, t, n, s)'
  BY <1>1 DEF CardChan, ChanIs, ChanWaits
<1>6. \A q, b, s : ~CardCopies(from, t, n, q, b, s)
  BY <1>1 DEF CardCopies, Copying
<1>7. CASE ~Copying'
  <2>1. CASE CardBefore(from, t, n)
    <3>1. CardBefore(from, t, n)'
      BY <1>1, <1>4, <1>5, <1>7, <2>1 DEF CardBefore
    <3> QED BY <1>2, <3>1 DEF CardPhase
  <2>2. CASE CardEnded(from, t, n)
    <3>1. CardEnded(from, t, n)'
      BY <1>1, <1>4, <1>7, <2>2 DEF CardEnded
    <3> QED BY <1>2, <3>1 DEF CardPhase
  <2>3. ASSUME NEW q, NEW b, NEW s, CardFeeds(from, t, n, q, b, s)
        PROVE  CardPhase(from, t, n)'
    <3>1. CardFeeds(from, t, n, q, b, s)'
      BY <1>1, <1>3, <1>5, <1>7, <2>3 DEF CardFeeds
    <3> QED BY <3>1 DEF CardPhase
  <2> QED BY <1>2, <1>6, <2>1, <2>2, <2>3 DEF CardPhase
<1>8. CASE Copying'
  <2>1. BeginsBlock
    BY <1>8 DEF GoesOn
  <2>2. run'.ch = 0 /\ chan[0].busy
    <3>1. \A c \in 0..LastChan : c = 0 \/ c \in 1..LastChan
      BY Dma9Assumption
    <3> QED BY <2>1, <3>1 DEF BeginsBlock, CardShape
  <2>3. pending[chan[0].startup_mode]
    BY <2>1, <2>2 DEF BeginsBlock
  <2>4. PICK q, b, s : CardFeeds(from, t, n, q, b, s)
    <3>1. ~CardEnded(from, t, n)
      BY <2>2 DEF CardEnded
    <3>2. ~CardBefore(from, t, n)
      BY <2>2, <2>3 DEF CardBefore, CardChan, ChanWaits, ChanIs, CardOver
    <3> QED BY <1>6, <3>1, <3>2 DEF CardPhase
  <2>5. "chan!" \notin job.todo /\ ChanIs(from, t, n, s)
    BY <2>2, <2>4 DEF CardFeeds, CardChan, ChanWaits
  <2>6. PICK p \in 0..Early : CardAt(from, t, b, p) /\ OfCard(out, from, t, b + p, s, b + p)
    BY <2>4 DEF CardFeeds
  <2>7. p = Early
    BY <2>3, <2>5, <2>6, CardConstants DEF CardAt, ChanIs
  <2>8. Early + 0 = Early /\ Early < BufferWords /\ Early # BufferWords /\ 0 \in 0..Rest
    BY CardConstants
  <2>9. CardAfter(from, t, b, Early)'
    BY <1>3, <2>6, <2>7, <2>8 DEF CardAfter
  <2>10. b + Early + 0 = b + Early /\ s + 0 = s
    BY <2>4, CardConstants DEF CardFeeds, Bufferful
  <2>11. run'.phase = "read" /\ run'.i = 0 /\ run'.imm = FALSE
    BY <2>1 DEF BeginsBlock
  <2>12. CardCopies(from, t, n, q, b, s)'
    BY <1>1, <1>5, <2>2, <2>4, <2>5, <2>6, <2>7, <2>8, <2>9, <2>10, <2>11
       DEF CardCopies, CardFeeds
  <2> QED BY <1>2, <2>12 DEF CardPhase
<1> QED BY <1>7, <1>8

LEMMA CardReadsWord ==
    ASSUME BusOk, job.j.route = "card", CardShape, NEW from, NEW t, NEW n, NEW m,
           CardJobIs(from, t, n, m),
           NEW q, NEW b, NEW s, CardCopies(from, t, n, q, b, s), Reads
    PROVE  CardCopies(from, t, n, q, b, s)' /\ CardShape'
<1>1. /\ run.phase = "read" /\ run'.phase = "write" /\ run'.i = run.i /\ run'.ch = 0
      /\ run'.imm = FALSE /\ run'.word = Word(SourceAddr) /\ SourceAddr.port = "CARD"
      /\ UNCHANGED <<chan, out, job>> /\ arm9_read32(SourceAddr) /\ run.i < Rest
  BY DEF Reads, Copies, CardCopies, ChanIs
<1>2. ReadCardFifo /\ run'.word = CardFifo
  BY <1>1 DEF arm9_read32, Word
<1>3. PICK p \in 0..(BufferWords - 1), i \in 0..Rest :
          /\ p = Early + run.i /\ i = run.i /\ p = Early + i /\ i < Rest /\ p < BufferWords
          /\ p + 1 = Early + i + 1
  <2>1. run.i \in 0..Rest
    BY DEF CardCopies
  <2> QED BY <1>1, <2>1, CardConstants
<1>4. CardAt(from, t, b, p)
  <2>1. CardAfter(from, t, b, Early + run.i)
    BY <1>1 DEF CardCopies
  <2> QED BY <1>3, <2>1 DEF CardAfter
<1>5. from \in Int /\ t \in Nat /\ b \in Nat /\ b + BufferWords <= t
  BY DEF CardJobIs, CardCopies, Bufferful
<1>6. DOMAIN card = CardNames /\ DOMAIN pending = Requests
  BY DEF CardShape, BusOk
<1>7. /\ CardFifo = Data(from + b + p) /\ DOMAIN card' = CardNames /\ late' = late
      /\ CardAfter(from, t, b, p + 1)'
  BY <1>2, <1>4, <1>5, <1>6, CardIsRead
<1>8. from + b + p = from + b + Early + run.i
  BY <1>3, <1>5, CardConstants
<1>9. CardShape'
  BY <1>1, <1>7 DEF CardShape
<1>10. ChanIs(from, t, n, s)'
  BY <1>1 DEF CardCopies, ChanIs
<1>11. CardAfter(from, t, b, Early + run.i + 1)'
  BY <1>1, <1>3, <1>7 DEF CardAfter
<1>12. CardCopies(from, t, n, q, b, s)'
  BY <1>1, <1>2, <1>7, <1>8, <1>10, <1>11 DEF CardCopies
<1> QED BY <1>9, <1>12

LEMMA CardWritesWord ==
    ASSUME BusOk, job.j.route = "card", CardShape, NEW from, NEW t, NEW n, NEW m,
           CardJobIs(from, t, n, m),
           NEW q, NEW b, NEW s, CardCopies(from, t, n, q, b, s), Writes
    PROVE  CardCopies(from, t, n, q, b, s)' /\ CardShape'
<1>1. /\ run.phase = "write" /\ run'.phase = "read" /\ run'.i = run.i + 1 /\ run'.ch = 0
      /\ run'.imm = FALSE /\ UNCHANGED <<chan, job>> /\ run.i < Rest
      /\ DestAddr.port = chan[0].int_dest.port /\ arm9_write32(DestAddr, run.word)
      /\ DestAddr.at = chan[0].int_dest.at + run.i * 1
      /\ chan[0].int_dest = Mem(from + t + s)
  BY DEF Writes, Copies, CardCopies, ChanIs
<1>2. PICK i \in 0..(Rest - 1) : /\ i = run.i /\ i \in Nat /\ Early + (i + 1) = Early + i + 1
                                 /\ i + 1 \in 0..Rest
  <2>1. run.i \in 0..Rest
    BY DEF CardCopies
  <2> QED BY <1>1, <2>1, CardConstants
<1>3. /\ from \in Int /\ t \in Nat /\ b \in Nat /\ s \in Nat /\ b + BufferWords <= t
      /\ Bufferful(t, n, q, b, s)
  BY DEF CardJobIs, CardCopies, Bufferful
<1>4. DestAddr.port = "mem" /\ DestAddr.at = from + t + s + i
  <2>1. chan[0].int_dest.port = "mem" /\ chan[0].int_dest.at = from + t + s
    BY <1>1 DEF Mem
  <2> QED BY <1>1, <1>2, <1>3, <2>1
<1>5. NoDevice /\ Store(from + t + s + i, run.word)
  BY <1>1, <1>4, MemoryIsRead
<1>6. run.word = WordOfCard(from, t, from + t + s + i)
  <2>1. run.word = Data(from + b + Early + i)
    BY <1>1, <1>2 DEF CardCopies
  <2>2. ChannelExpects(from, t, b, s)
    BY <1>3, CardExpects
  <2> QED BY <1>2, <2>1, <2>2 DEF ChannelExpects
<1>7. /\ OfCard(out, from, t, b + Early, s + i, b + Early + i)
      /\ CardAfter(from, t, b, Early + (i + 1))
  BY <1>1, <1>2 DEF CardCopies
<1>8. OfCard(out', from, t, b + Early, s + i + 1, b + Early + i + 1)
  <2>1. PICK g \in Nat, d \in Nat, k \in Nat, at \in Int :
            /\ g = b + Early /\ d = s + i /\ k = b + Early + i /\ at = from + t + s + i
            /\ g <= t /\ at = from + t + d
    <3>1. /\ b + Early \in Nat /\ s + i \in Nat /\ b + Early + i \in Nat
          /\ from + t + s + i \in Int /\ b + Early <= t
          /\ from + t + s + i = from + t + (s + i)
      BY <1>2, <1>3, CardConstants
    <3> QED BY <3>1
  <2>2. OfCard(out, from, t, g, d, k) /\ Store(at, WordOfCard(from, t, at))
    BY <1>5, <1>6, <1>7, <2>1
  <2>3. OfCard(out', from, t, g, d + 1, k + 1)
    BY <1>3, <2>1, <2>2, CardIsStored
  <2> QED BY <2>1, <2>3
<1>9. s + i + 1 = s + (i + 1) /\ b + Early + i + 1 = b + Early + (i + 1)
  BY <1>2, <1>3, CardConstants
<1>10. UNCHANGED <<card, pending, late, IF_>>
  BY <1>5 DEF NoDevice, devices, cardVars
<1>11. CardShape'
  BY <1>1, <1>10 DEF CardShape
<1>12. ChanIs(from, t, n, s)'
  BY <1>1 DEF CardCopies, ChanIs
<1>13. CardAfter(from, t, b, Early + (i + 1))'
  BY <1>7, <1>10, CardIsAt
<1>14. CardAfter(from, t, b, Early + run.i)'
  BY <1>1, <1>2, <1>13 DEF CardAfter
<1>15. CardCopies(from, t, n, q, b, s)'
  BY <1>1, <1>2, <1>8, <1>9, <1>12, <1>14 DEF CardCopies
<1> QED BY <1>11, <1>15

LEMMA CardHasMore ==
    ASSUME NEW o, NEW from \in Int, NEW t, NEW g \in Int, NEW h \in Int, NEW d, NEW k,
           OfCard(o, from, t, g, d, k), g <= h
    PROVE  OfCard(o, from, t, h, d, k)
BY DEF OfCard

(* The channel after a block. *)
LEMMA CardCounts ==
    ASSUME NEW n \in Nat, NEW s \in Nat, NEW r \in Nat \ {0}, s + r <= n, n < CountLimit,
           CountLimit \in Nat \ {0}
    PROVE  ((n - s) - r) % CountLimit = n - (s + r) /\ (n - (s + r) = 0 <=> s + r = n)
<1>1. PICK k \in Nat, l \in Nat \ {0} : k = n - (s + r) /\ l = CountLimit /\ k < l
  <2>1. n - (s + r) \in Nat /\ n - (s + r) < CountLimit
    OBVIOUS
  <2> QED BY <2>1
<1>2. k % l = k
  BY <1>1
<1>3. (n - s) - r = k
  BY <1>1
<1> QED BY <1>1, <1>2, <1>3

LEMMA CardChanEnds ==
    ASSUME NEW from \in Int, NEW t \in Nat, NEW n \in Nat, NEW s \in Nat,
           ChanIs(from, t, n, s), s + Rest <= n, n < CountLimit, CountLimit \in Nat \ {0},
           EndedAs(chan'[0], chan[0])
    PROVE  ChanIs(from, t, n, s + Rest)'
<1>1. PICK r \in Nat \ {0} : r = Rest
  BY CardConstants
<1>2. /\ chan[0].transfer_count = n - s /\ chan[0].write_count = r /\ chan[0].imm_mode = FALSE
      /\ chan[0].busy = TRUE /\ chan[0].src_step = 0 /\ chan[0].dest_step = 1
  <2>1. s # n
    BY <1>1
  <2>2. chan[0].busy = TRUE
    BY <2>1 DEF ChanIs
  <2> QED BY <1>1, <2>2 DEF ChanIs
<1>3. PICK left \in Int :
          /\ left = n - (s + r) /\ ((n - s) - r) % CountLimit = left
          /\ (left = 0 <=> s + r = n)
  BY <1>1, CardCounts
<1>4. /\ chan'[0].transfer_count = left /\ chan'[0].busy = (IF left = 0 THEN FALSE ELSE TRUE)
      /\ chan'[0].write_count = Rest /\ chan'[0].imm_mode = FALSE
      /\ chan'[0].startup_mode = "CTRCARD0" /\ chan'[0].src_step = 0
      /\ chan'[0].dest_step = 1
      /\ chan'[0].int_src = Moved(chan[0].int_src, r, 0)
      /\ chan'[0].int_dest = Moved(chan[0].int_dest, r, 1)
  <2>1. PICK old, new : old = chan[0] /\ new = chan'[0]
    OBVIOUS
  <2>2. EndedAs(new, old)
    BY <2>1
  <2>3. /\ old.transfer_count = n - s /\ old.write_count = r /\ old.imm_mode = FALSE
        /\ old.busy = TRUE /\ old.src_step = 0 /\ old.dest_step = 1
        /\ old.startup_mode = "CTRCARD0"
    BY <1>2, <2>1 DEF ChanIs
  <2>4. (old.transfer_count - old.write_count) % CountLimit = left
    BY <1>3, <2>3
  <2>5. /\ new.transfer_count = left /\ new.busy = (IF left = 0 THEN FALSE ELSE TRUE)
        /\ new.write_count = r /\ new.imm_mode = FALSE
        /\ new.startup_mode = "CTRCARD0" /\ new.src_step = 0 /\ new.dest_step = 1
        /\ new.int_src = Moved(old.int_src, r, 0)
        /\ new.int_dest = Moved(old.int_dest, r, 1)
    BY <2>2, <2>3, <2>4 DEF EndedAs
  <2> QED BY <1>1, <2>1, <2>5
<1>5. chan'[0].int_src.port = "CARD"
  <2>1. chan[0].int_src.port = "CARD"
    BY DEF ChanIs
  <2> QED BY <1>4, <2>1 DEF Moved
<1>6. chan'[0].int_dest = Mem(from + t + (s + Rest))
  <2>1. chan[0].int_dest = [port |-> "mem", at |-> from + t + s]
    BY DEF ChanIs, Mem
  <2>2. chan'[0].int_dest = [port |-> "mem", at |-> (from + t + s) + r * 1]
    BY <1>4, <2>1 DEF Moved
  <2>3. (from + t + s) + r * 1 = from + t + (s + r)
    OBVIOUS
  <2> QED BY <1>1, <2>2, <2>3 DEF Mem
<1>7. chan'[0].busy = (s + Rest # n) /\ chan'[0].transfer_count = n - (s + Rest)
  BY <1>1, <1>3, <1>4
<1> QED BY <1>4, <1>5, <1>6, <1>7 DEF ChanIs

LEMMA CardEndsBlock ==
    ASSUME BusOk, job.j.route = "card", CardShape, NEW from, NEW t, NEW n, NEW m,
           CardJobIs(from, t, n, m),
           NEW q, NEW b, NEW s, CardCopies(from, t, n, q, b, s), Ends
    PROVE  CardPhase(from, t, n)' /\ CardShape'
<1>1. /\ run.phase = "read" /\ run.ch = 0 /\ run.i >= Rest
      /\ UNCHANGED <<pending, late, card, out, job>>
      /\ EndedAs(chan'[0], chan[0]) /\ \A d \in 0..LastChan : d # 0 => chan'[d] = chan[d]
      /\ \A x \in IF_' : x \in IF_ \/ x = 0
  BY DEF Ends, EndsBlock, CardCopies, ChanIs, devices, cardVars
<1>2. run.i = Rest /\ Early + Rest = BufferWords
  <2>1. run.i \in 0..Rest
    BY DEF CardCopies
  <2> QED BY <1>1, <2>1, CardConstants
<1>3. /\ from \in Int /\ t \in Nat /\ b \in Nat /\ s \in Nat /\ n \in Nat /\ q \in Nat
      /\ b + BufferWords <= t /\ s + Rest <= n /\ n < CountLimit
      /\ CountLimit \in Nat \ {0} /\ (b + BufferWords = t <=> s + Rest = n)
  BY DEF CardJobIs, CardCopies, Bufferful, Buffers
<1>4. ChanIs(from, t, n, s + Rest)'
  BY <1>1, <1>3, CardChanEnds DEF CardCopies
<1>5. /\ OfCard(out, from, t, b + Early, s + Rest, b + Early + Rest)
      /\ CardAfter(from, t, b, BufferWords)
  <2>1. CardAfter(from, t, b, Early + run.i)
    BY <1>1 DEF CardCopies
  <2> QED BY <1>2, <2>1 DEF CardCopies
<1>6. /\ b + Early \in Int /\ b + BufferWords \in Int /\ b + Early <= b + BufferWords
      /\ b + Early + Rest = b + BufferWords /\ b + BufferWords + 0 = b + BufferWords
  BY <1>3, CardConstants
<1>7. OfCard(out, from, t, b + BufferWords, s + Rest, b + BufferWords)
  BY <1>3, <1>5, <1>6, CardHasMore
<1>8. CardShape'
  <2>1. \A c \in 1..LastChan : c \in 0..LastChan /\ c # 0
    BY Dma9Assumption
  <2> QED BY <1>1, <2>1 DEF CardShape
<1>9. ~Copying'
  <2>1. \A c \in 0..LastChan : c = 0 + 1 => c \in 1..LastChan
    BY Dma9Assumption
  <2> QED BY <1>1, <2>1 DEF Ends, Follows, CardShape
<1>10. job'.todo = job.todo /\ "cmd" \notin job.todo /\ "chan!" \notin job.todo
  BY <1>1 DEF CardCopies
<1>11. CASE b + BufferWords = t
  <2>1. CardOver
    BY <1>5, <1>11 DEF CardAfter
  <2>2. CardOver' /\ s + Rest = n /\ chan'[0].busy = FALSE
    BY <1>1, <1>3, <1>4, <1>11, <2>1 DEF CardOver, ChanIs
  <2>3. OfCard(out, from, t, t, n, t)
    BY <1>7, <1>11, <2>2
  <2>4. CardEnded(from, t, n)'
    BY <1>1, <1>9, <1>10, <2>2, <2>3 DEF CardEnded
  <2> QED BY <1>8, <2>4 DEF CardPhase
<1>12. CASE b + BufferWords # t
  <2>1. CardAt(from, t, b + BufferWords, 0)
    BY <1>5, <1>12 DEF CardAfter
  <2>2. CardAt(from, t, b + BufferWords, 0)'
    BY <1>1, <2>1 DEF CardAt
  <2>3. Bufferful(t, n, q + 1, b + BufferWords, s + Rest)
    BY <1>12, NextBufferful DEF CardJobIs, CardCopies
  <2>4. CardChan(from, t, n, s + Rest)'
    BY <1>4, <1>10 DEF CardChan
  <2>5. 0 \in 0..Early
    BY CardConstants
  <2>6. OfCard(out, from, t, b + BufferWords + 0, s + Rest, b + BufferWords + 0)
    BY <1>6, <1>7
  <2>7. CardFeeds(from, t, n, q + 1, b + BufferWords, s + Rest)'
    BY <1>1, <1>9, <1>10, <2>2, <2>3, <2>4, <2>5, <2>6 DEF CardFeeds
  <2> QED BY <1>8, <2>7 DEF CardPhase
<1> QED BY <1>11, <1>12

LEMMA CardDma ==
    ASSUME BusOk, job.j.route = "card", CardState, Dma \/ Defer \/ Deliver \/ EndSlice
    PROVE  CardState'
<1>1. PICK from, t, n, m : /\ from = job.from /\ t = Total /\ n = Rests
                           /\ CardJobIs(from, t, n, m)
  BY CardParameters DEF BusOk
<1>2. CardShape /\ CardPhase(from, t, n)
  BY <1>1 DEF CardState
<1>3. job'.from = from /\ Total' = t /\ Rests' = n
  <2>1. job' = job
    BY BusDma
  <2> QED BY <1>1, <2>1 DEF Total, Rests
<1>4. CASE GoesOn
  <2>1. CardPhase(from, t, n)' /\ CardShape'
    BY <1>2, <1>4, CardGoesOn
  <2> QED BY <1>3, <2>1 DEF CardState
<1>5. CASE Reads \/ Writes \/ Ends
  <2>1. Copying
    BY <1>5 DEF Reads, Writes, Ends, EndsBlock, Copies
  <2>2. PICK q, b, s : CardCopies(from, t, n, q, b, s)
    BY <1>2, <2>1 DEF CardPhase, CardBefore, CardEnded, CardFeeds
  <2>3. CASE Reads
    <3>1. CardCopies(from, t, n, q, b, s)' /\ CardShape'
      BY <1>1, <1>2, <2>2, <2>3, CardReadsWord
    <3> QED BY <1>3, <3>1 DEF CardState, CardPhase
  <2>4. CASE Writes
    <3>1. CardCopies(from, t, n, q, b, s)' /\ CardShape'
      BY <1>1, <1>2, <2>2, <2>4, CardWritesWord
    <3> QED BY <1>3, <3>1 DEF CardState, CardPhase
  <2>5. CASE Ends
    <3>1. CardPhase(from, t, n)' /\ CardShape'
      BY <1>1, <1>2, <2>2, <2>5, CardEndsBlock
    <3> QED BY <1>3, <3>1 DEF CardState
  <2> QED BY <1>5, <2>3, <2>4, <2>5
<1> QED BY <1>4, <1>5, DmaKinds

(* The steps of the driver. *)
LEMMA CardIsCounted ==
    ASSUME JobOk, CardShape, NEW from, NEW t, NEW n, CardPhase(from, t, n), job.j.n \in Nat,
           Step("blocks", {}), WriteBlockCount(job.j.n - 1), Registers_
    PROVE  CardPhase(from, t, n)' /\ CardShape'
<1>1. /\ "blocks" \in job.todo /\ job'.todo = job.todo \ {"blocks"} /\ job'.j = job.j
  BY StepOk
<1>2. card' = [card EXCEPT !.blocks = job.j.n] /\ UNCHANGED <<pending, late, IF_, chan, run, out>>
  <2>1. (job.j.n - 1) + 1 = job.j.n
    OBVIOUS
  <2> QED BY <2>1 DEF WriteBlockCount, Quiet, Registers_
<1>3. CardBefore(from, t, n)
  BY <1>1 DEF CardShape, CardPhase, CardEnded, CardFeeds, CardCopies
<1>4. DOMAIN card' = CardNames /\ card'.blocks = job.j.n /\ card'.busy = card.busy
  BY <1>2 DEF CardShape, CardNames
<1>5. CardShape'
  BY <1>1, <1>2, <1>4 DEF CardShape
<1>6. CardOver' /\ ~Copying'
  BY <1>2, <1>3, <1>4 DEF CardOver, CardBefore, Copying
<1>7. CardChan(from, t, n, 0)'
  BY <1>1, <1>2, <1>3 DEF CardBefore, CardChan, ChanWaits, ChanIs
<1>8. CardBefore(from, t, n)'
  BY <1>1, <1>2, <1>3, <1>4, <1>6, <1>7 DEF CardBefore
<1> QED BY <1>5, <1>8 DEF CardPhase

LEMMA CardIsAsked ==
    ASSUME JobOk, CardShape, NEW from, NEW t, NEW n, NEW m, CardJobIs(from, t, n, m),
           from = job.from, t = Total, CardPhase(from, t, n),
           Step("cmd", {"blocks"}), CtrRead(job.from, TRUE), Registers_
    PROVE  CardPhase(from, t, n)' /\ CardShape'
<1>1. /\ "cmd" \in job.todo /\ "blocks" \notin job.todo /\ job'.todo = job.todo \ {"cmd"}
      /\ job'.j = job.j
  BY StepOk
<1>2. CardBefore(from, t, n)
  BY <1>1 DEF CardPhase, CardEnded, CardFeeds, CardCopies
<1>3. Bufferful(t, n, 0, 0, 0) /\ BufferWords <= t /\ t \in Nat /\ from \in Int
  BY FirstBufferful DEF CardJobIs
<1>4. SmallerOf(t, BufferWords) = BufferWords
  BY <1>3, CardConstants DEF SmallerOf
<1>5. card.blocks * SectorWords = t
  BY <1>1, <1>2 DEF CardBefore, Total
<1>6. /\ card' = [card EXCEPT !.pos = 0, !.left = t, !.kind = "card", !.base = from,
                              !.block = <<>>, !.busy = TRUE, !.ready = TRUE,
                              !.irq_enable = TRUE, !.at = from + BufferWords]
      /\ UNCHANGED <<pending, late, IF_, chan, run, out>>
  BY <1>4, <1>5 DEF CtrRead, Answer, Quiet, Registers_
<1>7. /\ DOMAIN card' = CardNames /\ card'.pos = 0 /\ card'.left = t /\ card'.kind = "card"
      /\ card'.base = from /\ card'.busy = TRUE /\ card'.irq_enable = TRUE
      /\ card'.at = from + BufferWords
  BY <1>6 DEF CardShape, CardNames
<1>8. CardShape'
  BY <1>1, <1>6, <1>7 DEF CardShape
<1>9. CardAt(from, t, 0, 0)'
  <2>1. from + 0 = from /\ t - (0 + 0) = t /\ from + 0 + BufferWords = from + BufferWords
    BY <1>3
  <2>2. 23 \notin IF_' /\ ~pending'["CTRCARD0"]
    BY <1>2, <1>6 DEF CardBefore, CardOver
  <2> QED BY <1>7, <2>1, <2>2 DEF CardAt
<1>10. CardChan(from, t, n, 0)'
  BY <1>1, <1>2, <1>6 DEF CardBefore, CardChan, ChanWaits, ChanIs
<1>11. OfCard(out', from, t, 0 + 0, 0, 0 + 0)
  BY <1>2, <1>6, NoneOfCard DEF CardBefore
<1>12. 0 \in 0..Early /\ ~Copying'
  BY <1>2, <1>6, CardConstants DEF CardBefore, Copying
<1>13. CardFeeds(from, t, n, 0, 0, 0)'
  BY <1>1, <1>3, <1>9, <1>10, <1>11, <1>12 DEF CardFeeds
<1> QED BY <1>8, <1>13 DEF CardPhase

(* A step that only the channel sees. *)
LEMMA CardChannelSteps ==
    ASSUME CardShape, NEW from, NEW t, NEW n, CardPhase(from, t, n),
           UNCHANGED <<card, pending, late, IF_, run, out>>, job'.j = job.j,
           job'.todo \subseteq job.todo, \A x \in {"blocks", "cmd"} : x \in job.todo => x \in job'.todo,
           "chan!" \in job.todo, \A d \in 0..LastChan : d # 0 => chan'[d] = chan[d],
           CardChan(from, t, n, 0) => CardChan(from, t, n, 0)',
           "chan" \in job'.todo => "chan!" \in job'.todo
    PROVE  CardPhase(from, t, n)' /\ CardShape'
<1>1. \A c \in 1..LastChan : c \in 0..LastChan /\ c # 0
  BY Dma9Assumption
<1>2. CardShape'
  BY <1>1 DEF CardShape
<1>3. CASE CardBefore(from, t, n)
  <2>1. CardBefore(from, t, n)'
    BY <1>3 DEF CardBefore, CardOver, Copying
  <2> QED BY <1>2, <2>1 DEF CardPhase
<1>4. ASSUME NEW q, NEW b, NEW s, CardFeeds(from, t, n, q, b, s)
      PROVE  CardPhase(from, t, n)'
  <2>1. s = 0
    BY <1>4 DEF CardFeeds, CardChan
  <2>2. CardChan(from, t, n, s)'
    BY <1>4, <2>1 DEF CardFeeds
  <2>3. \A p : CardAt(from, t, b, p) => CardAt(from, t, b, p)'
    BY DEF CardAt
  <2>4. CardFeeds(from, t, n, q, b, s)'
    BY <1>4, <2>2, <2>3 DEF CardFeeds, Copying
  <2> QED BY <2>4 DEF CardPhase
<1> QED BY <1>2, <1>3, <1>4 DEF CardPhase, CardEnded, CardCopies

LEMMA CardIsRegistered ==
    ASSUME BusOk, job.j.route = "card", CardShape, NEW from, NEW t, NEW n, NEW m,
           CardJobIs(from, t, n, m),
           CardPhase(from, t, n), SetUp(0, "chan", {}, Fifo("CARD"), Mem(from + t), n, Rest)
    PROVE  CardPhase(from, t, n)' /\ CardShape'
<1>1. /\ 0 \in 0..LastChan /\ n \in Int /\ Rest \in Int /\ from + t \in Int
      /\ Port = "CARD"
  BY Dma9Assumption, CardConstants DEF CardJobIs, Buffers, Port, PortOf
<1>2. Fifo("CARD") \in BusOf(Port) /\ Mem(from + t) \in BusOf(Port)
  BY <1>1, AnyAddress
<1>3. /\ Step("chan", {}) /\ OnlyDma /\ UNCHANGED <<pending, late, run, IF_>>
      /\ \A d \in 0..LastChan : d # 0 => chan'[d] = chan[d]
      /\ chan'[0] = Registered(chan[0], Fifo("CARD"), Mem(from + t), n, Rest)
  BY <1>1, <1>2, SetUpOk
<1>4. /\ "chan" \in job.todo /\ job'.todo = job.todo \ {"chan"} /\ job'.j = job.j
  BY <1>3, StepOk DEF BusOk
<1>5. "chan!" \in job.todo
  BY <1>4 DEF CardShape
<1>6. /\ chan'[0].source_addr = Fifo("CARD") /\ chan'[0].dest_addr = Mem(from + t)
      /\ chan'[0].transfer_count = n /\ chan'[0].write_count = Rest
      /\ chan'[0].busy = chan[0].busy
  <2>1. PICK ch : ch = chan[0] /\ ch \in AnyChannel(Port)
    BY <1>1 DEF BusOk, ChansOk
  <2>2. LET new == Registered(ch, Fifo("CARD"), Mem(from + t), n, Rest)
        IN /\ new.source_addr = Fifo("CARD") /\ new.dest_addr = Mem(from + t)
           /\ new.transfer_count = n /\ new.write_count = Rest /\ new.busy = ch.busy
    BY <1>1, <1>2, <2>1, ChannelIsWritten
  <2> QED BY <1>3, <2>1, <2>2
<1>7. CardChan(from, t, n, 0) => CardChan(from, t, n, 0)'
  BY <1>4, <1>5, <1>6 DEF CardChan, ChanWaits
<1>8. UNCHANGED <<card, pending, late, IF_, run, out>>
  BY <1>3 DEF OnlyDma, devices, cardVars
<1>9. \A x \in {"blocks", "cmd"} : x \in job.todo => x \in job'.todo
  BY <1>4
<1> QED BY <1>3, <1>4, <1>5, <1>7, <1>8, <1>9, CardChannelSteps

(* A channel that is started by its driver. *)
IsLaunched(c, name, needed, mode, src, dest, irq) ==
    /\ Step(name, needed) /\ OnlyDma /\ UNCHANGED <<pending, late, run, IF_>>
    /\ \A d \in 0..LastChan : d # c => chan'[d] = chan[d]
    /\ LaunchedAs(chan'[c], chan[c], mode, src, dest, irq, FALSE)
    /\ ~chan[c].busy => /\ chan'[c].int_src = chan[c].source_addr
                        /\ chan'[c].int_dest = chan[c].dest_addr

LEMMA LaunchIsSeen ==
    ASSUME BusOk, NEW c \in 0..LastChan, NEW name, NEW needed,
           NEW mode \in Requests \union {"none"}, NEW src \in Int, NEW dest \in Int,
           NEW irq \in BOOLEAN, Launch(c, name, needed, mode, src, dest, irq)
    PROVE  IsLaunched(c, name, needed, mode, src, dest, irq)
BY LaunchOk DEF IsLaunched

LEMMA CardIsLaunched ==
    ASSUME BusOk, job.j.route = "card", CardShape, NEW from, NEW t, NEW n, NEW m,
           CardJobIs(from, t, n, m), CardPhase(from, t, n),
           Launch(0, "chan!", {"chan"}, "CTRCARD0", 0, 1, TRUE)
    PROVE  CardPhase(from, t, n)' /\ CardShape'
<1>1. 0 \in 0..LastChan /\ "CTRCARD0" \in Requests \union {"none"} /\ n \in Nat \ {0}
  BY Dma9Assumption DEF Requests, CardJobIs, Buffers
<1>2. /\ Step("chan!", {"chan"}) /\ OnlyDma /\ UNCHANGED <<pending, late, run, IF_>>
      /\ \A d \in 0..LastChan : d # 0 => chan'[d] = chan[d]
      /\ LaunchedAs(chan'[0], chan[0], "CTRCARD0", 0, 1, TRUE, FALSE)
      /\ ~chan[0].busy => /\ chan'[0].int_src = chan[0].source_addr
                          /\ chan'[0].int_dest = chan[0].dest_addr
  <2>1. IsLaunched(0, "chan!", {"chan"}, "CTRCARD0", 0, 1, TRUE)
    <3>1. 0 \in Int /\ 1 \in Int /\ TRUE \in BOOLEAN
      OBVIOUS
    <3> QED BY <1>1, <3>1, LaunchIsSeen
  <2> QED BY <2>1 DEF IsLaunched
<1>3. /\ "chan!" \in job.todo /\ "chan" \notin job.todo
      /\ job'.todo = job.todo \ {"chan!"} /\ job'.j = job.j
  BY <1>2, StepOk DEF BusOk
<1>4. ASSUME CardChan(from, t, n, 0)
      PROVE  CardChan(from, t, n, 0)'
  <2>1. /\ chan[0].busy = FALSE /\ chan[0].source_addr = Fifo("CARD")
        /\ chan[0].dest_addr = Mem(from + t) /\ chan[0].transfer_count = n
        /\ chan[0].write_count = Rest
    BY <1>3, <1>4 DEF CardChan, ChanWaits
  <2>2. /\ chan'[0].int_src = Fifo("CARD") /\ chan'[0].int_dest = Mem(from + t)
        /\ chan'[0].transfer_count = n /\ chan'[0].write_count = Rest /\ chan'[0].busy = TRUE
        /\ chan'[0].imm_mode = FALSE /\ chan'[0].startup_mode = "CTRCARD0"
        /\ chan'[0].src_step = 0 /\ chan'[0].dest_step = 1
    BY <1>2, <2>1 DEF LaunchedAs
  <2>3. from + t + 0 = from + t /\ n - 0 = n /\ 0 # n /\ Fifo("CARD").port = "CARD"
    BY <1>1, AddressIs DEF CardJobIs
  <2>4. chan'[0].busy = (0 # n)
    BY <2>2, <2>3
  <2>5. ChanIs(from, t, n, 0)'
    BY <2>2, <2>3, <2>4 DEF ChanIs
  <2> QED BY <1>3, <2>5 DEF CardChan
<1>5. UNCHANGED <<card, pending, late, IF_, run, out>>
  BY <1>2 DEF OnlyDma, devices, cardVars
<1>6. \A x \in {"blocks", "cmd"} : x \in job.todo => x \in job'.todo
  BY <1>3
<1> QED BY <1>2, <1>3, <1>4, <1>5, <1>6, CardChannelSteps

LEMMA CardWordIsRead ==
    ASSUME BusOk, CardShape, NEW from, NEW t, NEW n, NEW m, CardJobIs(from, t, n, m),
           CardPhase(from, t, n), run.phase = "cpu", CardWord(job.j)
    PROVE  CardPhase(from, t, n)' /\ CardShape'
<1>1. /\ job.todo = {} /\ card.busy /\ card.pos < Early /\ ReadCardFifo
      /\ Store(card.base + card.pos, CardFifo) /\ UNCHANGED <<chan, run>>
      /\ job'.todo = job.todo /\ job'.j = job.j
  BY FedOk DEF CardWord, BusOk
<1>2. PICK q, b, s : CardFeeds(from, t, n, q, b, s)
  BY <1>1 DEF CardPhase, CardBefore, CardEnded, CardOver, CardCopies
<1>3. PICK p \in 0..Early : CardAt(from, t, b, p) /\ OfCard(out, from, t, b + p, s, b + p)
  BY <1>2 DEF CardFeeds
<1>4. /\ Bufferful(t, n, q, b, s) /\ from \in Int /\ t \in Nat /\ b \in Nat /\ s \in Nat
      /\ b + BufferWords <= t
  BY <1>2 DEF CardFeeds, Bufferful, CardJobIs
<1>5. p \in 0..(BufferWords - 1) /\ p + 1 \in 0..Early /\ p + 1 < BufferWords
  BY <1>1, <1>3, CardConstants DEF CardAt
<1>6. DOMAIN card = CardNames /\ DOMAIN pending = Requests
  BY DEF CardShape, BusOk
<1>7. /\ CardFifo = Data(from + b + p) /\ DOMAIN card' = CardNames /\ late' = late
      /\ CardAfter(from, t, b, p + 1)'
  BY <1>1, <1>3, <1>4, <1>5, <1>6, CardIsRead
<1>8. CardAt(from, t, b, p + 1)'
  BY <1>5, <1>7 DEF CardAfter
<1>9. Store(from + b + p, WordOfCard(from, t, from + b + p))
  <2>1. ProcessorExpects(from, t, b)
    BY <1>4, CardExpects
  <2>2. card.base + card.pos = from + b + p
    BY <1>3 DEF CardAt
  <2> QED BY <1>1, <1>5, <1>7, <2>1, <2>2 DEF ProcessorExpects
<1>10. OfCard(out', from, t, b + (p + 1), s, b + (p + 1))
  <2>1. PICK g \in Nat, at \in Int : /\ g = b + p /\ at = from + b + p /\ g < t
                                    /\ at = from + g /\ g + 1 = b + (p + 1)
    <3>1. b + p \in Nat /\ from + b + p \in Int /\ b + p < t /\ from + b + p = from + (b + p)
          /\ (b + p) + 1 = b + (p + 1)
      BY <1>4, <1>5, CardConstants
    <3> QED BY <3>1
  <2>2. OfCard(out, from, t, g, s, g) /\ Store(at, WordOfCard(from, t, at))
    BY <1>3, <1>9, <2>1
  <2>3. OfCard(out', from, t, g + 1, s, g + 1)
    BY <1>4, <2>1, <2>2, CardIsStored
  <2> QED BY <2>1, <2>3
<1>11. CardShape'
  BY <1>1, <1>7 DEF CardShape
<1>12. CardChan(from, t, n, s)'
  BY <1>1, <1>2 DEF CardFeeds, CardChan, ChanIs, ChanWaits
<1>13. CardFeeds(from, t, n, q, b, s)'
  <2>1. \E p_ \in 0..Early : CardAt(from, t, b, p_)' /\ OfCard(out', from, t, b + p_, s, b + p_)
    BY <1>5, <1>8, <1>10
  <2>2. "cmd" \notin job'.todo /\ ~Copying'
    BY <1>1, <1>2 DEF CardFeeds, Copying
  <2> QED BY <1>4, <1>12, <2>1, <2>2 DEF CardFeeds
<1> QED BY <1>11, <1>13 DEF CardPhase

LEMMA CardDriver ==
    ASSUME BusOk, job.j.route = "card", CardState, CardJob
    PROVE  CardState'
<1>1. PICK from, t, n, m : /\ from = job.from /\ t = Total /\ n = Rests
                           /\ CardJobIs(from, t, n, m)
  BY CardParameters DEF BusOk
<1>2. CardShape /\ CardPhase(from, t, n) /\ run.phase = "cpu" /\ JobOk /\ job.j.n \in Nat
  <2>1. job.j \in Jobs /\ JobOk
    BY DEF BusOk, JobOk
  <2> QED BY <1>1, <2>1, JobsAssumption DEF CardState, CardJob, On
<1>3. ASSUME job'.j = job.j, job'.from = job.from, CardPhase(from, t, n)', CardShape'
      PROVE  CardState'
  <2>1. Total' = t /\ Rests' = n /\ job'.from = from
    BY <1>1, <1>3 DEF Total, Rests
  <2> QED BY <1>3, <2>1 DEF CardState
<1>4. \A name, needed : Step(name, needed) => job'.j = job.j /\ job'.from = job.from
  BY <1>2, StepOk
<1>5. CASE Step("blocks", {}) /\ WriteBlockCount(job.j.n - 1) /\ ByCard /\ Registers_
  BY <1>2, <1>3, <1>4, <1>5, CardIsCounted
<1>6. CASE Step("cmd", {"blocks"}) /\ CtrRead(job.from, TRUE) /\ ByCard /\ Registers_
  BY <1>1, <1>2, <1>3, <1>4, <1>6, CardIsAsked
<1>7. CASE SetUp(0, "chan", {}, Fifo("CARD"), Mem(job.from + job.j.n * SectorWords),
                 ((job.j.n * SectorWords) \div BufferWords) * (BufferWords - Early),
                 BufferWords - Early)
  <2>1. SetUp(0, "chan", {}, Fifo("CARD"), Mem(from + t), n, Rest) /\ Step("chan", {})
    <3>1. /\ n = ((job.j.n * SectorWords) \div BufferWords) * (BufferWords - Early)
          /\ t = job.j.n * SectorWords /\ Rest = BufferWords - Early
      BY <1>1 DEF Rests, Rest, Total
    <3>2. SetUp(0, "chan", {}, Fifo("CARD"), Mem(from + t), n, Rest)
      BY <1>1, <1>7, <3>1
    <3> QED BY <3>2 DEF SetUp
  <2>2. CardPhase(from, t, n)' /\ CardShape'
    BY <1>1, <1>2, <2>1, CardIsRegistered
  <2> QED BY <1>3, <1>4, <2>1, <2>2
<1>8. CASE Launch(0, "chan!", {"chan"}, "CTRCARD0", 0, 1, TRUE)
  <2>1. Step("chan!", {"chan"})
    BY <1>8 DEF Launch
  <2>2. CardPhase(from, t, n)' /\ CardShape'
    BY <1>1, <1>2, <1>8, CardIsLaunched
  <2> QED BY <1>3, <1>4, <2>1, <2>2
<1>9. CASE CardWord(job.j)
  <2>1. job'.j = job.j /\ job'.from = job.from
    BY <1>2, <1>9, FedOk DEF CardWord
  <2>2. CardPhase(from, t, n)' /\ CardShape'
    BY <1>1, <1>2, <1>9, CardWordIsRead
  <2> QED BY <1>3, <2>1, <2>2
<1> QED BY <1>5, <1>6, <1>7, <1>8, <1>9 DEF CardJob

LEMMA CardBegins ==
    ASSUME BusOk', job'.j.route = "card", job'.todo = job'.j.todo, NoDma', out' = <<>>,
           IF_' = {}, late' = {}, CardOver', DOMAIN card' = CardNames,
           \A c \in 1..LastChan : chan'[c].startup_mode # "AES2"
    PROVE  CardState'
<1>1. {"blocks", "cmd", "chan", "chan!"} \subseteq job'.todo
  BY JobsAssumption DEF BusOk, JobOk
<1>2. (\A c \in 0..LastChan : chan'[c].busy = FALSE) /\ 0 \in 0..LastChan
      /\ \A c \in 1..LastChan : c \in 0..LastChan
  <2>1. \A c \in 0..LastChan : ~chan'[c].busy /\ chan'[c].busy \in BOOLEAN
    BY DEF NoDma, BusOk, ChansOk, AnyChannel
  <2> QED BY <2>1, Dma9Assumption
<1>3. CardShape'
  BY <1>1, <1>2 DEF CardShape
<1>4. CardBefore(job.from, Total, Rests)'
  BY <1>1, <1>2 DEF CardBefore, CardChan, ChanWaits, NoDma
<1> QED BY <1>3, <1>4 DEF CardState, CardPhase

LEMMA CardStays ==
    ASSUME NEW from, NEW t, NEW n, CardPhase(from, t, n),
           UNCHANGED <<card, chan, pending, late, run, IF_, out, job>>
    PROVE  CardPhase(from, t, n)'
<1>1. /\ \A s : ChanIs(from, t, n, s) => ChanIs(from, t, n, s)'
      /\ \A s : CardChan(from, t, n, s) => CardChan(from, t, n, s)'
  BY DEF CardChan, ChanIs, ChanWaits
<1>2. (~Copying => ~Copying') /\ (CardOver => CardOver')
  BY DEF CardOver, Copying
<1>3. /\ \A b, p : CardAt(from, t, b, p) => CardAt(from, t, b, p)'
      /\ \A b, p : CardAfter(from, t, b, p) => CardAfter(from, t, b, p)'
  BY DEF CardAt, CardAfter, CardOver
<1>4. CASE CardBefore(from, t, n)
  <2>1. CardBefore(from, t, n)'
    BY <1>1, <1>2, <1>4 DEF CardBefore
  <2> QED BY <2>1 DEF CardPhase
<1>5. CASE CardEnded(from, t, n)
  <2>1. CardEnded(from, t, n)'
    BY <1>2, <1>5 DEF CardEnded
  <2> QED BY <2>1 DEF CardPhase
<1>6. ASSUME NEW q, NEW b, NEW s, CardFeeds(from, t, n, q, b, s)
      PROVE  CardPhase(from, t, n)'
  <2>1. CardFeeds(from, t, n, q, b, s)'
    BY <1>1, <1>2, <1>3, <1>6 DEF CardFeeds
  <2> QED BY <2>1 DEF CardPhase
<1>7. ASSUME NEW q, NEW b, NEW s, CardCopies(from, t, n, q, b, s)
      PROVE  CardPhase(from, t, n)'
  <2>1. CardCopies(from, t, n, q, b, s)'
    BY <1>1, <1>3, <1>7 DEF CardCopies
  <2> QED BY <2>1 DEF CardPhase
<1> QED BY <1>4, <1>5, <1>6, <1>7 DEF CardPhase

LEMMA CardNext ==
    ASSUME KeyInv, BusInv, CardInv, [Next]_vars
    PROVE  CardInv'
<1> SUFFICES ASSUME job.j.route = "card"
             PROVE  CardState'
  BY RouteStays DEF CardInv
<1>1. CardState /\ BusOk /\ BusOk' /\ job'.j.route = "card" /\ JobOk
  <2>1. job'.j.route = "card" /\ BusInv'
    BY RouteStays, BusNext
  <2> QED BY <2>1 DEF CardInv, BusInv, BusOk
<1>2. CASE Reset
  <2>1. /\ NoDma' /\ out' = <<>> /\ IF_' = {} /\ late' = {} /\ NextProgram /\ DmaReset
        /\ CartridgeReset
    BY <1>2, ResetNoDma DEF Reset
  <2>2. DOMAIN card' = CardNames /\ card'.busy = FALSE
    BY <1>1, <2>1 DEF CardState, CardShape, CardNames, CartridgeReset
  <2>3. CardOver'
    BY <2>1, <2>2 DEF CardOver, DmaReset, Requests
  <2>4. \A c \in 1..LastChan : chan'[c].startup_mode # "AES2"
    <3>1. \A c \in 1..LastChan : c \in 0..LastChan
      BY Dma9Assumption
    <3> QED BY <2>1, <3>1 DEF DmaReset, IdleChan
  <2> QED BY <1>1, <2>1, <2>2, <2>3, <2>4, ProgramOk, CardBegins
<1>3. CASE Driver
  <2>1. NextJob \/ CardJob
    BY <1>1, <1>3, DriverIs
  <2>2. CASE NextJob
    <3>1. /\ 23 \in IF_ /\ run.phase = "cpu" /\ out' = <<>> /\ IF_' = {} /\ NextProgram
          /\ UNCHANGED <<chan, run, card, pending, late>>
      BY <1>1, <2>2 DEF NextJob, Done, CardDone, devices, cardVars
    <3>2. CardEnded(job.from, Total, Rests) /\ CardShape
      BY <1>1, <3>1 DEF CardState, CardPhase, CardBefore, CardFeeds, CardCopies, CardAt
    <3>3. NoDma
      <4>1. \A c \in 0..LastChan : c = 0 \/ c \in 1..LastChan
        BY Dma9Assumption
      <4> QED BY <3>2, <4>1 DEF CardEnded, CardShape, NoDma
    <3>4. NoDma' /\ CardOver' /\ DOMAIN card' = CardNames /\ late' = {}
          /\ \A c \in 1..LastChan : chan'[c].startup_mode # "AES2"
      BY <3>1, <3>2, <3>3, NoDmaStays DEF CardEnded, CardOver, CardShape
    <3> QED BY <1>1, <3>1, <3>4, ProgramOk, CardBegins
  <2> QED BY <1>1, <2>1, <2>2, CardDriver
<1>4. CASE Dma \/ Defer \/ Deliver \/ EndSlice
  BY <1>1, <1>4, CardDma
<1>5. CASE UNCHANGED vars
  <2>1. UNCHANGED <<card, chan, pending, late, run, IF_, out, job>>
    BY <1>5 DEF vars, dmaVars, devices, cardVars
  <2>2. CardShape' /\ Total' = Total /\ Rests' = Rests
    BY <1>1, <2>1 DEF CardState, CardShape, Total, Rests
  <2>3. PICK from, t, n : from = job.from /\ t = Total /\ n = Rests
    OBVIOUS
  <2>4. CardPhase(from, t, n)
    BY <1>1, <2>3 DEF CardState
  <2>5. CardPhase(from, t, n)'
    <3> QED BY <2>1, <2>4, CardStays
  <2> QED BY <2>1, <2>2, <2>3, <2>5 DEF CardState
<1> QED BY <1>2, <1>3, <1>4, <1>5 DEF Next

LEMMA CardInit == Init => CardInv
<1> SUFFICES ASSUME Init, job.j.route = "card" PROVE CardState
  BY DEF CardInv
<1>1. NoDma /\ out = <<>> /\ IF_ = {} /\ JobOk /\ job.todo = job.j.todo
  BY InitNoDma, JobInitially
<1>2. {"blocks", "cmd", "chan", "chan!"} \subseteq job.todo
  BY <1>1, JobsAssumption DEF JobOk
<1>3. /\ \A c \in 0..LastChan : chan[c].busy = FALSE /\ chan[c].startup_mode # "AES2"
      /\ 0 \in 0..LastChan /\ \A c \in 1..LastChan : c \in 0..LastChan
      /\ late = {} /\ ~pending["CTRCARD0"]
  BY Dma9Assumption DEF Init, DmaInit, IdleChan, Requests
<1>4. DOMAIN card = CardNames /\ card.busy = FALSE
  BY DEF Init, CartridgeInit, CardNames
<1>5. CardShape
  BY <1>2, <1>3, <1>4 DEF CardShape
<1>6. CardBefore(job.from, Total, Rests)
  BY <1>1, <1>2, <1>3, <1>4 DEF CardBefore, CardChan, ChanWaits, CardOver, NoDma
<1> QED BY <1>5, <1>6 DEF CardState, CardPhase

LEMMA CardDelivered ==
    ASSUME BusInv, CardInv, job.j.route = "card"
    PROVE  DeliveredIsExpected
<1>1. CardState /\ MediaOk /\ JobOk
  BY DEF CardInv, BusInv, BusOk
<1>2. PICK from, t, n, m : /\ from = job.from /\ t = Total /\ n = Rests
                           /\ CardJobIs(from, t, n, m)
  BY <1>1, CardParameters
<1>3. CardPhase(from, t, n)
  BY <1>1, <1>2 DEF CardState
<1>4. \A i \in DOMAIN out : out[i] = Expected(i)
  <2>1. \A i \in DOMAIN out : out[i] = WordOfCard(from, t, i)
    BY <1>3, NothingIsOut DEF CardPhase, CardBefore, CardEnded, CardFeeds, CardCopies, OfCard
  <2>2. \A i : Expected(i) = WordOfCard(from, t, i)
    <3>1. \A i : Expected(i) = CardExpected(i)
      BY DEF Expected
    <3>2. t = job.j.n * SectorWords /\ Rest = BufferWords - Early
      BY <1>2 DEF Total, Rest
    <3> QED BY <1>2, <3>1, <3>2 DEF CardExpected, WordOfCard
  <2> QED BY <2>1, <2>2
<1>5. ASSUME run.phase = "cpu", Done
      PROVE  Cardinality(DOMAIN out) = InMemory(job.j)
  <2>1. 23 \in IF_
    BY <1>5 DEF Done, CardDone
  <2>2. CardEnded(from, t, n)
    BY <1>3, <1>5, <2>1 DEF CardPhase, CardBefore, CardFeeds, CardCopies, CardAt
  <2>3. Cardinality(DOMAIN out) = t
    BY <2>2 DEF CardEnded, OfCard
  <2> QED BY <1>2, <2>3 DEF InMemory, Total
<1> QED BY <1>1, <1>4, <1>5, MemoryIsDelivered

-----------------------------------------------------------------------------
(* The drivers whose deliveries are proved; the keys are not delivered.     *)
Delivering == {"keys", "copy", "sd", "card", "card2", "rsa", "save"}

RoutesInv ==
    /\ BusInv /\ IdleInv
    /\ CopyInv /\ SdInv /\ CardInv /\ Card2Inv /\ RsaInv /\ SaveInv

LEMMA RoutesNext == KeyInv /\ RoutesInv /\ [Next]_vars => RoutesInv'
BY BusNext, IdleNext, CopyNext, SdNext, CardNext, Card2Next, RsaNext, SaveNext
   DEF RoutesInv

LEMMA RoutesInit == Init => RoutesInv
BY BusInit, InitNoDma, CopyInit, SdInit, CardInit, Card2Init, RsaInitially, SaveInit
   DEF RoutesInv, IdleInv

(* What the jobs of these drivers deliver: every word in the memory and on  *)
(* the media is the one that belongs there, nothing is anywhere else, and   *)
(* of a job that has ended all its words are there, whenever the events     *)
(* fire and the slices end and after whatever jobs and resets: the copy     *)
(* that an immediate channel makes while its destination goes down          *)
(* (dma9.cpp), the registers of the SD card, the words of a game card, of   *)
(* which the processor reads the first of each bufferful and channel 0 the  *)
(* others when the line rises (cartridge.cpp), the sectors of a Card2, the  *)
(* power that the RSA engine makes of its key and message in either order   *)
(* of words, and the save memory, which gives back what was written to it.  *)
THEOREM Arm9DeliveredIsExpected ==
    Spec => [](job.j.route \in Delivering => DeliveredIsExpected)
<1>1. RoutesInv /\ job.j.route \in Delivering => DeliveredIsExpected
  <2> SUFFICES ASSUME RoutesInv, job.j.route \in Delivering
               PROVE  DeliveredIsExpected
    OBVIOUS
  <2>1. CASE job.j.route = "keys"
    BY <2>1, IdleDelivered DEF RoutesInv, Storing
  <2>2. CASE job.j.route # "keys"
    BY <2>2, CopyDelivered, SdDelivered, CardDelivered, Card2Delivered, RsaDelivered,
       SaveDelivered DEF RoutesInv, Delivering
  <2> QED BY <2>1, <2>2
<1> QED BY <1>1, KeyInit, KeyNext, RoutesInit, RoutesNext, PTL DEF Spec
=============================================================================
