-------------------------------- MODULE Rpmb --------------------------------
(***************************************************************************)
(* The lower interface to the RPMB partition, core/tee/tee_rpmb_fs.c:      *)
(* initialisation of the context, authenticated reads and writes with the  *)
(* device's write counter, retries, and the start-up of the file system,   *)
(* which writes a block to overtake requests of an earlier boot.           *)
(*                                                                         *)
(* Requests go through the normal world: one may fail, and be carried out  *)
(* later or never, even after a restart of the TEE, or in the place of     *)
(* another one.  Reads carry a fresh nonce, so that only their own answer  *)
(* is accepted.  Answers to writes do not: in a run that is not paired one *)
(* may come late, come again, or be damaged on its way.                    *)
(* All calls are made under rpmb_mutex, so there is one at a time.         *)
(***************************************************************************)
EXTENDS Naturals, Sequences

CONSTANTS Blocks,       \* blocks of FAT entries and data; 0 is the partition
          Vals,         \* what they may hold
          Fat,          \* the block of the first FAT entry
          LastEntry,    \* an entry with FILE_IS_LAST_ENTRY
          MaxRetries,   \* RPMB_MAX_RETRIES
          MaxBlkCnt,    \* bound on the number of blocks of a write
          MaxCnt,       \* bound on the device's write counter
          MaxUnpaired,  \* the same where answers are not paired
          Pairing,      \* the values of paired
          None

ASSUME RpmbAssumption ==
  /\ 0 \notin Blocks /\ Fat \in Blocks /\ LastEntry \in Vals
  /\ MaxRetries \in Nat \ {0} /\ MaxBlkCnt \in Nat /\ MaxCnt \in Nat
  /\ MaxUnpaired \in 0 .. MaxCnt /\ Pairing \subseteq BOOLEAN
  /\ \A b \in Blocks \cup {0}, v \in Vals \cup {"blank", "part"} :
       <<b, v>> # None

VARIABLES
  paired,       \* an answer to a write is the one to the request just sent
  given,        \* the answers to writes that may come again
  dev,          \* the device: its key, its write counter, its blocks
  late,         \* requests to write that may still be carried out
  ctx,          \* struct tee_rpmb_ctx
  rpmb_dead,
  fs_par,       \* TRUE when rpmb_fs_setup() has set it
  pc,           \* idle, init (in tee_rpmb_init()), key, or do (the access)
  stage,        \* which access of which call
  job,          \* the blocks still to be written, with their contents
  wr_cnt,       \* of write_req()
  retry_count

vars == <<paired, given, dev, late, ctx, rpmb_dead, fs_par, pc, stage, job,
          wr_cnt, retry_count>>

(***************************************************************************)
(* The partition block is blank (whatever has no RPMB_FS_MAGIC) or part.   *)
(***************************************************************************)
AllBlocks == Blocks \cup {0}
AllVals == Vals \cup {"blank", "part"}

NoContext == [info |-> FALSE, key_verified |-> FALSE, wr_cnt_synced |-> FALSE,
              wr_cnt |-> 0]

(***************************************************************************)
(* A new device, its key programmed at manufacture or not.                 *)
(***************************************************************************)
Init ==
  /\ paired \in Pairing
  /\ given = {}
  /\ dev \in [keyed : BOOLEAN, cnt : {0}, mem : {[b \in AllBlocks |-> "blank"]}]
  /\ late = {}
  /\ ctx = NoContext
  /\ rpmb_dead = FALSE
  /\ fs_par = FALSE
  /\ pc = "idle" /\ stage = "none"
  /\ job = <<>>
  /\ wr_cnt = 0 /\ retry_count = 0

Restart ==
  /\ ctx' = NoContext
  /\ rpmb_dead' = FALSE
  /\ fs_par' = FALSE
  /\ pc' = "idle" /\ stage' = "none"
  /\ job' = <<>>
  /\ wr_cnt' = 0 /\ retry_count' = 0
  /\ UNCHANGED <<paired, given, dev, late>>

-----------------------------------------------------------------------------
(***************************************************************************)
(* The device carries out a request that has its counter, and counts.  A   *)
(* request with a counter of the past is refused for ever, and forgotten.  *)
(* The answer has the block and the counter after the write.               *)
(***************************************************************************)
Cap == IF paired THEN MaxCnt ELSE MaxUnpaired

Answer(blk, cnt) == [blk |-> blk, cnt |-> cnt]

Exec(q) ==
  /\ ~paired => dev.cnt < Cap
  /\ dev' = [dev EXCEPT !.mem[q.blk] = q.val, !.cnt = @ + 1]
  /\ late' = {p \in late : p.cnt > dev.cnt}
  /\ given' = IF paired THEN given
                         ELSE given \cup {Answer(q.blk, dev.cnt + 1)}

LateWrite ==
  /\ \E q \in late : q.cnt = dev.cnt /\ Exec(q)
  /\ UNCHANGED <<paired, ctx, rpmb_dead, fs_par, pc, stage, job, wr_cnt,
                 retry_count>>

-----------------------------------------------------------------------------
(***************************************************************************)
(* tee_rpmb_read(), tee_rpmb_write_blk(): every access begins with         *)
(* tee_rpmb_init().                                                        *)
(***************************************************************************)
Writing == stage \in {"dummy", "fat", "part", "write"}

Access(st, j) == pc' = "init" /\ stage' = st /\ job' = j

Idle == pc' = "idle" /\ stage' = "none" /\ job' = <<>>

(***************************************************************************)
(* rpmb_fs_setup() sets fs_par after its last write, whether that failed   *)
(* or not, unless the counter cannot be had or memory has run out.         *)
(***************************************************************************)
ReturnError ==
  /\ Idle
  /\ fs_par' \in {fs_par, fs_par \/ stage = "part"}

(***************************************************************************)
(* rpmb_fs_setup(), by the first call of the file system; later a write of *)
(* aligned blocks, a write that reads them first, or a read.               *)
(***************************************************************************)
CallSetup ==
  /\ pc = "idle" /\ ~rpmb_dead /\ ~fs_par
  /\ dev.cnt + (IF dev.mem[0] = "part" THEN 2 ELSE 4) <= Cap
  /\ Access("read1", <<>>)
  /\ UNCHANGED <<paired, given, dev, late, ctx, rpmb_dead, fs_par, wr_cnt,
                 retry_count>>

BlockSeqs == UNION {[1 .. n -> Blocks \X Vals] : n \in 1 .. MaxBlkCnt}

CallWrite ==
  /\ pc = "idle" /\ ~rpmb_dead /\ fs_par
  /\ \E j \in BlockSeqs, st \in {"rmw", "write"} :
       /\ \A m, n \in DOMAIN j : j[m][1] = j[n][1] => m = n
       /\ dev.cnt + Len(j) <= Cap
       /\ Access(st, j)
  /\ UNCHANGED <<paired, given, dev, late, ctx, rpmb_dead, fs_par, wr_cnt,
                 retry_count>>

CallRead ==
  /\ pc = "idle" /\ ~rpmb_dead /\ fs_par
  /\ Access("read", <<>>)
  /\ UNCHANGED <<paired, given, dev, late, ctx, rpmb_dead, fs_par, wr_cnt,
                 retry_count>>

-----------------------------------------------------------------------------
(***************************************************************************)
(* tee_rpmb_init(): device information, then the counter, which also       *)
(* verifies the key; each kept once it has been had.                       *)
(***************************************************************************)
InitInfo ==
  /\ pc = "init" /\ ~ctx.info
  /\ ctx' = [ctx EXCEPT !.info = TRUE]
  /\ UNCHANGED <<paired, given, dev, late, rpmb_dead, fs_par, pc, stage, job,
                 wr_cnt, retry_count>>

Synced == ctx.info /\ ctx.wr_cnt_synced /\ ctx.key_verified

VerifyKeySyncCounter ==
  /\ pc = "init" /\ ctx.info /\ ~Synced
  /\ dev.keyed
  /\ ctx' = [ctx EXCEPT !.wr_cnt = dev.cnt, !.key_verified = TRUE,
                        !.wr_cnt_synced = TRUE]
  /\ UNCHANGED <<paired, given, dev, late, rpmb_dead, fs_par, pc, stage, job,
                 wr_cnt, retry_count>>

(***************************************************************************)
(* The device has no key: it is programmed, with CFG_RPMB_WRITE_KEY, and   *)
(* verified.                                                               *)
(***************************************************************************)
WriteKey ==
  /\ pc = "init" /\ ctx.info /\ ~ctx.key_verified
  /\ ~dev.keyed
  /\ dev' = [dev EXCEPT !.keyed = TRUE]
  /\ \/ UNCHANGED <<fs_par, pc, stage, job>>
     \/ ReturnError                             \* the answer is lost
  /\ UNCHANGED <<paired, given, late, ctx, rpmb_dead, wr_cnt, retry_count>>

(***************************************************************************)
(* write_req() starts from the context's counter.                          *)
(***************************************************************************)
InitDone ==
  /\ pc = "init" /\ Synced
  /\ pc' = "do"
  /\ wr_cnt' = IF Writing THEN ctx.wr_cnt ELSE wr_cnt
  /\ retry_count' = 0
  /\ UNCHANGED <<paired, given, dev, late, ctx, rpmb_dead, fs_par, stage, job>>

(***************************************************************************)
(* Anything but a request to write that fails ends the call: an RPC of     *)
(* tee_rpmb_init() or of a read, the allocation of buffers.                *)
(***************************************************************************)
AccessFails ==
  /\ pc = "init" \/ (pc = "do" /\ ~Writing)
  /\ ReturnError
  /\ UNCHANGED <<paired, given, dev, late, ctx, rpmb_dead, wr_cnt, retry_count>>

-----------------------------------------------------------------------------
(***************************************************************************)
(* Mutant: no block is written to overtake the requests of earlier boots.  *)
(***************************************************************************)
MutantReadDone ==
  /\ pc = "do" /\ ~Writing
  /\ \/ stage = "read1" /\ Access("read2", <<>>) /\ UNCHANGED fs_par
     \/ stage = "read2" /\ dev.mem[0] = "part" /\ Idle /\ fs_par' \in BOOLEAN
     \/ stage = "read2" /\ dev.mem[0] # "part"
          /\ Access("fat", << <<Fat, LastEntry>> >>) /\ UNCHANGED fs_par
     \/ stage = "rmw" /\ Access("write", job) /\ UNCHANGED fs_par
     \/ stage = "read" /\ Idle /\ UNCHANGED fs_par
  /\ UNCHANGED <<paired, given, dev, late, ctx, rpmb_dead, wr_cnt, retry_count>>

(***************************************************************************)
(* What follows an access that succeeded.  The partition block is written  *)
(* back as it was read, and read again.  At the end there may be no memory *)
(* for fs_par.                                                             *)
(***************************************************************************)
ReadDone ==
  /\ pc = "do" /\ ~Writing
  /\ \/ stage = "read1" /\ Access("dummy", << <<0, dev.mem[0]>> >>)
          /\ UNCHANGED fs_par
     \/ stage = "read2" /\ dev.mem[0] = "part" /\ Idle /\ fs_par' \in BOOLEAN
     \/ stage = "read2" /\ dev.mem[0] # "part"
          /\ Access("fat", << <<Fat, LastEntry>> >>) /\ UNCHANGED fs_par
     \/ stage = "rmw" /\ Access("write", job) /\ UNCHANGED fs_par
     \/ stage = "read" /\ Idle /\ UNCHANGED fs_par
  /\ UNCHANGED <<paired, given, dev, late, ctx, rpmb_dead, wr_cnt, retry_count>>

BlockDone ==
  IF Len(job) > 1
    THEN job' = Tail(job) /\ UNCHANGED <<pc, stage, fs_par>>
    ELSE \/ stage = "dummy" /\ Access("read2", <<>>) /\ UNCHANGED fs_par
         \/ stage = "fat" /\ Access("part", << <<0, "part">> >>)
              /\ UNCHANGED fs_par
         \/ stage = "part" /\ Idle /\ fs_par' \in BOOLEAN
         \/ stage = "write" /\ Idle /\ UNCHANGED fs_par

-----------------------------------------------------------------------------
(***************************************************************************)
(* write_req(): the request for the next block.                            *)
(***************************************************************************)
Request == [blk |-> job[1][1], val |-> job[1][2], cnt |-> wr_cnt]

Sent == late \cup {q \in {Request} : q.cnt >= dev.cnt}

(***************************************************************************)
(* The device answers with our block and the counter after the write: it   *)
(* has carried out our request, or another one with this block and counter *)
(* ("in case a stale request was committed instead of the one issued").    *)
(***************************************************************************)
Acknowledged ==
  /\ ~paired => ctx.wr_cnt < Cap
  /\ ctx' = [ctx EXCEPT !.wr_cnt = @ + 1]
  /\ wr_cnt' = ctx.wr_cnt + 1
  /\ retry_count' = 0
  /\ BlockDone
  /\ UNCHANGED <<paired, rpmb_dead>>

WriteDone ==
  /\ pc = "do" /\ Writing
  /\ dev.cnt = wr_cnt
  /\ \E q \in late \cup {Request} :
       q.blk = Request.blk /\ q.cnt = wr_cnt /\ Exec(q)
  /\ Acknowledged

(***************************************************************************)
(* The same answer, but one that the device gave before.                   *)
(***************************************************************************)
WriteAnsweredBefore ==
  /\ pc = "do" /\ Writing
  /\ ~paired
  /\ Answer(Request.blk, wr_cnt + 1) \in given
  /\ late' = Sent
  /\ Acknowledged
  /\ UNCHANGED <<given, dev>>

(***************************************************************************)
(* Mutant: one attempt too many.                                           *)
(***************************************************************************)
MutantRetry(c, d) ==
  /\ retry_count' = retry_count + 1
  /\ IF retry_count >= MaxRetries
       THEN rpmb_dead' = TRUE /\ ReturnError /\ ctx' = c
       ELSE ctx' = d /\ UNCHANGED <<rpmb_dead, fs_par, pc, stage, job>>

(***************************************************************************)
(* After RPMB_MAX_RETRIES the device is given up until the next boot, as   *)
(* nobody knows whether the write has been or will be carried out.  The    *)
(* context is then c, and d if there is another attempt.                   *)
(***************************************************************************)
Retry(c, d) ==
  /\ retry_count' = retry_count + 1
  /\ IF retry_count + 1 >= MaxRetries
       THEN rpmb_dead' = TRUE /\ ReturnError /\ ctx' = c
       ELSE ctx' = d /\ UNCHANGED <<rpmb_dead, fs_par, pc, stage, job>>

Unsynced(c) == [c EXCEPT !.wr_cnt_synced = FALSE]

(***************************************************************************)
(* The RPC fails, or the device refuses the request: for its counter, or   *)
(* for a failure of its own.                                               *)
(***************************************************************************)
WriteRpcFails ==
  /\ pc = "do" /\ Writing
  /\ late' = Sent
  /\ Retry(ctx, Unsynced(ctx))
  /\ UNCHANGED <<paired, given, dev, wr_cnt>>

WriteRefused ==
  /\ pc = "do" /\ Writing
  /\ Retry(ctx, Unsynced(ctx))
  /\ UNCHANGED <<paired, given, dev, late, wr_cnt>>

(***************************************************************************)
(* An answer for this block with another counter, or with the right one    *)
(* and a wrong MAC.  tee_rpmb_resp_unpack_verify() has by then put the     *)
(* counter of the answer into wr_cnt, with which the next attempt is made, *)
(* and has counted the right one in the context.                           *)
(***************************************************************************)
WriteMismatch ==
  /\ pc = "do" /\ Writing
  /\ ~paired
  /\ late' = Sent
  /\ \E a \in 0 .. Cap :
       LET c == IF a = wr_cnt + 1 THEN [ctx EXCEPT !.wr_cnt = @ + 1] ELSE ctx
       IN  /\ c.wr_cnt <= Cap
           /\ wr_cnt' = a
           /\ Retry(c, Unsynced(c))
  /\ UNCHANGED <<paired, given, dev>>

(***************************************************************************)
(* Mutant: a request that cannot be packed ends the call at any attempt.   *)
(***************************************************************************)
MutantPackFails ==
  /\ pc = "do" /\ Writing
  /\ ReturnError
  /\ UNCHANGED <<paired, given, dev, late, ctx, rpmb_dead, wr_cnt, retry_count>>

(***************************************************************************)
(* tee_rpmb_req_pack() fails.  The call may end only if no request with    *)
(* this counter has left the TEE.                                          *)
(***************************************************************************)
PackFails ==
  /\ pc = "do" /\ Writing
  /\ IF retry_count = 0
       THEN ReturnError /\ UNCHANGED <<ctx, rpmb_dead, retry_count>>
       ELSE Retry(ctx, ctx)
  /\ UNCHANGED <<paired, given, dev, late, wr_cnt>>

-----------------------------------------------------------------------------
Call == CallSetup \/ CallWrite \/ CallRead

Step ==
  \/ InitInfo \/ VerifyKeySyncCounter \/ WriteKey \/ InitDone
  \/ AccessFails \/ ReadDone
  \/ WriteDone \/ WriteAnsweredBefore
  \/ WriteRpcFails \/ WriteRefused \/ WriteMismatch \/ PackFails

Next == Call \/ Step \/ LateWrite \/ Restart

Spec == Init /\ [][Next]_vars

-----------------------------------------------------------------------------
(***************************************************************************)
(* Properties                                                              *)
(***************************************************************************)
TypeOK ==
  /\ paired \in BOOLEAN
  /\ given \subseteq [blk : AllBlocks, cnt : 0 .. MaxCnt]
  /\ dev \in [keyed : BOOLEAN, cnt : 0 .. MaxCnt, mem : [AllBlocks -> AllVals]]
  /\ late \subseteq [blk : AllBlocks, val : AllVals, cnt : 0 .. MaxCnt]
  /\ ctx \in [info : BOOLEAN, key_verified : BOOLEAN, wr_cnt_synced : BOOLEAN,
              wr_cnt : 0 .. MaxCnt]
  /\ rpmb_dead \in BOOLEAN /\ fs_par \in BOOLEAN
  /\ pc \in {"idle", "init", "do"}
  /\ stage \in {"none", "read1", "dummy", "read2", "fat", "part", "rmw",
                "write", "read"}
  /\ job \in Seq(AllBlocks \X AllVals)
  /\ wr_cnt \in 0 .. MaxCnt
  /\ retry_count \in 0 .. MaxRetries

(***************************************************************************)
(* Where answers are paired: between the calls of a file system that has   *)
(* been set up, no request of this or of an earlier boot can still be      *)
(* carried out ("there are no other possible stale blocks with valid write *)
(* counters available", rpmb_fs_setup()): what the last write left in a    *)
(* block is what is there.  Where they are not, NoneStale fails: an answer *)
(* that is refused has changed the counter of the next attempt, which an   *)
(* answer of the past may then acknowledge.                                *)
(***************************************************************************)
NoneStale == fs_par /\ ~rpmb_dead /\ pc = "idle" => late = {}

StaleRefused == paired => NoneStale

(***************************************************************************)
(* Where answers are paired: a write that has been acknowledged is durable *)
(* and cannot be overtaken; one that has failed, in a file system that     *)
(* goes on, will never happen; one that is in doubt is settled before the  *)
(* file system is used again.                                              *)
(***************************************************************************)
Doubtful == {q \in late : q.cnt = dev.cnt}

Store == INSTANCE BlockStore WITH
  Blocks <- AllBlocks,
  Vals <- AllVals,
  mem <- IF paired THEN dev.mem ELSE [b \in AllBlocks |-> "blank"],
  doubt <- IF paired THEN {<<q.blk, q.val>> : q \in Doubtful} ELSE {},
  op <- IF paired /\ pc = "do" /\ Writing THEN job[1] ELSE None,
  open <- paired /\ fs_par /\ ~rpmb_dead

ImplementsBlockStore == Store!Spec

(***************************************************************************)
(* The file system that is in use will be found again after a restart: not *)
(* so when the last write of the start-up has failed.                      *)
(***************************************************************************)
FormatLasts == fs_par /\ ~rpmb_dead => dev.mem[0] = "part"
=============================================================================
