----------------------------- MODULE RpmbProofs -----------------------------
(***************************************************************************)
(* Proofs about the lower interface to the RPMB partition: its types, that *)
(* no stale request survives the start-up of the file system, and that it  *)
(* implements a store of blocks.                                           *)
(***************************************************************************)
EXTENDS Rpmb, TLAPS

(***************************************************************************)
(* The invariant.  Its parts are what rpmb_fs_setup() and write_req() rely *)
(* on without saying so.                                                   *)
(***************************************************************************)

(***************************************************************************)
(* The types, the counters without their bound.                            *)
(***************************************************************************)
Device == [keyed : BOOLEAN, cnt : Nat, mem : [AllBlocks -> AllVals]]

Requests == [blk : AllBlocks, val : AllVals, cnt : Nat]

Context == [info : BOOLEAN, key_verified : BOOLEAN, wr_cnt_synced : BOOLEAN,
            wr_cnt : Nat]

Answers == [blk : AllBlocks, cnt : Nat]

Shape ==
  /\ paired \in BOOLEAN /\ given \subseteq Answers
  /\ paired => given = {}
  /\ dev \in Device
  /\ late \subseteq Requests
  /\ ctx \in Context
  /\ rpmb_dead \in BOOLEAN /\ fs_par \in BOOLEAN
  /\ pc \in {"idle", "init", "do"}
  /\ stage \in {"none", "read1", "dummy", "read2", "fat", "part", "rmw",
                "write", "read"}
  /\ job \in Seq(AllBlocks \X AllVals)
  /\ wr_cnt \in Nat
  /\ retry_count \in 0 .. MaxRetries

(***************************************************************************)
(* The start-up runs before fs_par is set, all else after; a device that   *)
(* has been given up is not used; attempts remain while there is a request.*)
(***************************************************************************)
SetupStages == {"read1", "dummy", "read2", "fat", "part"}

Phases ==
  /\ stage = "none" <=> pc = "idle"
  /\ rpmb_dead => pc = "idle"
  /\ stage \in SetupStages => ~fs_par
  /\ stage \in {"rmw", "write", "read"} => fs_par
  /\ pc = "do" => retry_count < MaxRetries

(***************************************************************************)
(* The partition block is written only by the start-up.  The counter is    *)
(* fresh when it is first read, and is not asked for again before the      *)
(* write that overtakes stale requests.                                    *)
(***************************************************************************)
Jobs ==
  /\ stage \in {"dummy", "part"} => Len(job) = 1 /\ job[1][1] = 0
  /\ stage = "part" => job[1][2] = "part"
  /\ stage = "fat" => Len(job) = 1
  /\ stage \in {"fat", "rmw", "write"} =>
       job \in Seq(Blocks \X Vals) /\ Len(job) > 0
  /\ stage = "read1" /\ pc = "do" => Synced
  /\ stage = "dummy" /\ pc = "init" => Synced

(***************************************************************************)
(* With paired answers nobody knows a counter that the device has not      *)
(* reached.                                                                *)
(***************************************************************************)
Past ==
  paired =>
    /\ \A q \in late : q.cnt <= dev.cnt
    /\ ctx.wr_cnt <= dev.cnt
    /\ wr_cnt <= dev.cnt

(***************************************************************************)
(* Once the start-up has had a write acknowledged nothing is stale, except *)
(* what the write in progress has sent itself.                             *)
(***************************************************************************)
Retrying == pc = "do" /\ Writing /\ retry_count > 0

Settled ==
  paired /\ (fs_par \/ stage \in {"read2", "fat", "part"}) /\ ~rpmb_dead
    => \A q \in late : Retrying /\ q = Request

(***************************************************************************)
(* The bound on the counter: what may still be written fits below it.      *)
(***************************************************************************)
Live ==
  /\ pc = "do" /\ Writing => wr_cnt = dev.cnt
  /\ stage = "dummy" /\ pc = "init" => ctx.wr_cnt = dev.cnt

Formatted == dev.mem[0] = "part"

Budget ==
  paired =>
    /\ dev.cnt <= MaxCnt
    /\ \A q \in late : q.cnt = dev.cnt => dev.cnt < MaxCnt
    /\ stage = "read1" => dev.cnt + (IF Formatted THEN 1 ELSE 3) <= MaxCnt
    /\ stage = "read1" /\ (\E q \in late : q.cnt = dev.cnt) =>
         dev.cnt + (IF Formatted THEN 2 ELSE 4) <= MaxCnt
    /\ stage = "dummy" /\ Live =>
         dev.cnt + (IF Formatted THEN 1 ELSE 3) <= MaxCnt
    /\ stage = "read2" => dev.cnt + (IF Formatted THEN 0 ELSE 2) <= MaxCnt
    /\ stage = "fat" /\ Live => dev.cnt + 2 <= MaxCnt
    /\ stage = "part" /\ Live => dev.cnt + 1 <= MaxCnt
    /\ stage \in {"rmw", "write"} /\ Live => dev.cnt + Len(job) <= MaxCnt

(***************************************************************************)
(* A request that can still be carried out does not undo the format.       *)
(***************************************************************************)
FormatSafe ==
  paired =>
    /\ \A q \in late :
         q.cnt = dev.cnt /\ q.blk = 0 /\ Formatted => q.val = "part"
    /\ stage = "dummy" /\ Live => job[1][2] = dev.mem[0]

(***************************************************************************)
(* Where answers are not paired only the bounds are left.                  *)
(***************************************************************************)
Capped ==
  ~paired =>
    /\ dev.cnt <= MaxUnpaired /\ ctx.wr_cnt <= MaxUnpaired
    /\ wr_cnt <= MaxUnpaired
    /\ \A q \in late : q.cnt <= MaxUnpaired
    /\ \A a \in given : a.cnt <= MaxUnpaired

Inv ==
  /\ Shape /\ Phases /\ Jobs /\ Past /\ Settled /\ Budget /\ FormatSafe
  /\ Capped

-----------------------------------------------------------------------------
(***************************************************************************)
(* The device carries out a request: its counter and its blocks.           *)
(***************************************************************************)
LEMMA ExecEffect ==
  ASSUME Shape, Past, NEW q \in Requests,
         Exec(q)
  PROVE  /\ dev' \in Device
         /\ dev'.cnt = dev.cnt + 1
         /\ dev'.mem = [dev.mem EXCEPT ![q.blk] = q.val]
         /\ dev'.mem[0] = IF q.blk = 0 THEN q.val ELSE dev.mem[0]
         /\ late' \subseteq late /\ (paired => late' = {})
         /\ given' \subseteq Answers
         /\ paired => given' = given
         /\ ~paired /\ Capped => dev.cnt < MaxUnpaired
              /\ \A a \in given' : a.cnt <= MaxUnpaired
<1>1. /\ dev \in Device
      /\ 0 \in AllBlocks /\ q.blk \in AllBlocks /\ q.val \in AllVals
  BY DEF Shape, AllBlocks, Requests
<1>2. dev' = [[dev EXCEPT !.mem = [dev.mem EXCEPT ![q.blk] = q.val]]
                EXCEPT !.cnt = dev.cnt + 1]
  BY <1>1 DEF Exec, Device
<1>3. [dev.mem EXCEPT ![q.blk] = q.val] \in [AllBlocks -> AllVals]
  BY <1>1 DEF Device
<1>4. late' \subseteq late /\ (paired => late' = {})
  <2>1. paired => \A p \in late : p.cnt \in Nat /\ p.cnt <= dev.cnt
    BY DEF Shape, Past, Requests
  <2> QED  BY <2>1, <1>1 DEF Exec, Device
<1>7. /\ given' \subseteq Answers /\ (paired => given' = given)
      /\ ~paired /\ Capped => dev.cnt < MaxUnpaired
           /\ \A a \in given' : a.cnt <= MaxUnpaired
  <2>1. dev.cnt + 1 \in Nat /\ MaxUnpaired \in Nat
    BY <1>1, RpmbAssumption DEF Device
  <2>2. Answer(q.blk, dev.cnt + 1) \in Answers
    BY <1>1, <2>1 DEF Answer, Answers
  <2>3. Answer(q.blk, dev.cnt + 1).cnt = dev.cnt + 1
    BY DEF Answer
  <2>4. given \subseteq Answers /\ paired \in BOOLEAN
    BY DEF Shape
  <2>5. ~paired => dev.cnt < MaxUnpaired
    BY DEF Exec, Cap
  <2> QED  BY <1>1, <2>1, <2>2, <2>3, <2>4, <2>5 DEF Exec, Capped, Device
<1>5. dev'.cnt = dev.cnt + 1 /\ dev'.mem = [dev.mem EXCEPT ![q.blk] = q.val]
  BY <1>1, <1>2 DEF Device
<1>6. dev' \in Device
  <2> DEFINE m == [dev.mem EXCEPT ![q.blk] = q.val]
             d == [dev EXCEPT !.mem = m]
  <2>1. m \in [AllBlocks -> AllVals]
    BY <1>3
  <2> HIDE DEF m
  <2>2. d \in Device /\ d.cnt = dev.cnt
    BY <1>1, <2>1 DEF Device
  <2>3. dev' = [d EXCEPT !.cnt = dev.cnt + 1]
    BY <1>2 DEF m
  <2>4. dev.cnt + 1 \in Nat
    BY <1>1 DEF Device
  <2> HIDE DEF d
  <2> QED  BY <2>2, <2>3, <2>4 DEF Device
<1> QED  BY <1>1, <1>4, <1>5, <1>6, <1>7 DEF Device

(***************************************************************************)
(* The request for the next block.                                         *)
(***************************************************************************)
LEMMA RequestType ==
  ASSUME Inv, Writing
  PROVE  /\ job[1] \in AllBlocks \X AllVals
         /\ job[1] = <<job[1][1], job[1][2]>>
         /\ Request \in Requests
         /\ Request.blk = job[1][1] /\ Request.val = job[1][2]
         /\ Request.cnt = wr_cnt
<1>1. job \in Seq(AllBlocks \X AllVals) /\ Len(job) > 0 /\ wr_cnt \in Nat
  BY DEF Inv, Shape, Jobs, Writing
<1>2. job[1] \in AllBlocks \X AllVals
  BY <1>1
<1> QED  BY <1>1, <1>2 DEF Request, Requests

LEMMA NoJob == <<>> \in Seq(AllBlocks \X AllVals)
  OBVIOUS

(***************************************************************************)
(* A failed attempt to write: the context changes but for its counter.     *)
(***************************************************************************)
LEMMA RetryEffect ==
  ASSUME Inv, pc = "do", NEW c \in Context, NEW d \in Context, Retry(c, d)
  PROVE  /\ retry_count' = retry_count + 1 /\ retry_count' \in 0 .. MaxRetries
         /\ ctx' \in {c, d}
         /\ job' \in Seq(AllBlocks \X AllVals)
         /\ \/ /\ rpmb_dead' /\ fs_par' \in BOOLEAN
               /\ pc' = "idle" /\ stage' = "none" /\ job' = <<>>
            \/ /\ retry_count' < MaxRetries
               /\ UNCHANGED <<rpmb_dead, fs_par, pc, stage, job>>
<1>1. /\ retry_count \in Nat /\ retry_count < MaxRetries
      /\ fs_par \in BOOLEAN /\ job \in Seq(AllBlocks \X AllVals)
  BY DEF Inv, Shape, Phases
<1>2. retry_count' = retry_count + 1 /\ retry_count' \in 0 .. MaxRetries
  BY <1>1, RpmbAssumption DEF Retry
<1>3. CASE retry_count + 1 >= MaxRetries
  <2>1. /\ rpmb_dead' = TRUE /\ ctx' = c
        /\ pc' = "idle" /\ stage' = "none" /\ job' = <<>>
        /\ fs_par' \in BOOLEAN
    BY <1>1, <1>3 DEF Retry, ReturnError, Idle
  <2>2. rpmb_dead'
    BY <2>1
  <2> QED  BY <1>2, <2>1, <2>2, NoJob
<1>4. CASE ~(retry_count + 1 >= MaxRetries)
  <2>1. ctx' = d /\ UNCHANGED <<rpmb_dead, fs_par, pc, stage, job>>
    BY <1>4 DEF Retry
  <2>2. retry_count' < MaxRetries
    BY <1>1, <1>2, <1>4, RpmbAssumption
  <2> QED  BY <1>1, <1>2, <2>1, <2>2
<1> QED  BY <1>3, <1>4

LEMMA UnsyncedEffect ==
  ASSUME NEW c \in Context
  PROVE  Unsynced(c) \in Context /\ Unsynced(c).wr_cnt = c.wr_cnt
  BY DEF Unsynced, Context

(***************************************************************************)
(* An acknowledged write is counted.                                       *)
(***************************************************************************)
LEMMA CountedContext ==
  ASSUME Shape, Acknowledged
  PROVE  ctx' \in Context /\ ctx'.wr_cnt = ctx.wr_cnt + 1
<1>1. ctx' = [ctx EXCEPT !.wr_cnt = ctx.wr_cnt + 1] /\ ctx \in Context
  BY DEF Shape, Acknowledged
<1>2. ctx.wr_cnt + 1 \in Nat
  BY <1>1 DEF Context
<1> QED  BY <1>1, <1>2 DEF Context

-----------------------------------------------------------------------------
(***************************************************************************)
(* The actions, each with one step for every part of the invariant.  All   *)
(* parts are expanded: an action that changes the phase needs most of them. *)
(***************************************************************************)
USE RpmbAssumption
DEF Inv, Shape, Device, Requests, Context, Phases, SetupStages, Jobs,
    Synced, Past, Settled, Retrying, Writing, Budget, Live, Formatted,
    FormatSafe, Capped, Cap, Answers

(***************************************************************************)
(* rpmb_fs_setup() is called with room for its writes and one stale one.   *)
(***************************************************************************)
LEMMA CallSetupStep ==
  ASSUME Inv, CallSetup
  PROVE  Inv'
<1> USE DEF CallSetup, Access
<1>1. Shape'  OBVIOUS
<1>2. Phases'  OBVIOUS
<1>3. Jobs'  OBVIOUS
<1>4. Past'  OBVIOUS
<1>5. Settled'  OBVIOUS
<1>6. Budget'  OBVIOUS
<1>7. FormatSafe'  OBVIOUS
<1>8. Capped'  OBVIOUS
<1> QED  BY <1>1, <1>2, <1>3, <1>4, <1>5, <1>6, <1>7, <1>8

(***************************************************************************)
(* A write starts with nothing stale, and fits below the bound.            *)
(***************************************************************************)
LEMMA CallWriteStep ==
  ASSUME Inv, CallWrite
  PROVE  Inv'
<1> USE DEF CallWrite, Access, BlockSeqs, AllBlocks, AllVals
<1>1. Shape'  OBVIOUS
<1>2. Phases'  OBVIOUS
<1>3. Jobs'  OBVIOUS
<1>4. Past'  OBVIOUS
<1>5. Settled'  OBVIOUS
<1>6. Budget'  OBVIOUS
<1>7. FormatSafe'  OBVIOUS
<1>8. Capped'  OBVIOUS
<1> QED  BY <1>1, <1>2, <1>3, <1>4, <1>5, <1>6, <1>7, <1>8

(***************************************************************************)
(* A read writes nothing.                                                  *)
(***************************************************************************)
LEMMA CallReadStep ==
  ASSUME Inv, CallRead
  PROVE  Inv'
<1> USE DEF CallRead, Access
<1>1. Shape'  OBVIOUS
<1>2. Phases'  OBVIOUS
<1>3. Jobs'  OBVIOUS
<1>4. Past'  OBVIOUS
<1>5. Settled'  OBVIOUS
<1>6. Budget'  OBVIOUS
<1>7. FormatSafe'  OBVIOUS
<1>8. Capped'  OBVIOUS
<1> QED  BY <1>1, <1>2, <1>3, <1>4, <1>5, <1>6, <1>7, <1>8

(***************************************************************************)
(* tee_rpmb_init(): the context becomes synchronised, never less so.       *)
(***************************************************************************)
LEMMA InitInfoStep ==
  ASSUME Inv, InitInfo
  PROVE  Inv'
<1> USE DEF InitInfo
<1>1. Shape'  OBVIOUS
<1>2. Phases'  OBVIOUS
<1>3. Jobs'  OBVIOUS
<1>4. Past'  OBVIOUS
<1>5. Settled'  OBVIOUS
<1>6. Budget'  OBVIOUS
<1>7. FormatSafe'  OBVIOUS
<1>8. Capped'  OBVIOUS
<1> QED  BY <1>1, <1>2, <1>3, <1>4, <1>5, <1>6, <1>7, <1>8

(***************************************************************************)
(* The counter that the context takes is the device's.                     *)
(***************************************************************************)
LEMMA VerifyStep ==
  ASSUME Inv, VerifyKeySyncCounter
  PROVE  Inv'
<1> USE DEF VerifyKeySyncCounter
<1>1. Shape'  OBVIOUS
<1>2. Phases'  OBVIOUS
<1>3. Jobs'  OBVIOUS
<1>4. Past'  OBVIOUS
<1>5. Settled'  OBVIOUS
<1>6. Budget'  OBVIOUS
<1>7. FormatSafe'  OBVIOUS
<1>8. Capped'  OBVIOUS
<1> QED  BY <1>1, <1>2, <1>3, <1>4, <1>5, <1>6, <1>7, <1>8

(***************************************************************************)
(* The key is programmed; an error in the last write of the start-up opens *)
(* the file system, with nothing stale.                                    *)
(***************************************************************************)
LEMMA WriteKeyStep ==
  ASSUME Inv, WriteKey
  PROVE  Inv'
<1> USE DEF WriteKey, ReturnError, Idle
<1>1. Shape'
  BY NoJob
<1>2. Phases'  OBVIOUS
<1>3. Jobs'  OBVIOUS
<1>4. Past'  OBVIOUS
<1>5. Settled'  OBVIOUS
<1>6. Budget'  OBVIOUS
<1>7. FormatSafe'  OBVIOUS
<1>8. Capped'  OBVIOUS
<1> QED  BY <1>1, <1>2, <1>3, <1>4, <1>5, <1>6, <1>7, <1>8

(***************************************************************************)
(* write_req() starts from the context's counter, with all its attempts.   *)
(***************************************************************************)
LEMMA InitDoneStep ==
  ASSUME Inv, InitDone
  PROVE  Inv'
<1> USE DEF InitDone
<1>1. Shape'  OBVIOUS
<1>2. Phases'  OBVIOUS
<1>3. Jobs'  OBVIOUS
<1>4. Past'  OBVIOUS
<1>5. Settled'  OBVIOUS
<1>6. Budget'  OBVIOUS
<1>7. FormatSafe'  OBVIOUS
<1>8. Capped'  OBVIOUS
<1> QED  BY <1>1, <1>2, <1>3, <1>4, <1>5, <1>6, <1>7, <1>8

(***************************************************************************)
(* An access that fails leaves what it found.                              *)
(***************************************************************************)
LEMMA AccessFailsStep ==
  ASSUME Inv, AccessFails
  PROVE  Inv'
<1> USE DEF AccessFails, ReturnError, Idle
<1>1. Shape'
  BY NoJob
<1>2. Phases'  OBVIOUS
<1>3. Jobs'  OBVIOUS
<1>4. Past'  OBVIOUS
<1>5. Settled'  OBVIOUS
<1>6. Budget'  OBVIOUS
<1>7. FormatSafe'  OBVIOUS
<1>8. Capped'  OBVIOUS
<1> QED  BY <1>1, <1>2, <1>3, <1>4, <1>5, <1>6, <1>7, <1>8

(***************************************************************************)
(* What the start-up writes next: the partition block as it was read, while *)
(* nothing has been written since, or the first entry.                     *)
(***************************************************************************)
LEMMA ReadDoneStep ==
  ASSUME Inv, ReadDone
  PROVE  Inv'
<1> USE DEF ReadDone, Access, Idle, AllBlocks, AllVals
<1>1. Shape'
  <2>1. /\ << <<0, dev.mem[0]>> >> \in Seq(AllBlocks \X AllVals)
        /\ << <<Fat, LastEntry>> >> \in Seq(AllBlocks \X AllVals)
    OBVIOUS
  <2>2. job' \in Seq(AllBlocks \X AllVals)
    BY <2>1, NoJob
  <2> QED  BY <2>2
<1>2. Phases'  OBVIOUS
<1>3. Jobs'
  <2>1. << <<Fat, LastEntry>> >> \in Seq(Blocks \X Vals)
    OBVIOUS
  <2> DEFINE d == << <<0, dev.mem[0]>> >>
             f == << <<Fat, LastEntry>> >>
  <2>2. Len(d) = 1 /\ d[1][1] = 0 /\ Len(f) = 1
    OBVIOUS
  <2> HIDE DEF d, f
  <2>3. stage' = "dummy" => stage = "read1" /\ job' = d
    BY DEF d
  <2>4. stage' = "fat" => job' = f
    BY DEF f
  <2>5. stage' = "write" => stage = "rmw" /\ job' = job
    OBVIOUS
  <2>6. stage' \in {"dummy", "none", "fat", "write"} /\ ctx' = ctx
    OBVIOUS
  <2>7. f \in Seq(Blocks \X Vals)
    BY <2>1 DEF f
  <2>8. pc = "do"
    OBVIOUS
  <2>9. /\ stage = "read1" => Synced
        /\ stage = "rmw" => job \in Seq(Blocks \X Vals) /\ Len(job) > 0
    BY <2>8
  <2> HIDE DEF ReadDone, Inv, Shape, Budget, FormatSafe, Settled, Past, Synced
  <2>10. CASE stage' = "dummy"
    BY <2>2, <2>3, <2>9, <2>10, <2>6 DEF Synced
  <2>11. CASE stage' = "fat"
    <3>1. job' \in Seq(Blocks \X Vals) /\ Len(job') = 1
      BY <2>2, <2>4, <2>7, <2>11
    <3> QED  BY <2>11, <3>1
  <2>12. CASE stage' = "write"
    BY <2>5, <2>9, <2>12
  <2> QED  BY <2>6, <2>10, <2>11, <2>12
<1>4. Past'  OBVIOUS
<1>5. Settled'  OBVIOUS
<1>6. Budget'  OBVIOUS
<1>7. FormatSafe'  OBVIOUS
<1>8. Capped'  OBVIOUS
<1> QED  BY <1>1, <1>2, <1>3, <1>4, <1>5, <1>6, <1>7, <1>8

(***************************************************************************)
(* The request may be carried out later: only the write itself can know it. *)
(***************************************************************************)
LEMMA WriteRpcFailsStep ==
  ASSUME Inv, WriteRpcFails
  PROVE  Inv'
<1> USE DEF WriteRpcFails
<1>a. ctx \in Context /\ Unsynced(ctx) \in Context
      /\ Unsynced(ctx).wr_cnt = ctx.wr_cnt
  BY UnsyncedEffect
<1>b. /\ Request \in Requests /\ Request.blk = job[1][1]
      /\ Request.val = job[1][2] /\ Request.cnt = wr_cnt
  BY RequestType
<1>c. \A q \in late' : q \in late \/ q = Request
  BY DEF Sent
<1>d. UNCHANGED job => Request' = Request
  BY DEF Request
<1>1. Shape'
  BY <1>a, <1>b, <1>c, <1>d, RetryEffect
<1>2. Phases'
  BY <1>a, <1>b, <1>c, <1>d, RetryEffect
<1>3. Jobs'
  BY <1>a, <1>b, <1>c, <1>d, RetryEffect
<1>4. Past'
  BY <1>a, <1>b, <1>c, <1>d, RetryEffect
<1>5. Settled'
  BY <1>a, <1>b, <1>c, <1>d, RetryEffect
<1>6. Budget'
  BY <1>a, <1>b, <1>c, <1>d, RetryEffect
<1>7. FormatSafe'
  BY <1>a, <1>b, <1>c, <1>d, RetryEffect
<1>8. Capped'
  BY <1>a, <1>b, <1>c, <1>d, RetryEffect
<1> QED  BY <1>1, <1>2, <1>3, <1>4, <1>5, <1>6, <1>7, <1>8

(***************************************************************************)
(* A refused attempt.                                                      *)
(***************************************************************************)
LEMMA WriteRefusedStep ==
  ASSUME Inv, WriteRefused
  PROVE  Inv'
<1> USE DEF WriteRefused
<1>a. ctx \in Context /\ Unsynced(ctx) \in Context
      /\ Unsynced(ctx).wr_cnt = ctx.wr_cnt
  BY UnsyncedEffect
<1>d. UNCHANGED job => Request' = Request
  BY DEF Request
<1>1. Shape'
  BY <1>a, <1>d, RetryEffect
<1>2. Phases'
  BY <1>a, <1>d, RetryEffect
<1>3. Jobs'
  BY <1>a, <1>d, RetryEffect
<1>4. Past'
  BY <1>a, <1>d, RetryEffect
<1>5. Settled'
  BY <1>a, <1>d, RetryEffect
<1>6. Budget'
  BY <1>a, <1>d, RetryEffect
<1>7. FormatSafe'
  BY <1>a, <1>d, RetryEffect
<1>8. Capped'
  BY <1>a, <1>d, RetryEffect
<1> QED  BY <1>1, <1>2, <1>3, <1>4, <1>5, <1>6, <1>7, <1>8

(***************************************************************************)
(* An answer that does not fit: without paired answers.                    *)
(***************************************************************************)
LEMMA WriteMismatchStep ==
  ASSUME Inv, WriteMismatch
  PROVE  Inv'
<1>0. /\ pc = "do" /\ Writing /\ ~paired /\ late' = Sent
      /\ UNCHANGED <<paired, given, dev>>
  BY DEF WriteMismatch
<1> DEFINE C(a) == IF a = wr_cnt + 1 THEN [ctx EXCEPT !.wr_cnt = @ + 1] ELSE ctx
<1>a. PICK a \in 0 .. Cap : /\ C(a).wr_cnt <= Cap /\ wr_cnt' = a
                             /\ Retry(C(a), Unsynced(C(a)))
  BY DEF WriteMismatch
<1>b. C(a) \in Context
  <2>1. ctx \in Context /\ ctx.wr_cnt + 1 \in Nat
    OBVIOUS
  <2>2. [ctx EXCEPT !.wr_cnt = @ + 1] \in Context
    BY <2>1
  <2> QED  BY <2>1, <2>2
<1> DEFINE c == C(a)
<1>c. c \in Context /\ c.wr_cnt <= MaxUnpaired /\ Retry(c, Unsynced(c))
  BY <1>0, <1>a, <1>b
<1> HIDE DEF c, C
<1>d. Unsynced(c) \in Context /\ Unsynced(c).wr_cnt = c.wr_cnt
  BY <1>c, UnsyncedEffect
<1>e. wr_cnt' \in Nat /\ wr_cnt' <= MaxUnpaired
  BY <1>0, <1>a
<1>f. /\ Request \in Requests /\ Request.cnt = wr_cnt
  BY <1>0, RequestType
<1>g. \A q \in late' : q \in late \/ q = Request
  BY <1>0 DEF Sent
<1>h. /\ retry_count' \in 0 .. MaxRetries /\ ctx' \in {c, Unsynced(c)}
      /\ job' \in Seq(AllBlocks \X AllVals)
      /\ \/ /\ rpmb_dead' /\ fs_par' \in BOOLEAN
            /\ pc' = "idle" /\ stage' = "none" /\ job' = <<>>
         \/ /\ retry_count' < MaxRetries
            /\ UNCHANGED <<rpmb_dead, fs_par, pc, stage, job>>
  BY <1>0, <1>c, <1>d, RetryEffect
<1>1. Shape'
  BY <1>0, <1>c, <1>d, <1>e, <1>f, <1>g, <1>h
<1>2. Phases'
  BY <1>0, <1>c, <1>d, <1>e, <1>f, <1>g, <1>h
<1>3. Jobs'
  BY <1>0, <1>c, <1>d, <1>e, <1>f, <1>g, <1>h
<1>4. Past'
  BY <1>0, <1>c, <1>d, <1>e, <1>f, <1>g, <1>h
<1>5. Settled'
  BY <1>0, <1>c, <1>d, <1>e, <1>f, <1>g, <1>h
<1>6. Budget'
  BY <1>0, <1>c, <1>d, <1>e, <1>f, <1>g, <1>h
<1>7. FormatSafe'
  BY <1>0, <1>c, <1>d, <1>e, <1>f, <1>g, <1>h
<1>8. Capped'
  BY <1>0, <1>c, <1>d, <1>e, <1>f, <1>g, <1>h
<1> QED  BY <1>1, <1>2, <1>3, <1>4, <1>5, <1>6, <1>7, <1>8

(***************************************************************************)
(* A request that was never sent ends the call at the first attempt only.  *)
(***************************************************************************)
LEMMA PackFailsStep ==
  ASSUME Inv, PackFails
  PROVE  Inv'
<1> USE DEF PackFails, ReturnError, Idle
<1>d. UNCHANGED job => Request' = Request
  BY DEF Request
<1>1. Shape'
  BY <1>d, RetryEffect, NoJob
<1>2. Phases'
  BY <1>d, RetryEffect, NoJob
<1>3. Jobs'
  BY <1>d, RetryEffect, NoJob
<1>4. Past'
  BY <1>d, RetryEffect, NoJob
<1>5. Settled'
  BY <1>d, RetryEffect, NoJob
<1>6. Budget'
  BY <1>d, RetryEffect, NoJob
<1>7. FormatSafe'
  BY <1>d, RetryEffect, NoJob
<1>8. Capped'
  BY <1>d, RetryEffect, NoJob
<1> QED  BY <1>1, <1>2, <1>3, <1>4, <1>5, <1>6, <1>7, <1>8

(***************************************************************************)
(* A restart forgets all but the device and the requests under way.        *)
(***************************************************************************)
LEMMA RestartStep ==
  ASSUME Inv, Restart
  PROVE  Inv'
<1> USE DEF Restart, NoContext
<1>1. Shape'
  <2>1. NoContext \in Context /\ 0 \in 0 .. MaxRetries
    OBVIOUS
  <2> HIDE DEF NoContext, Context
  <2> QED  BY <2>1, NoJob
<1>2. Phases'  OBVIOUS
<1>3. Jobs'  OBVIOUS
<1>4. Past'  OBVIOUS
<1>5. Settled'  OBVIOUS
<1>6. Budget'  OBVIOUS
<1>7. FormatSafe'  OBVIOUS
<1>8. Capped'  OBVIOUS
<1> QED  BY <1>1, <1>2, <1>3, <1>4, <1>5, <1>6, <1>7, <1>8

(***************************************************************************)
(* A stale request is carried out: all others are stale for good, and the  *)
(* write in progress has a counter of the past.                            *)
(***************************************************************************)
LEMMA LateWriteStep ==
  ASSUME Inv, LateWrite
  PROVE  Inv'
<1> USE DEF LateWrite
<1>a. PICK q \in late : q.cnt = dev.cnt /\ Exec(q)
  OBVIOUS
<1>b. /\ dev' \in Device /\ dev'.cnt = dev.cnt + 1
      /\ dev'.mem[0] = IF q.blk = 0 THEN q.val ELSE dev.mem[0]
      /\ late' \subseteq late /\ (paired => late' = {})
      /\ given' \subseteq Answers /\ (paired => given' = given)
      /\ ~paired => dev.cnt < MaxUnpaired
              /\ \A a \in given' : a.cnt <= MaxUnpaired
  BY <1>a, ExecEffect
<1>1. Shape'
  BY <1>a, <1>b
<1>2. Phases'
  BY <1>a, <1>b
<1>3. Jobs'
  BY <1>a, <1>b
<1>4. Past'
  BY <1>a, <1>b
<1>5. Settled'
  BY <1>a, <1>b
<1>6. Budget'
  BY <1>a, <1>b
<1>7. FormatSafe'
  BY <1>a, <1>b
<1>8. Capped'
  BY <1>a, <1>b
<1> QED  BY <1>1, <1>2, <1>3, <1>4, <1>5, <1>6, <1>7, <1>8

(***************************************************************************)
(* An acknowledged write, whatever acknowledged it: the context, the       *)
(* attempts and what comes next.                                           *)
(***************************************************************************)
LEMMA AcknowledgedEffect ==
  ASSUME Inv, Writing, pc = "do", Acknowledged
  PROVE  /\ ctx' \in Context /\ ctx'.wr_cnt = ctx.wr_cnt + 1
         /\ wr_cnt' = ctx.wr_cnt + 1 /\ wr_cnt' \in Nat
         /\ retry_count' = 0 /\ 0 \in 0 .. MaxRetries
         /\ UNCHANGED <<paired, rpmb_dead>>
         /\ ~paired => ctx.wr_cnt < MaxUnpaired
         /\ job' \in Seq(AllBlocks \X AllVals)
         /\ pc' \in {"idle", "init", "do"} /\ fs_par' \in BOOLEAN
         /\ Phases' /\ Jobs'
         /\ \/ /\ stage = "write" /\ Len(job) > 1 /\ Len(job') = Len(job) - 1
               /\ job' = Tail(job) /\ UNCHANGED <<pc, stage, fs_par>>
            \/ stage = "write" /\ pc' = "idle" /\ stage' = "none" /\ fs_par' = fs_par
            \/ stage = "dummy" /\ pc' = "init" /\ stage' = "read2" /\ fs_par' = fs_par
            \/ stage = "fat" /\ pc' = "init" /\ stage' = "part" /\ fs_par' = fs_par
            \/ stage = "part" /\ pc' = "idle" /\ stage' = "none"
<1> USE DEF Acknowledged, Access, Idle, AllBlocks, AllVals
<1>c. ctx' \in Context /\ ctx'.wr_cnt = ctx.wr_cnt + 1
  BY CountedContext
<1>d. \/ /\ stage = "write" /\ Len(job) > 1
         /\ job' = Tail(job) /\ UNCHANGED <<pc, stage, fs_par>>
      \/ stage = "write" /\ Idle /\ fs_par' = fs_par
      \/ stage = "dummy" /\ Access("read2", <<>>) /\ fs_par' = fs_par
      \/ /\ stage = "fat" /\ Access("part", << <<0, "part">> >>)
         /\ fs_par' = fs_par
      \/ stage = "part" /\ Idle /\ fs_par' \in BOOLEAN
  BY DEF BlockDone
<1>f. /\ job \in Seq(AllBlocks \X AllVals)
      /\ stage = "write" => job \in Seq(Blocks \X Vals)
  OBVIOUS
<1>g. /\ retry_count' = 0 /\ wr_cnt' = ctx.wr_cnt + 1
      /\ UNCHANGED <<paired, rpmb_dead>>
      /\ ~paired => ctx.wr_cnt < MaxUnpaired
  OBVIOUS
<1>e. /\ Len(job) > 1 => /\ Tail(job) \in Seq(AllBlocks \X AllVals)
                          /\ Len(Tail(job)) = Len(job) - 1
      /\ Len(job) > 1 /\ job \in Seq(Blocks \X Vals) =>
           Tail(job) \in Seq(Blocks \X Vals)
  OBVIOUS
<1> DEFINE p == << <<0, "part">> >>
<1>h. p \in Seq(AllBlocks \X AllVals) /\ Len(p) = 1
      /\ p[1][1] = 0 /\ p[1][2] = "part"
  OBVIOUS
<1>i. ctx.wr_cnt \in Nat /\ wr_cnt' \in Nat /\ 0 \in 0 .. MaxRetries
  BY <1>g
<1> HIDE DEF p, Acknowledged, AllBlocks, AllVals, Device, Context
<1>1. /\ job' \in Seq(AllBlocks \X AllVals)
      /\ pc' \in {"idle", "init", "do"} /\ fs_par' \in BOOLEAN
  BY <1>d, <1>e, <1>f, <1>h, NoJob DEF p
<1>2. Phases'
  BY <1>c, <1>d, <1>e, <1>f, <1>g, <1>h, NoJob DEF p
<1>3. Jobs'
  <2>1. CASE stage = "write" /\ stage' = "write"
    <3>1. Len(job) > 1 /\ job' = Tail(job) /\ UNCHANGED <<pc, stage>>
      BY <1>d, <2>1
    <3>2. job' \in Seq(Blocks \X Vals) /\ Len(job') > 0
      BY <1>e, <1>f, <3>1, <2>1
    <3> QED  BY <2>1, <3>2
  <2>2. CASE stage' = "part"
    BY <1>d, <1>h, <2>2 DEF p
  <2>3. \/ stage' \in {"none", "read2"} \/ stage' = "part"
        \/ (stage = "write" /\ stage' = "write")
    BY <1>d
  <2> QED  BY <2>1, <2>2, <2>3
<1>4. \/ /\ stage = "write" /\ Len(job) > 1 /\ Len(job') = Len(job) - 1
         /\ job' = Tail(job) /\ UNCHANGED <<pc, stage, fs_par>>
      \/ stage = "write" /\ pc' = "idle" /\ stage' = "none" /\ fs_par' = fs_par
      \/ stage = "dummy" /\ pc' = "init" /\ stage' = "read2" /\ fs_par' = fs_par
      \/ stage = "fat" /\ pc' = "init" /\ stage' = "part" /\ fs_par' = fs_par
      \/ stage = "part" /\ pc' = "idle" /\ stage' = "none"
  BY <1>d, <1>e, <1>f
<1> QED  BY <1>c, <1>g, <1>i, <1>1, <1>2, <1>3, <1>4

(***************************************************************************)
(* A request for the block is carried out: every request that was under    *)
(* way is refused from now on.  Only the first write of the start-up can   *)
(* be overtaken by one that is not its own.                                *)
(***************************************************************************)
LEMMA WriteDoneStep ==
  ASSUME Inv, WriteDone
  PROVE  Inv'
<1>0. pc = "do" /\ Writing /\ dev.cnt = wr_cnt /\ Acknowledged
  BY DEF WriteDone
<1>a. PICK q \in late \cup {Request} :
        q.blk = Request.blk /\ q.cnt = wr_cnt /\ Exec(q)
  BY DEF WriteDone
<1>b. /\ Request \in Requests /\ Request.blk = job[1][1]
      /\ Request.val = job[1][2] /\ Request.cnt = wr_cnt
  BY <1>0, RequestType
<1>c. q \in Requests
  BY <1>b
<1>d. paired /\ stage # "dummy" => q = Request
  BY <1>0
<1>e. /\ dev' \in Device /\ dev'.cnt = dev.cnt + 1
      /\ dev'.mem[0] = IF q.blk = 0 THEN q.val ELSE dev.mem[0]
      /\ late' \subseteq late /\ (paired => late' = {})
      /\ given' \subseteq Answers /\ (paired => given' = given)
      /\ ~paired => dev.cnt < MaxUnpaired
              /\ \A a \in given' : a.cnt <= MaxUnpaired
  BY <1>a, <1>c, ExecEffect
<1> DEFINE Ack ==
         /\ ctx' \in Context /\ ctx'.wr_cnt = ctx.wr_cnt + 1
         /\ wr_cnt' = ctx.wr_cnt + 1 /\ wr_cnt' \in Nat
         /\ retry_count' = 0 /\ 0 \in 0 .. MaxRetries
         /\ UNCHANGED <<paired, rpmb_dead>>
         /\ ~paired => ctx.wr_cnt < MaxUnpaired
         /\ job' \in Seq(AllBlocks \X AllVals)
         /\ pc' \in {"idle", "init", "do"} /\ fs_par' \in BOOLEAN
         /\ Phases' /\ Jobs'
         /\ \/ /\ stage = "write" /\ Len(job) > 1 /\ Len(job') = Len(job) - 1
               /\ job' = Tail(job) /\ UNCHANGED <<pc, stage, fs_par>>
            \/ stage = "write" /\ pc' = "idle" /\ stage' = "none" /\ fs_par' = fs_par
            \/ stage = "dummy" /\ pc' = "init" /\ stage' = "read2" /\ fs_par' = fs_par
            \/ stage = "fat" /\ pc' = "init" /\ stage' = "part" /\ fs_par' = fs_par
            \/ stage = "part" /\ pc' = "idle" /\ stage' = "none"
<1>f. Ack
  BY <1>0, AcknowledgedEffect
<1>g. q.blk = job[1][1] /\ (stage \in {"dummy", "part"} => q.blk = 0)
      /\ (stage \in {"fat", "write"} => q.blk # 0)
  <2>1. stage \in {"fat", "write"} => job[1] \in Blocks \X Vals
    OBVIOUS
  <2> QED  BY <1>a, <1>b, <2>1
<1>h. paired /\ stage = "part" => q.val = "part"
  BY <1>b, <1>d
<1>i. q.cnt = dev.cnt /\ (paired /\ stage = "dummy" /\ Formatted => q.val = "part")
  BY <1>a, <1>0, <1>b, <1>g
<1>1. Shape'
  BY <1>0, <1>e, <1>f, <1>g, <1>h, <1>i
<1>2. Phases'
  BY <1>0, <1>e, <1>f, <1>g, <1>h, <1>i
<1>3. Jobs'
  BY <1>0, <1>e, <1>f, <1>g, <1>h, <1>i
<1>4. Past'
  BY <1>0, <1>e, <1>f, <1>g, <1>h, <1>i
<1>5. Settled'
  BY <1>0, <1>e, <1>f, <1>g, <1>h, <1>i
<1>6. Budget'
  BY <1>0, <1>e, <1>f, <1>g, <1>h, <1>i
<1>7. FormatSafe'
  BY <1>0, <1>e, <1>f, <1>g, <1>h, <1>i
<1>8. Capped'
  BY <1>0, <1>e, <1>f, <1>g, <1>h, <1>i
<1> QED  BY <1>1, <1>2, <1>3, <1>4, <1>5, <1>6, <1>7, <1>8

(***************************************************************************)
(* An answer of the past acknowledges the write: without paired answers.   *)
(***************************************************************************)
LEMMA WriteAnsweredBeforeStep ==
  ASSUME Inv, WriteAnsweredBefore
  PROVE  Inv'
<1>0. /\ pc = "do" /\ Writing /\ ~paired /\ late' = Sent /\ Acknowledged
      /\ UNCHANGED <<given, dev>>
  BY DEF WriteAnsweredBefore
<1>a. /\ Request \in Requests /\ Request.cnt = wr_cnt
  BY <1>0, RequestType
<1>b. \A q \in late' : q \in late \/ q = Request
  BY <1>0 DEF Sent
<1>c. /\ ctx' \in Context /\ ctx'.wr_cnt = ctx.wr_cnt + 1
      /\ wr_cnt' = ctx.wr_cnt + 1 /\ wr_cnt' \in Nat
      /\ retry_count' = 0 /\ 0 \in 0 .. MaxRetries
      /\ UNCHANGED <<paired, rpmb_dead>>
      /\ ctx.wr_cnt < MaxUnpaired
      /\ job' \in Seq(AllBlocks \X AllVals)
      /\ pc' \in {"idle", "init", "do"} /\ fs_par' \in BOOLEAN
      /\ stage' \in {"none", "read2", "part", "write"}
      /\ Phases' /\ Jobs'
  BY <1>0, AcknowledgedEffect
<1>1. Shape'
  BY <1>0, <1>a, <1>b, <1>c
<1>2. Phases'
  BY <1>0, <1>a, <1>b, <1>c
<1>3. Jobs'
  BY <1>0, <1>a, <1>b, <1>c
<1>4. Past'
  BY <1>0, <1>a, <1>b, <1>c
<1>5. Settled'
  BY <1>0, <1>a, <1>b, <1>c
<1>6. Budget'
  BY <1>0, <1>a, <1>b, <1>c
<1>7. FormatSafe'
  BY <1>0, <1>a, <1>b, <1>c
<1>8. Capped'
  BY <1>0, <1>a, <1>b, <1>c
<1> QED  BY <1>1, <1>2, <1>3, <1>4, <1>5, <1>6, <1>7, <1>8

HIDE RpmbAssumption
DEF Inv, Shape, Device, Requests, Context, Phases, SetupStages, Jobs,
    Synced, Past, Settled, Retrying, Writing, Budget, Live, Formatted,
    FormatSafe, Capped, Cap, Answers

-----------------------------------------------------------------------------
(***************************************************************************)
(* A new device, and then every step: the invariant.                       *)
(***************************************************************************)
LEMMA InitInv == Init => Inv
<1> SUFFICES ASSUME Init PROVE Inv
  OBVIOUS
<1>1. /\ dev.cnt = 0 /\ dev.keyed \in BOOLEAN
      /\ dev \in Device
  BY DEF Init, Device, AllVals
<1>2. NoContext \in Context /\ NoContext.wr_cnt = 0 /\ 0 \in 0 .. MaxRetries
  BY RpmbAssumption DEF NoContext, Context
<1>3. Shape
  BY <1>1, <1>2, NoJob, RpmbAssumption DEF Init, Shape
<1> QED
  BY <1>1, <1>2, <1>3, RpmbAssumption
  DEF Init, Inv, Phases, SetupStages, Jobs, Past, Settled, Budget, FormatSafe,
      Capped

LEMMA NextInv ==
  ASSUME Inv, [Next]_vars
  PROVE  Inv'
<1>1. CASE UNCHANGED vars
  BY <1>1 DEF vars, Inv, Shape, Phases, Jobs, Synced, Past, Settled, Retrying,
              Writing, Budget, Live, Formatted, FormatSafe, Capped, Request
<1> QED
  BY <1>1, CallSetupStep, CallWriteStep, CallReadStep, InitInfoStep,
     VerifyStep,
     WriteKeyStep, InitDoneStep, AccessFailsStep, ReadDoneStep, WriteDoneStep,
     WriteAnsweredBeforeStep, WriteRpcFailsStep, WriteRefusedStep,
     WriteMismatchStep, PackFailsStep, LateWriteStep, RestartStep
  DEF Next, Call, Step

LEMMA Invariant == Spec => []Inv
<1>1. Init => Inv
  BY InitInv
<1>2. Inv /\ [Next]_vars => Inv'
  BY NextInv
<1> QED  BY <1>1, <1>2, PTL DEF Spec

-----------------------------------------------------------------------------
(***************************************************************************)
(* The counters of the device, of the context and of the requests stay in  *)
(* their range, and so do the attempts of write_req(): it gives up after   *)
(* RPMB_MAX_RETRIES.                                                       *)
(***************************************************************************)
THEOREM TypeCorrect == Spec => []TypeOK
<1>1. ASSUME Inv PROVE TypeOK
  <2>1. dev \in [keyed : BOOLEAN, cnt : 0 .. MaxCnt,
                 mem : [AllBlocks -> AllVals]]
    <3>1. dev \in Device /\ dev.cnt \in 0 .. MaxCnt
      BY <1>1, RpmbAssumption DEF Inv, Shape, Device, Budget, Capped
    <3> QED  BY <3>1 DEF Device
  <2>2. late \subseteq [blk : AllBlocks, val : AllVals, cnt : 0 .. MaxCnt]
    <3> SUFFICES ASSUME NEW q \in late
                 PROVE  q \in [blk : AllBlocks, val : AllVals,
                               cnt : 0 .. MaxCnt]
      OBVIOUS
    <3>1. q \in Requests /\ q.cnt \in 0 .. MaxCnt
      BY <1>1, RpmbAssumption
      DEF Inv, Shape, Requests, Device, Past, Budget, Capped
    <3> QED  BY <3>1 DEF Requests
  <2>3. ctx \in [info : BOOLEAN, key_verified : BOOLEAN,
                 wr_cnt_synced : BOOLEAN, wr_cnt : 0 .. MaxCnt]
    <3>1. ctx \in Context /\ ctx.wr_cnt \in 0 .. MaxCnt
      BY <1>1, RpmbAssumption
      DEF Inv, Shape, Context, Device, Past, Budget, Capped
    <3> QED  BY <3>1 DEF Context
  <2>4. wr_cnt \in 0 .. MaxCnt
    BY <1>1, RpmbAssumption DEF Inv, Shape, Device, Past, Budget, Capped
  <2>5. given \subseteq [blk : AllBlocks, cnt : 0 .. MaxCnt]
    <3> SUFFICES ASSUME NEW a \in given
                 PROVE  a \in [blk : AllBlocks, cnt : 0 .. MaxCnt]
      OBVIOUS
    <3>1. a \in Answers /\ a.cnt \in 0 .. MaxCnt
      <4>1. a \in Answers /\ a.cnt \in Nat
        BY <1>1 DEF Inv, Shape, Answers
      <4>2. ~paired => a.cnt <= MaxUnpaired
        BY <1>1 DEF Inv, Capped
      <4>3. ~paired
        BY <1>1 DEF Inv, Shape
      <4> QED  BY <4>1, <4>2, <4>3, RpmbAssumption
    <3> QED  BY <3>1 DEF Answers
  <2> QED  BY <1>1, <2>1, <2>2, <2>3, <2>4, <2>5 DEF TypeOK, Inv, Shape
<1> QED  BY <1>1, Invariant, PTL

(***************************************************************************)
(* Where every answer to a write is the one to the request just sent:      *)
(* between the calls of a file system that has been set up, no request of  *)
(* this boot or of an earlier one can still be carried out.                *)
(***************************************************************************)
THEOREM NothingStale == Spec => []StaleRefused
<1>1. ASSUME Inv PROVE StaleRefused
  BY <1>1 DEF Inv, Settled, Retrying, StaleRefused, NoneStale
<1> QED  BY <1>1, Invariant, PTL

-----------------------------------------------------------------------------
(***************************************************************************)
(* The refinement.                                                         *)
(***************************************************************************)
Mem == IF paired THEN dev.mem ELSE [b \in AllBlocks |-> "blank"]

Doubt == IF paired THEN {<<q.blk, q.val>> : q \in Doubtful} ELSE {}

Op == IF paired /\ pc = "do" /\ Writing THEN job[1] ELSE None

Open == paired /\ fs_par /\ ~rpmb_dead

(***************************************************************************)
(* The write in progress is one of a block, and so is not None.            *)
(***************************************************************************)
LEMMA OpType ==
  ASSUME Inv
  PROVE  /\ paired /\ pc = "do" /\ Writing =>
              Op = job[1] /\ Op # None /\ Op \in AllBlocks \X AllVals
         /\ ~(paired /\ pc = "do" /\ Writing) => Op = None
<1>1. CASE paired /\ pc = "do" /\ Writing
  <2>1. job[1] \in AllBlocks \X AllVals
    BY <1>1, RequestType
  <2>2. job[1] # None
    BY <2>1, RpmbAssumption DEF AllBlocks, AllVals
  <2> QED  BY <1>1, <2>1, <2>2 DEF Op
<1> QED  BY <1>1 DEF Op

LEMMA OpTypeNext == Inv' => (Op \in (AllBlocks \X AllVals) \cup {None})'
<1>1. Inv => (Op \in (AllBlocks \X AllVals) \cup {None})
  BY OpType
<1> QED  BY <1>1, PTL

(***************************************************************************)
(* What is in doubt depends on the requests under way and the counter.     *)
(***************************************************************************)
LEMMA NoDoubt == ASSUME late = {} PROVE Doubt = {}
  BY DEF Doubt, Doubtful

LEMMA SameDoubt ==
  ASSUME UNCHANGED <<paired, late>>, dev'.cnt = dev.cnt
  PROVE  Doubt' = Doubt
  BY DEF Doubt, Doubtful

(***************************************************************************)
(* The steps of the store, in terms of the mapped variables.               *)
(***************************************************************************)
LEMMA StoreStutter ==
  ASSUME Mem' = Mem, Doubt' = Doubt, Op' = Op, Open' = Open
  PROVE  UNCHANGED Store!vars
  BY DEF Store!vars, Mem, Doubt, Op, Open

LEMMA StoreStart ==
  ASSUME Op = None, Op' \in AllBlocks \X AllVals,
         Mem' = Mem, Doubt' = Doubt, Open' = Open
  PROVE  Store!Next
  BY DEF Store!Next, Store!Start, Store!Writes, Mem, Doubt, Op, Open

LEMMA StoreComplete ==
  ASSUME Op # None,
         \/ Mem' = [Mem EXCEPT ![Op[1]] = Op[2]]
         \/ ~Open /\ \E w \in Doubt : /\ w[1] = Op[1]
                                      /\ Mem' = [Mem EXCEPT ![w[1]] = w[2]],
         Doubt' = {},
         Op' \in (AllBlocks \X AllVals) \cup {None}, Open' \in {Open, TRUE}
  PROVE  Store!Next
  BY DEF Store!Next, Store!Complete, Store!Put, Store!Writes, Mem, Doubt, Op, Open

LEMMA StoreHesitate ==
  ASSUME Op # None, Doubt' = Doubt \cup {Op},
         Mem' = Mem, Op' = Op, Open' = Open
  PROVE  Store!Next
  BY DEF Store!Next, Store!Hesitate, Mem, Doubt, Op, Open

LEMMA StoreLateEffect ==
  ASSUME NEW w \in Doubt, Mem' = [Mem EXCEPT ![w[1]] = w[2]],
         Doubt' = {}, Op' = Op, Open' = Open
  PROVE  Store!Next
  BY DEF Store!Next, Store!LateEffect, Store!Put, Mem, Doubt, Op, Open

LEMMA StoreRefuse ==
  ASSUME Op # None, Open => Doubt = {}, Op' = None,
         Mem' = Mem, Doubt' = Doubt, Open' = Open
  PROVE  Store!Next
  BY DEF Store!Next, Store!Refuse, Mem, Doubt, Op, Open

LEMMA StoreLose ==
  ASSUME \/ Doubt' = Doubt
         \/ Op # None /\ Doubt' = Doubt \cup {Op},
         Op' = None, Open' = FALSE, Mem' = Mem
  PROVE  Store!Next
  BY DEF Store!Next, Store!Lose, Mem, Doubt, Op, Open

LEMMA StoreRecover ==
  ASSUME ~Open, Doubt = {}, Op' = None, Open' = TRUE,
         Mem' = Mem, Doubt' = Doubt
  PROVE  Store!Next
  BY DEF Store!Next, Store!Recover, Mem, Doubt, Op, Open

(***************************************************************************)
(* Steps that leave the device and what is in doubt alone, and begin and   *)
(* end without a request: they may set fs_par, with nothing in doubt.      *)
(***************************************************************************)
LEMMA QuietStep ==
  ASSUME Inv, Inv', paired, UNCHANGED <<paired, late, rpmb_dead>>,
         dev'.cnt = dev.cnt, dev'.mem = dev.mem, ~(pc = "do" /\ Writing),
         ~(pc' = "do" /\ Writing'), fs_par => fs_par',
         fs_par' => late = {} \/ fs_par
  PROVE  [Store!Next]_Store!vars
<1>1. Op = None /\ Op' = None /\ Doubt' = Doubt /\ Mem' = Mem
  BY OpType, SameDoubt DEF Op, Mem
<1>2. CASE Open' = Open
  BY <1>1, <1>2, StoreStutter
<1>3. CASE Open' # Open
  <2>1. ~Open /\ Open' = TRUE /\ late = {}
    BY <1>3 DEF Open, Inv, Shape
  <2> QED  BY <1>1, <2>1, NoDoubt, StoreRecover
<1> QED  BY <1>2, <1>3

(***************************************************************************)
(* The steps, action by action, with paired answers.                       *)
(***************************************************************************)
LEMMA StoreCall ==
  ASSUME Inv, Inv', paired, Call
  PROVE  [Store!Next]_Store!vars
<1>1. /\ UNCHANGED <<paired, dev, late, rpmb_dead, fs_par>>
      /\ pc = "idle" /\ pc' = "init"
  BY DEF Call, CallSetup, CallWrite, CallRead, Access
<1> QED  BY <1>1, QuietStep

LEMMA StoreInit ==
  ASSUME Inv, Inv', paired, InitInfo \/ VerifyKeySyncCounter \/ WriteKey
  PROVE  [Store!Next]_Store!vars
<1>1. /\ UNCHANGED <<paired, late, rpmb_dead>> /\ dev'.cnt = dev.cnt
      /\ dev'.mem = dev.mem /\ pc = "init" /\ pc' \in {"init", "idle"}
      /\ fs_par' = fs_par \/ fs_par' = (fs_par \/ stage = "part")
  BY DEF InitInfo, VerifyKeySyncCounter, WriteKey, ReturnError, Idle, Inv,
         Shape, Device
<1>2. fs_par \in BOOLEAN /\ (stage = "part" => late = {})
  BY <1>1 DEF Inv, Shape, Settled, Phases, Retrying
<1> QED  BY <1>1, <1>2, QuietStep

LEMMA StoreAccessFails ==
  ASSUME Inv, Inv', paired, AccessFails
  PROVE  [Store!Next]_Store!vars
<1>1. /\ UNCHANGED <<paired, dev, late, rpmb_dead>> /\ ~(pc = "do" /\ Writing)
      /\ pc' = "idle" /\ pc # "idle"
      /\ fs_par' = fs_par \/ fs_par' = (fs_par \/ stage = "part")
  BY DEF AccessFails, ReturnError, Idle
<1>2. fs_par \in BOOLEAN /\ (stage = "part" => late = {})
  BY <1>1 DEF Inv, Shape, Settled, Phases, Retrying
<1> QED  BY <1>1, <1>2, QuietStep

LEMMA StoreReadDone ==
  ASSUME Inv, Inv', paired, ReadDone
  PROVE  [Store!Next]_Store!vars
<1>1. /\ UNCHANGED <<paired, dev, late, rpmb_dead>> /\ ~Writing /\ pc = "do"
      /\ pc' \in {"idle", "init"}
      /\ fs_par' = fs_par \/ (stage = "read2" /\ fs_par' \in BOOLEAN)
  BY DEF ReadDone, Access, Idle
<1>2. stage = "read2" => late = {} /\ ~fs_par
  BY <1>1 DEF Inv, Settled, Phases, SetupStages, Retrying, Writing
<1> QED  BY <1>1, <1>2, QuietStep

LEMMA StoreInitDone ==
  ASSUME Inv, Inv', paired, InitDone
  PROVE  [Store!Next]_Store!vars
<1>1. /\ UNCHANGED <<paired, dev, late, rpmb_dead, fs_par>>
      /\ pc = "init" /\ pc' = "do" /\ Writing' = Writing
  BY DEF InitDone, Writing
<1>2. Doubt' = Doubt /\ Open' = Open /\ Op = None /\ Mem' = Mem
  BY <1>1, SameDoubt DEF Open, Op, Mem
<1>3. CASE Writing
  <2>1. Op' \in AllBlocks \X AllVals
    <3>1. Op' = job'[1] /\ job' = job
      BY <1>1, <1>3 DEF Op, InitDone
    <3> QED  BY <1>3, <3>1, RequestType
  <2> QED  BY <1>2, <2>1, StoreStart
<1>4. CASE ~Writing
  BY <1>1, <1>4, QuietStep
<1> QED  BY <1>3, <1>4

LEMMA StoreLateWrite ==
  ASSUME Inv, Inv', paired, LateWrite
  PROVE  [Store!Next]_Store!vars
<1>1. PICK q \in late : q.cnt = dev.cnt /\ Exec(q)
  BY DEF LateWrite
<1>2. q \in Requests
  BY DEF Inv, Shape
<1>3. dev'.mem = [dev.mem EXCEPT ![q.blk] = q.val] /\ late' = {}
  BY <1>1, <1>2, ExecEffect DEF Inv
<1>4. <<q.blk, q.val>> \in Doubt
  BY <1>1 DEF Doubt, Doubtful
<1>5. Op' = Op /\ Open' = Open /\ paired'
  BY DEF LateWrite, Op, Open, Writing
<1>6. Doubt' = {} /\ Mem' = [Mem EXCEPT ![q.blk] = q.val]
  BY <1>3, <1>5 DEF Doubt, Doubtful, Mem
<1> QED  BY <1>4, <1>5, <1>6, StoreLateEffect

(***************************************************************************)
(* Once the store is open only the own request can be carried out.         *)
(***************************************************************************)
LEMMA StoreWriteDone ==
  ASSUME Inv, Inv', paired, WriteDone
  PROVE  [Store!Next]_Store!vars
<1>1. /\ pc = "do" /\ Writing /\ dev.cnt = wr_cnt
      /\ UNCHANGED <<paired, rpmb_dead>>
      /\ fs_par' = fs_par \/ (stage = "part" /\ fs_par' \in BOOLEAN)
  BY DEF WriteDone, Acknowledged, BlockDone
<1>2. PICK q \in late \cup {Request} :
        q.blk = Request.blk /\ q.cnt = wr_cnt /\ Exec(q)
  BY DEF WriteDone
<1>3. /\ Request \in Requests /\ Request.blk = job[1][1]
      /\ Request.val = job[1][2] /\ job[1] = <<job[1][1], job[1][2]>>
  BY <1>1, RequestType
<1>4. q \in Requests
  BY <1>3 DEF Inv, Shape
<1>5. dev'.mem = [dev.mem EXCEPT ![q.blk] = q.val] /\ late' = {}
  BY <1>2, <1>4, ExecEffect DEF Inv
<1>6. /\ Op = job[1] /\ Op # None /\ q.blk = Op[1]
      /\ q = Request => q.val = Op[2]
  BY <1>1, <1>2, <1>3, OpType
<1>7. Op' \in (AllBlocks \X AllVals) \cup {None}
  BY OpTypeNext
<1>8. Open' \in {Open, TRUE}
  <2>1. ~rpmb_dead /\ fs_par \in BOOLEAN /\ (stage = "part" => ~fs_par)
    BY <1>1 DEF Inv, Shape, Phases, SetupStages
  <2> QED  BY <1>1, <2>1 DEF Open
<1>9. Doubt' = {} /\ Mem' = [Mem EXCEPT ![Op[1]] = q.val]
  BY <1>1, <1>5, <1>6 DEF Doubt, Doubtful, Mem
<1>10. CASE q = Request
  BY <1>6, <1>7, <1>8, <1>9, <1>10, StoreComplete
<1>11. CASE q # Request
  <2>1. q \in late /\ ~Open
    BY <1>2, <1>11 DEF Inv, Settled, Open
  <2>2. <<q.blk, q.val>> \in Doubt
    BY <1>1, <1>2, <2>1 DEF Doubt, Doubtful
  <2> DEFINE w == <<q.blk, q.val>>
  <2>3. w \in Doubt /\ w[1] = Op[1] /\ Mem' = [Mem EXCEPT ![w[1]] = w[2]]
    BY <1>6, <1>9, <2>2
  <2> HIDE DEF w
  <2> QED  BY <1>6, <1>7, <1>8, <1>9, <2>1, <2>3, StoreComplete
<1> QED  BY <1>10, <1>11

(***************************************************************************)
(* A failed attempt: the request may be one more in doubt.                 *)
(***************************************************************************)
LEMMA StoreRetry ==
  ASSUME Inv, Inv', paired, pc = "do", Writing,
         NEW c \in Context, NEW d \in Context, Retry(c, d),
         UNCHANGED <<paired, dev>>, Doubt' = Doubt \/ Doubt' = Doubt \cup {Op}
  PROVE  [Store!Next]_Store!vars
<1>1. Op = job[1] /\ Op # None /\ Mem' = Mem
  BY OpType DEF Mem
<1>2. CASE rpmb_dead' /\ pc' = "idle"
  <2>1. Op' = None /\ Open' = FALSE
    BY <1>2 DEF Op, Open
  <2> QED  BY <1>1, <2>1, StoreLose
<1>3. CASE UNCHANGED <<rpmb_dead, fs_par, pc, stage, job>>
  <2>1. Op' = Op /\ Open' = Open
    BY <1>3 DEF Op, Open, Writing
  <2> QED  BY <1>1, <2>1, StoreStutter, StoreHesitate
<1> QED  BY <1>2, <1>3, RetryEffect

LEMMA StoreWriteRpcFails ==
  ASSUME Inv, Inv', paired, WriteRpcFails
  PROVE  [Store!Next]_Store!vars
<1>1. /\ pc = "do" /\ Writing /\ late' = Sent
      /\ Retry(ctx, Unsynced(ctx)) /\ UNCHANGED <<paired, dev>>
  BY DEF WriteRpcFails
<1>2. /\ Request.blk = job[1][1] /\ Request.val = job[1][2]
      /\ job[1] = <<job[1][1], job[1][2]>>
  BY <1>1, RequestType
<1>3. Op = <<Request.blk, Request.val>>
  BY <1>1, <1>2, OpType
<1>4. Doubt' = Doubt \/ Doubt' = Doubt \cup {Op}
  <2>0. dev.cnt \in Nat
    BY DEF Inv, Shape, Device
  <2>1. CASE Request.cnt = dev.cnt
    <3>1. Doubtful' = Doubtful \cup {Request}
      BY <1>1, <2>0, <2>1 DEF Doubtful, Sent
    <3> HIDE DEF Request, Op
    <3> QED  BY <1>1, <1>3, <3>1 DEF Doubt
  <2>2. CASE Request.cnt # dev.cnt
    <3>1. Doubtful' = Doubtful
      BY <1>1, <2>2 DEF Doubtful, Sent
    <3> QED  BY <1>1, <3>1 DEF Doubt
  <2> QED  BY <2>1, <2>2
<1>5. ctx \in Context /\ Unsynced(ctx) \in Context
  BY UnsyncedEffect DEF Inv, Shape
<1> QED  BY <1>1, <1>4, <1>5, StoreRetry

LEMMA StoreWriteRefused ==
  ASSUME Inv, Inv', paired, WriteRefused
  PROVE  [Store!Next]_Store!vars
<1>1. /\ pc = "do" /\ Writing /\ Retry(ctx, Unsynced(ctx))
      /\ UNCHANGED <<paired, dev, late>>
  BY DEF WriteRefused
<1>2. Doubt' = Doubt
  BY <1>1, SameDoubt
<1>3. ctx \in Context /\ Unsynced(ctx) \in Context
  BY UnsyncedEffect DEF Inv, Shape
<1> QED  BY <1>1, <1>2, <1>3, StoreRetry

LEMMA StorePackFails ==
  ASSUME Inv, Inv', paired, PackFails
  PROVE  [Store!Next]_Store!vars
<1>1. pc = "do" /\ Writing /\ UNCHANGED <<paired, dev, late>>
  BY DEF PackFails
<1>2. Doubt' = Doubt /\ Op # None /\ Mem' = Mem
  BY <1>1, SameDoubt, OpType DEF Mem
<1>3. CASE retry_count = 0
  <2>1. /\ pc' = "idle" /\ UNCHANGED rpmb_dead
        /\ fs_par' = fs_par \/ fs_par' = (fs_par \/ stage = "part")
    BY <1>3 DEF PackFails, ReturnError, Idle
  <2>2. /\ fs_par \in BOOLEAN /\ ~rpmb_dead
        /\ fs_par \/ stage = "part" => late = {}
    BY <1>1, <1>3 DEF Inv, Shape, Phases, Settled, Retrying
  <2>3. Op' = None
    BY <2>1 DEF Op
  <2>4. CASE Open' = Open
    BY <1>2, <2>2, <2>3, <2>4, NoDoubt, StoreRefuse DEF Open
  <2>5. CASE Open' # Open
    <3>1. ~Open /\ Open' = TRUE /\ late = {}
      BY <1>1, <2>1, <2>2, <2>5 DEF Open
    <3> QED  BY <1>2, <2>3, <3>1, NoDoubt, StoreRecover
  <2> QED  BY <2>4, <2>5
<1>4. CASE retry_count # 0
  <2>1. Retry(ctx, ctx) /\ ctx \in Context
    BY <1>4 DEF PackFails, Inv, Shape
  <2> QED  BY <1>1, <1>2, <2>1, StoreRetry
<1> QED  BY <1>3, <1>4

LEMMA StoreRestart ==
  ASSUME Inv, Inv', paired, Restart
  PROVE  [Store!Next]_Store!vars
<1>1. UNCHANGED <<paired, dev, late>> /\ pc' = "idle" /\ fs_par' = FALSE
  BY DEF Restart
<1>2. Doubt' = Doubt /\ Op' = None /\ Open' = FALSE /\ Mem' = Mem
  BY <1>1, SameDoubt DEF Op, Open, Mem
<1> QED  BY <1>2, StoreLose

(***************************************************************************)
(* How answers come does not change; without paired answers nothing is     *)
(* said.                                                                   *)
(***************************************************************************)
LEMMA PairedStays == ASSUME [Next]_vars PROVE paired' = paired
  BY DEF vars, Next, Call, Step, CallSetup, CallWrite, CallRead, InitInfo,
         VerifyKeySyncCounter, WriteKey, InitDone, AccessFails, ReadDone,
         WriteDone, WriteAnsweredBefore, Acknowledged, WriteRpcFails,
         WriteRefused, WriteMismatch, PackFails, LateWrite, Restart

(***************************************************************************)
(* Where every answer to a write is the one to the request just sent, each *)
(* step of the lower interface is a step of the store of blocks: an        *)
(* acknowledged write is durable and cannot be overtaken, a write that has *)
(* failed in a file system that goes on never happens, and one in doubt is *)
(* settled before the file system is used again.                           *)
(***************************************************************************)
THEOREM BlockStoreImplemented == Spec => ImplementsBlockStore
<1>1. Init => Store!Init
  BY DEF Init, Store!Init, Doubtful, AllVals
<1>2. ASSUME Inv, Inv', [Next]_vars
      PROVE  [Store!Next]_Store!vars
  <2>1. CASE UNCHANGED vars
    BY <2>1 DEF vars, Store!vars, Doubtful, Writing
  <2>2. CASE ~paired
    <3>1. ~paired'
      BY <1>2, <2>2, PairedStays
    <3>2. Mem' = Mem /\ Doubt' = Doubt /\ Op' = Op /\ Open' = Open
      BY <2>2, <3>1 DEF Mem, Doubt, Op, Open
    <3> QED  BY <3>2, StoreStutter
  <2>3. CASE paired /\ Next
    <3>1. ~WriteAnsweredBefore /\ ~WriteMismatch
      BY <2>3 DEF WriteAnsweredBefore, WriteMismatch
    <3> QED
      BY <1>2, <2>3, <3>1, StoreCall, StoreInit, StoreInitDone,
         StoreAccessFails, StoreReadDone, StoreWriteDone, StoreWriteRpcFails,
         StoreWriteRefused, StorePackFails, StoreLateWrite, StoreRestart
      DEF Next, Step
  <2> QED  BY <1>2, <2>1, <2>2, <2>3
<1> QED
  BY <1>1, <1>2, Invariant, PTL DEF Spec, ImplementsBlockStore, Store!Spec
=============================================================================
