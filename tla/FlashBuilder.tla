----------------------------- MODULE FlashBuilder -----------------------------
(***************************************************************************)
(* Committing data to one region of flash: FlashBuilder.erase() and        *)
(* program(), and the calls of the flash algorithm in the target that      *)
(* Flash makes for them (Init, UnInit, EraseSector, EraseChip, and         *)
(* ProgramPage with one or two page buffers).                              *)
(*                                                                         *)
(* The contents of a page are two halves: the one that the estimate reads, *)
(* and the rest.  A commit that fails leaves the operation for which the   *)
(* algorithm is inited as it is; a new commit of the same data uses the    *)
(* same Flash object and a new builder.                                    *)
(***************************************************************************)
EXTENDS Integers, Sequences, FiniteSets, SequencesExt

CONSTANTS FlashPages,  \* number of pages of the region
          SectorSize,  \* pages of a sector
          Keep,        \* a half of a page nobody asked for
          FlashJobs    \* what a behaviour may choose from, see FlashJob

Page      == 1..FlashPages
Sector(p) == (p - 1) \div SectorSize
Erased    == <<0, 0>>
Mixed     == <<99, 99>>  \* what programming a page that is not erased gives

(* What a behaviour commits, and how: the contents of the flash before and *)
(* the data wanted; smart_flash, keep_unwritten, and whether the erase is  *)
(* a chip erase; how pages are compared: by "crc", by a CRC that is        *)
(* trusted ("fast"), by what can be "read", or not at all ("none", when    *)
(* the flash cannot be read either); whether there are two page buffers;   *)
(* and the number of calls that may fail.                                  *)
FlashJob(before, wanted, smart, keep, wipe, analysis, double, failures) ==
  [before |-> before, wanted |-> wanted, smart |-> smart, wipe |-> wipe,
   keep |-> keep /\ analysis # "none", analysis |-> analysis,
   double |-> double, failures |-> failures]

ASSUME FlashAssumption ==
  /\ FlashPages \in Nat /\ SectorSize \in Nat \ {0}
  /\ \A job \in FlashJobs :
       /\ job.before \in [Page -> Nat \X Nat] /\ job.wanted \in [Page -> Nat \X Nat]
       /\ {job.smart, job.keep, job.wipe, job.double} \subseteq BOOLEAN
       /\ job.analysis \in {"crc", "fast", "read", "none"} /\ job.failures \in Nat
       /\ job.keep => job.analysis # "none"

VARIABLES flJob,      \* chosen at the start
          contents,   \* the contents of the flash
          algo,       \* the operation the algorithm is inited for in the target
          active,     \* _active_operation
          uninitFailed, \* UnInit has failed (history)
          failures,
          flPc,
          access,     \* read access: "no", "fallback" after VERIFY failed, "yes"
          pageList,   \* page_list
          pageData,   \* data of each page
          same,       \* same of each page, or "absent"
          next,       \* index into the sectors or pages that are left
          buffers,    \* the page buffers in the target's RAM
          current,    \* current_buf
          loaded,     \* pages loaded into a buffer so far
          running     \* the ProgramPage call under way, or NoCall

flTarget  == <<contents, algo>>
flBuilder == <<pageList, pageData, same>>
flBuffers == <<buffers, current, loaded, running>>
flVars    == <<flJob, flTarget, active, uninitFailed, failures, flPc, access,
               flBuilder, next, flBuffers>>

Smallest(a, b) == IF a < b THEN a ELSE b

NoCall == [page |-> 0, buffer |-> 0, done |-> FALSE]
Blank  == [p \in Page |-> Erased]

FlashInit ==
  /\ flJob \in FlashJobs
  /\ contents = flJob.before
  /\ algo = "none" /\ active = "none" /\ uninitFailed = FALSE /\ failures = 0
  /\ flPc = "build" /\ access = "no"
  /\ pageList = <<>> /\ pageData = Blank /\ same = [p \in Page |-> "absent"]
  /\ next = 1
  /\ buffers = [b \in {0, 1} |-> Erased] /\ current = 0 /\ loaded = 0
  /\ running = NoCall

-----------------------------------------------------------------------------
(* The pages of a commit                                                   *)

Asked(p)       == flJob.wanted[p] # <<Keep, Keep>>
InList(p)      == same[p] # "absent"
SectorOf(s)    == {p \in Page : Sector(p) = s}
NotAllSame(s)  == \E p \in SectorOf(s) : same[p] \notin {"absent", "yes"}
Unread         == {p \in Page : same[p] = "unknown"}

(* The elements of a set of numbers in order, each at the number of those  *)
(* up to it.                                                               *)
Ascending(set) ==
  [i \in 1..Cardinality(set) |-> CHOOSE p \in set : Cardinality({q \in set : q <= p}) = i]

(* Gaps inside a page and missing pages of a sector are read.              *)
Gaps == {p \in Page : /\ \E q \in SectorOf(Sector(p)) : Asked(q)
                      /\ Keep \in {flJob.wanted[p][1], flJob.wanted[p][2]}}

Filled(p, half) ==
  IF flJob.wanted[p][half] # Keep THEN flJob.wanted[p][half]
  ELSE IF flJob.keep THEN contents[p][half] ELSE 0

(* _build_sectors_and_pages, _fill_unwritten_sector_pages and, without     *)
(* smart_flash, _mark_all_pages_for_programming.                           *)
Prepared ==
  LET asked   == {p \in Page : Asked(p)}
      missing == IF flJob.keep THEN {p \in Gaps : ~Asked(p)} ELSE {}
  IN /\ pageList' = Ascending(asked) \o Ascending(missing)
     /\ pageData' = [p \in Page |-> <<Filled(p, 1), Filled(p, 2)>>]
     /\ same' = [p \in Page |-> IF p \notin asked \cup missing THEN "absent"
                                ELSE IF ~flJob.smart THEN "no"
                                ELSE IF p \in asked THEN "unknown" ELSE "yes"]

(* _compute_sector_erase_pages_and_weight: pages are compared by their CRC *)
(* or by their first half; if neither can be read all are programmed.      *)
(* Mutant: a first half that matches is taken for the page.                *)
Estimated_TrustsRead ==
  IF flJob.analysis = "none"
    THEN [p \in Page |-> IF InList(p) THEN "no" ELSE "absent"]
    ELSE [p \in Page |->
           IF same[p] # "unknown" THEN same[p]
           ELSE IF contents[p][1] # pageData[p][1] THEN "no" ELSE "yes"]

Estimated ==
  IF flJob.analysis = "none"
    THEN [p \in Page |-> IF InList(p) THEN "no" ELSE "absent"]
    ELSE [p \in Page |->
           IF same[p] # "unknown" THEN same[p]
           ELSE IF flJob.analysis = "read"
             THEN IF contents[p][1] # pageData[p][1] THEN "no" ELSE "unknown"
           ELSE IF contents[p] # pageData[p] THEN "no"
           ELSE IF flJob.analysis = "fast" THEN "yes" ELSE "unknown"]

(* _scan_pages_for_same: unknown pages are read, and the sectors that are  *)
(* not all the same are marked.                                            *)
Scanned(flags) ==
  LET read == [p \in Page |-> IF flags[p] # "unknown" THEN flags[p]
                              ELSE IF contents[p] = pageData[p] THEN "yes" ELSE "no"]
      dirty == {s \in {Sector(p) : p \in Page} :
                  \E p \in SectorOf(s) : read[p] = "no"}
  IN [p \in Page |-> IF read[p] # "absent" /\ Sector(p) \in dirty THEN "no" ELSE read[p]]

(* _finalize_smart_flash: without unknown pages there is no scan.          *)
Finalized ==
  IF Unread = {} THEN same
  ELSE IF \E p \in Page : Estimated[p] = "unknown" THEN Scanned(Estimated)
  ELSE Estimated

(* The sectors _erase_sectors() erases, and the pages to be programmed:    *)
(* with two buffers those that are not the same, else all pages of the     *)
(* sectors that are not all the same.                                      *)
SectorsToErase == Ascending({s \in {Sector(p) : p \in Page} : NotAllSame(s)})

Nonsame(list, flags) ==
  LET places == Ascending({i \in DOMAIN list : flags[list[i]] # "yes"})
  IN [k \in DOMAIN places |-> list[places[k]]]

PagesToProgram ==
  IF flJob.double THEN Nonsame(pageList, same)
  ELSE Ascending({p \in Page : InList(p) /\ NotAllSame(Sector(p))})

-----------------------------------------------------------------------------
(* Calling the algorithm.  init() calls UnInit first if another operation  *)
(* is active, and calls nothing if the same one is.                        *)

Reading ==
  \/ flPc = "build" /\ flJob.keep /\ Gaps # {}
  \/ /\ flPc \in {"estimate", "again"} /\ flJob.smart /\ Unread # {}
     /\ flPc = "estimate" => ~flJob.wipe
     /\ flJob.analysis # "none"

(* The operation init() is called for, at this point.                      *)
Needed ==
  IF Reading THEN IF access = "no" THEN "VERIFY" ELSE IF access = "yes" THEN active ELSE "ERASE"
  ELSE IF flPc = "erase" THEN "ERASE"
  ELSE IF flPc = "program" /\ (flJob.double => PagesToProgram # <<>>) THEN "PROGRAM"
  ELSE "none"

Ready == Needed \in {"none", active} /\ (Reading => access = "yes")
Ends  == flPc \in {"erased", "programmed"}

OneFails == failures < flJob.failures /\ failures' = failures + 1

(* An exception leaves the commit; if it is a FlashFailure, not one of the *)
(* probe's, it makes _enable_read_access() try ERASE.                      *)
RaiseFlash ==
  /\ \/ flPc' = "failed" /\ UNCHANGED access
     \/ Reading /\ access = "no" /\ access' = "fallback" /\ UNCHANGED flPc
  /\ UNCHANGED <<flJob, flBuilder, next, flBuffers>>

(* Mutant: the operation is active although Init failed.                   *)
CallInit_ActiveFirst ==
  /\ Needed # "none" /\ active = "none"
  /\ active' = Needed
  /\ \/ /\ algo' = Needed
        /\ access' = IF Reading THEN "yes" ELSE access
        /\ UNCHANGED <<flJob, failures, flPc, flBuilder, next, flBuffers>>
     \/ OneFails /\ RaiseFlash /\ algo' \in {algo, Needed}
  /\ UNCHANGED <<contents, uninitFailed>>

(* Init may have run in the target when the call raises: then no operation *)
(* is active, and no UnInit precedes the next Init.                        *)
CallInit ==
  /\ Needed # "none" /\ active = "none"
  /\ \/ /\ algo' = Needed /\ active' = Needed
        /\ access' = IF Reading THEN "yes" ELSE access
        /\ UNCHANGED <<flJob, failures, flPc, flBuilder, next, flBuffers>>
     \/ OneFails /\ RaiseFlash /\ algo' \in {algo, Needed} /\ UNCHANGED active
  /\ UNCHANGED <<contents, uninitFailed>>

AlreadyInited ==
  /\ Reading /\ access # "yes" /\ active = Needed
  /\ access' = "yes"
  /\ UNCHANGED <<flJob, flTarget, active, uninitFailed, failures, flPc,
                 flBuilder, next, flBuffers>>

CallUnInit ==
  /\ active # "none" /\ (Ends \/ Needed \notin {"none", active})
  /\ \/ /\ algo' = "none" /\ active' = "none"
        /\ UNCHANGED <<flJob, uninitFailed, failures, flPc, access, flBuilder, next, flBuffers>>
     \/ /\ OneFails /\ RaiseFlash
        /\ uninitFailed' = TRUE /\ algo' \in {algo, "none"} /\ UNCHANGED active
  /\ UNCHANGED contents

-----------------------------------------------------------------------------
(* erase()                                                                 *)

Build ==
  /\ flPc = "build" /\ Ready
  /\ Prepared
  /\ flPc' = "estimate"
  /\ UNCHANGED <<flJob, flTarget, active, uninitFailed, failures, access, next, flBuffers>>

(* What is the same is decided before erasing, or, after a chip erase,     *)
(* before programming.                                                     *)
Estimate ==
  /\ flPc \in {"estimate", "again"} /\ Ready
  /\ same' = IF flJob.smart /\ (flPc = "estimate" => ~flJob.wipe) THEN Finalized ELSE same
  /\ flPc' = IF flPc = "estimate" THEN "erase" ELSE "program"
  /\ access' = "no" /\ next' = 1
  /\ UNCHANGED <<flJob, flTarget, active, uninitFailed, failures, pageList, pageData, flBuffers>>

After(s) == [p \in Page |-> IF Sector(p) = s THEN Erased ELSE contents[p]]

EraseNext ==
  /\ flPc = "erase" /\ Ready /\ ~flJob.wipe /\ next <= Len(SectorsToErase)
  /\ \/ contents' = After(SectorsToErase[next]) /\ next' = next + 1 /\ UNCHANGED <<failures, flPc>>
     \/ /\ OneFails /\ flPc' = "failed" /\ UNCHANGED next
        /\ contents' \in {contents, After(SectorsToErase[next])}
  /\ UNCHANGED <<flJob, algo, active, uninitFailed, access, flBuilder, flBuffers>>

EraseAll ==
  /\ flPc = "erase" /\ Ready /\ flJob.wipe
  /\ \/ contents' = Blank /\ flPc' = "erased" /\ UNCHANGED failures
     \/ OneFails /\ flPc' = "failed" /\ contents' \in {contents, Blank}
  /\ UNCHANGED <<flJob, algo, active, uninitFailed, access, flBuilder, next, flBuffers>>

EraseDone ==
  /\ flPc = "erase" /\ Ready /\ ~flJob.wipe /\ next > Len(SectorsToErase)
  /\ flPc' = "erased"
  /\ UNCHANGED <<flJob, flTarget, active, uninitFailed, failures, access, flBuilder, next, flBuffers>>

(* After uninit(), cleanup().                                              *)
StageEnds ==
  /\ Ends /\ active = "none"
  /\ flPc' = IF flPc = "erased" THEN "again" ELSE "done"
  /\ next' = 1 /\ loaded' = 0 /\ current' = 0
  /\ UNCHANGED <<flJob, flTarget, active, uninitFailed, failures, access, flBuilder,
                 buffers, running>>

-----------------------------------------------------------------------------
(* program()                                                               *)

Programmed(p, data) == [contents EXCEPT ![p] = IF @ = Erased THEN data ELSE Mixed]

ProgramPage ==
  /\ flPc = "program" /\ Ready /\ ~flJob.double /\ next <= Len(PagesToProgram)
  /\ LET p == PagesToProgram[next]
     IN \/ /\ contents' = Programmed(p, pageData[p]) /\ next' = next + 1
           /\ UNCHANGED <<failures, flPc>>
        \/ /\ OneFails /\ flPc' = "failed" /\ UNCHANGED next
           /\ contents' \in {contents, Programmed(p, pageData[p])}
  /\ UNCHANGED <<flJob, algo, active, uninitFailed, access, flBuilder, flBuffers>>

(* load_page_buffer: the first page before the loop, each next one while   *)
(* the algorithm programs from the other buffer.                           *)
(* Mutant: the page is loaded into the buffer in use.                      *)
LoadBuffer_SameBuffer ==
  /\ flPc = "program" /\ Ready /\ flJob.double
  /\ loaded < Len(PagesToProgram) /\ loaded = (IF running = NoCall THEN 0 ELSE next)
  /\ buffers' = [buffers EXCEPT ![current] = pageData[PagesToProgram[loaded + 1]]]
  /\ loaded' = loaded + 1
  /\ UNCHANGED <<flJob, flTarget, active, uninitFailed, failures, flPc, access, flBuilder,
                 next, current, running>>

LoadBuffer ==
  /\ flPc = "program" /\ Ready /\ flJob.double
  /\ loaded < Len(PagesToProgram) /\ loaded = (IF running = NoCall THEN 0 ELSE next)
  /\ LET b == IF running = NoCall THEN current ELSE 1 - current
     IN buffers' = [buffers EXCEPT ![b] = pageData[PagesToProgram[loaded + 1]]]
  /\ loaded' = loaded + 1
  /\ UNCHANGED <<flJob, flTarget, active, uninitFailed, failures, flPc, access, flBuilder,
                 next, current, running>>

StartProgram ==
  /\ flPc = "program" /\ Ready /\ flJob.double /\ running = NoCall
  /\ next <= Len(PagesToProgram) /\ loaded >= next
  /\ running' = [page |-> PagesToProgram[next], buffer |-> current, done |-> FALSE]
  /\ UNCHANGED <<flJob, flTarget, active, uninitFailed, failures, flPc, access, flBuilder,
                 next, buffers, current, loaded>>

(* The algorithm in the target takes the data from the buffer.             *)
TargetPrograms ==
  /\ running # NoCall /\ ~running.done
  /\ contents' = Programmed(running.page, buffers[running.buffer])
  /\ running' = [running EXCEPT !.done = TRUE]
  /\ UNCHANGED <<flJob, algo, active, uninitFailed, failures, flPc, access, flBuilder,
                 next, buffers, current, loaded>>

WaitProgrammed ==
  /\ running # NoCall /\ loaded = Smallest(next + 1, Len(PagesToProgram))
  /\ \/ /\ running.done
        /\ current' = 1 - current /\ next' = next + 1
        /\ UNCHANGED <<failures, flPc>>
     \/ OneFails /\ flPc' = "failed" /\ UNCHANGED <<current, next>>
  /\ running' = NoCall
  /\ UNCHANGED <<flJob, flTarget, active, uninitFailed, access, flBuilder, buffers, loaded>>

ProgramDone ==
  /\ flPc = "program" /\ Ready /\ running = NoCall /\ next > Len(PagesToProgram)
  /\ flPc' = "programmed"
  /\ UNCHANGED <<flJob, flTarget, active, uninitFailed, failures, access, flBuilder, next, flBuffers>>

(* The same data is committed again, by a new builder.                     *)
Retry ==
  /\ flPc = "failed"
  /\ flPc' = "build" /\ access' = "no"
  /\ pageList' = <<>> /\ same' = [p \in Page |-> "absent"] /\ pageData' = Blank
  /\ next' = 1 /\ loaded' = 0 /\ current' = 0
  /\ UNCHANGED <<flJob, flTarget, active, uninitFailed, failures, buffers, running>>

FlashNext ==
  \/ CallInit \/ AlreadyInited \/ CallUnInit
  \/ Build \/ Estimate \/ EraseNext \/ EraseAll \/ EraseDone \/ StageEnds
  \/ ProgramPage \/ LoadBuffer \/ StartProgram \/ TargetPrograms \/ WaitProgrammed
  \/ ProgramDone \/ Retry

FlashSpec == FlashInit /\ [][FlashNext]_flVars

-----------------------------------------------------------------------------
(* Properties                                                              *)

(* The flash only changes while the algorithm in the target is inited for  *)
(* what changes it, erasing or programming: whatever calls failed, whether *)
(* or not a failed Init took effect, however often a commit is tried       *)
(* again.  Only a failing UnInit leaves it open.                           *)
InitedFor == IF flPc = "erase" THEN "ERASE" ELSE "PROGRAM"
CallsAreInited == [][contents' # contents => uninitFailed \/ algo = InitedFor]_flVars

AskedIsThere ==
  \A p \in Page, half \in {1, 2} : flJob.wanted[p][half] \in {Keep, contents[p][half]}

KeptIn(p) ==
  \A half \in {1, 2} :
    flJob.wanted[p][half] = Keep => contents[p][half] = flJob.before[p][half]

(* A chip erase is to leave nothing of a sector in which nothing is asked  *)
(* for.                                                                    *)
ToKeep == {p \in Page : ~flJob.wipe \/ \E q \in SectorOf(Sector(p)) : Asked(q)}
Kept == \A p \in ToKeep : KeptIn(p)

(* Where nothing but erased halves is asked for, a chip erase leaves every *)
(* page that was asked for the same.                                       *)
AllBlank(s) == \A p \in SectorOf(s) : Asked(p) => pageData[p] = Erased

(* When a commit returns, tried again or not, the data asked for is in the *)
(* flash.  With keep_unwritten so is what shares a sector with it and was  *)
(* not asked for, unless a first try failed.  Both with one page buffer:   *)
(* with two neither holds for a CRC that is trusted, and see               *)
(* UnwrittenIsKept; and what is kept, after a chip erase with smart_flash, *)
(* only where not all that was asked for is blank.                         *)
CommitIsComplete ==
  flPc = "done"
    => /\ ~(flJob.double /\ flJob.analysis = "fast") => AskedIsThere
       /\ flJob.keep /\ failures = 0 /\ ~flJob.double
            => \A p \in ToKeep :
                 KeptIn(p) \/ (flJob.wipe /\ flJob.smart /\ AllBlank(Sector(p)))

(* keep_unwritten keeps it also when two page buffers are used.            *)
UnwrittenIsKept == flPc = "done" /\ flJob.keep /\ failures = 0 => Kept

(* Building, erasing and programming implement the service.  Without       *)
(* keep_unwritten a page is compared with its gaps taken for erased, so    *)
(* only with it does smart_flash leave alone what is there already.        *)
Flash == INSTANCE FlashService
  WITH before <- flJob.before, wanted <- flJob.wanted,
       mayWipe <- flJob.wipe, picky <- flJob.smart /\ flJob.keep
FlashServiceSpec == Flash!Spec
=============================================================================
