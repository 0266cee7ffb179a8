------------------------- MODULE FlashBuilder_proofs -------------------------
(***************************************************************************)
(* What FlashBuilder keeps in step with the algorithm in the target, for a *)
(* region of any size, any data and any choice of options: the operation   *)
(* it is inited for, the two page buffers, and what is in the flash.       *)
(*                                                                         *)
(* While the algorithm programs page number next from the current buffer,  *)
(* the other one is free for page next + 1; a call that fails leaves the   *)
(* stage, and what was loaded is forgotten with the builder.               *)
(*                                                                         *)
(* What is in the flash is known page by page, from what each phase has    *)
(* established: which pages are the same, which sectors were erased, and   *)
(* which pages were programmed.                                            *)
(***************************************************************************)
EXTENDS FlashBuilder, FiniteSetTheorems, TLAPS

(* Nothing is loaded before programming begins, and no call is under way   *)
(* outside it.                                                             *)
BuffersInUse ==
  /\ flPc \in {"build", "estimate", "erase", "erased", "again"} => loaded = 0
  /\ running # NoCall
       => flPc = "program" /\ flJob.double /\ active = "PROGRAM" /\ PagesToProgram # <<>>

(* The buffers stay in step with the pages.                                *)
BuffersInStep ==
  flPc = "program" /\ flJob.double =>
    /\ loaded <= next + 1 /\ (loaded = 0 => next = 1)
    /\ running = NoCall => /\ loaded <= next
                           /\ loaded = next => buffers[current] = pageData[PagesToProgram[next]]
    /\ running # NoCall => /\ running.page = PagesToProgram[next] /\ running.buffer = current
                           /\ buffers[current] = pageData[PagesToProgram[next]]
                           /\ loaded >= next
                           /\ loaded = next + 1
                                => buffers[1 - current] = pageData[PagesToProgram[next + 1]]

BufferTypes ==
  /\ next \in Nat \ {0} /\ loaded \in Nat /\ current \in {0, 1} /\ DOMAIN buffers = {0, 1}
  /\ running \in [page : {running.page}, buffer : {0, 1}, done : BOOLEAN]

BufferInv == BufferTypes /\ BuffersInUse /\ BuffersInStep

(* When an operation is remembered as active, the algorithm is inited for  *)
(* it, unless an UnInit failed; when none is, a failed Init may have left  *)
(* the algorithm inited.                                                   *)
ActiveIsInited == uninitFailed \/ active \in {"none", algo}

(* The page the algorithm programs is the one whose data is in the buffer  *)
(* it was told to program from.                                            *)
RightBuffer == running # NoCall => buffers[running.buffer] = pageData[running.page]

-----------------------------------------------------------------------------
LEMMA SamePages ==
  ASSUME UNCHANGED <<flJob, pageList, same>>
  PROVE  PagesToProgram' = PagesToProgram
BY DEF PagesToProgram, InList, NotAllSame, SectorOf

(* A step outside programming loads nothing and starts no call.            *)
LEMMA QuietStep ==
  ASSUME BufferInv, running = NoCall, UNCHANGED <<flJob, running, buffers>>,
         next' \in Nat \ {0}, loaded' \in Nat, current' \in {0, 1},
         flPc' \in {"build", "estimate", "erase", "erased", "again"} => loaded' = 0,
         flPc' = "program" /\ flJob.double => loaded' = 0 /\ next' = 1
  PROVE  BufferInv'
<1>1. running' = NoCall
  OBVIOUS
<1>2. BufferTypes'
  BY DEF BufferInv, BufferTypes
<1>3. BuffersInUse'
  BY <1>1 DEF BuffersInUse
<1>4. BuffersInStep'
  <2>1. SUFFICES ASSUME flPc' = "program" /\ flJob'.double
                 PROVE  loaded' = 0 /\ next' = 1
    BY <1>1 DEF BuffersInStep
  <2> QED
    BY <2>1
<1> QED
  BY <1>2, <1>3, <1>4 DEF BufferInv

(* A step that leaves pages and buffers as they are, also when it fails.   *)
LEMMA KeepingStep ==
  ASSUME BufferInv, UNCHANGED <<flJob, flBuilder, next, flBuffers>>,
         flPc' \in {flPc, "failed"}, running # NoCall => UNCHANGED <<flPc, active>>
  PROVE  BufferInv'
<1>1. PagesToProgram' = PagesToProgram
  BY SamePages DEF flBuilder
<1> QED
  BY <1>1 DEF BufferInv, BufferTypes, BuffersInUse, BuffersInStep, flBuffers, flBuilder, NoCall

LEMMA BusyNeeds ==
  ASSUME BuffersInUse, running # NoCall
  PROVE  Needed = active /\ active = "PROGRAM" /\ ~Reading /\ ~Ends /\ flPc = "program"
BY DEF BuffersInUse, Needed, Reading, Ends

LEMMA CallsKeep ==
  ASSUME BufferInv, CallInit \/ AlreadyInited \/ CallUnInit
  PROVE  BufferInv'
<1>1. UNCHANGED <<flJob, flBuilder, next, flBuffers>> /\ flPc' \in {flPc, "failed"}
  BY DEF CallInit, AlreadyInited, CallUnInit, RaiseFlash
<1>2. running = NoCall
  BY BusyNeeds DEF BufferInv, CallInit, AlreadyInited, CallUnInit
<1> QED
  BY <1>1, <1>2, KeepingStep

LEMMA EraseKeeps ==
  ASSUME BufferInv,
         Build \/ Estimate \/ EraseNext \/ EraseAll \/ EraseDone \/ StageEnds \/ Retry
  PROVE  BufferInv'
<1>1. running = NoCall /\ UNCHANGED <<flJob, running, buffers>>
  BY BusyNeeds DEF BufferInv, BuffersInUse, Ends, flBuffers,
     Build, Estimate, EraseNext, EraseAll, EraseDone, StageEnds, Retry
<1>2. /\ next' \in Nat \ {0} /\ loaded' \in Nat /\ current' \in {0, 1}
      /\ flPc' \in {"build", "estimate", "erase", "erased", "again"} => loaded' = 0
      /\ flPc' = "program" => loaded' = 0 /\ next' = 1
  BY DEF BufferInv, BufferTypes, BuffersInUse, Ends, flBuffers,
     Build, Estimate, EraseNext, EraseAll, EraseDone, StageEnds, Retry
<1> QED
  BY <1>1, <1>2, QuietStep

LEMMA OnePageKeeps ==
  ASSUME BufferInv, ProgramPage
  PROVE  BufferInv'
<1>1. ~flJob.double /\ running = NoCall
  BY DEF BufferInv, BuffersInUse, ProgramPage
<1>2. next' \in Nat \ {0}
  BY DEF BufferInv, BufferTypes, ProgramPage
<1> QED
  BY <1>1, <1>2, QuietStep DEF BufferInv, BufferTypes, BuffersInUse, ProgramPage, flBuffers

LEMMA LoadKeeps ==
  ASSUME BufferInv, LoadBuffer
  PROVE  BufferInv'
<1>1. PagesToProgram' = PagesToProgram
  BY SamePages DEF LoadBuffer, flBuilder
<1>2. CASE running = NoCall
  <2>1. /\ loaded = 0 /\ next = 1 /\ loaded' = 1
        /\ buffers' = [buffers EXCEPT ![current] = pageData[PagesToProgram[1]]]
    BY <1>2 DEF BufferInv, BuffersInStep, LoadBuffer
  <2>2. buffers'[current] = pageData[PagesToProgram[1]] /\ DOMAIN buffers' = {0, 1}
    BY <2>1 DEF BufferInv, BufferTypes
  <2> QED
    BY <1>1, <1>2, <2>1, <2>2
    DEF BufferInv, BufferTypes, BuffersInUse, BuffersInStep, LoadBuffer, flBuilder
<1>3. CASE running # NoCall
  <2>1. /\ loaded = next /\ loaded' = next + 1
        /\ buffers' = [buffers EXCEPT ![1 - current] = pageData[PagesToProgram[next + 1]]]
    BY <1>3 DEF BufferInv, BuffersInStep, LoadBuffer
  <2>2. /\ buffers'[1 - current] = pageData[PagesToProgram[next + 1]]
        /\ buffers'[current] = buffers[current] /\ DOMAIN buffers' = {0, 1}
    BY <2>1 DEF BufferInv, BufferTypes
  <2> QED
    BY <1>1, <1>3, <2>1, <2>2
    DEF BufferInv, BufferTypes, BuffersInUse, BuffersInStep, LoadBuffer, flBuilder
<1> QED
  BY <1>2, <1>3

LEMMA StartKeeps ==
  ASSUME BufferInv, StartProgram
  PROVE  BufferInv'
<1>1. PagesToProgram' = PagesToProgram
  BY SamePages DEF StartProgram, flBuilder
<1>2. PagesToProgram # <<>>
  BY DEF BufferInv, BufferTypes, StartProgram
<1>3. active = "PROGRAM"
  BY <1>2 DEF StartProgram, Ready, Needed, Reading
<1>4. /\ running' = [page |-> PagesToProgram[next], buffer |-> current, done |-> FALSE]
      /\ loaded = next /\ buffers[current] = pageData[PagesToProgram[next]]
  BY DEF BufferInv, BufferTypes, BuffersInStep, StartProgram
<1> QED
  BY <1>1, <1>2, <1>3, <1>4
  DEF BufferInv, BufferTypes, BuffersInUse, BuffersInStep, StartProgram, flBuilder

LEMMA TargetKeeps ==
  ASSUME BufferInv, TargetPrograms
  PROVE  BufferInv'
<1>1. PagesToProgram' = PagesToProgram
  BY SamePages DEF TargetPrograms, flBuilder
<1>2. /\ running' = [running EXCEPT !.done = TRUE]
      /\ running'.page = running.page /\ running'.buffer = running.buffer
      /\ running' # NoCall
      /\ running' \in [page : {running'.page}, buffer : {0, 1}, done : BOOLEAN]
  BY DEF BufferInv, BufferTypes, TargetPrograms, NoCall
<1> QED
  BY <1>1, <1>2
  DEF BufferInv, BufferTypes, BuffersInUse, BuffersInStep, TargetPrograms, flBuilder

LEMMA WaitKeeps ==
  ASSUME BufferInv, WaitProgrammed
  PROVE  BufferInv'
<1>1. PagesToProgram' = PagesToProgram
  BY SamePages DEF WaitProgrammed, flBuilder
<1>2. flPc = "program" /\ flJob.double /\ running # NoCall /\ running' = NoCall
  BY DEF BufferInv, BuffersInUse, WaitProgrammed
<1>3. loaded \in {next, next + 1}
  BY <1>2 DEF BufferInv, BufferTypes, BuffersInStep
<1>4. CASE flPc' = "failed"
  BY <1>1, <1>2, <1>4
  DEF BufferInv, BufferTypes, BuffersInUse, BuffersInStep, WaitProgrammed, NoCall
<1>5. CASE current' = 1 - current /\ next' = next + 1 /\ UNCHANGED <<failures, flPc>>
  <2>1. BufferTypes'
    BY <1>2, <1>5 DEF BufferInv, BufferTypes, WaitProgrammed, NoCall
  <2>2. BuffersInUse'
    BY <1>2, <1>5 DEF BuffersInUse
  <2>3. BuffersInStep'
    BY <1>1, <1>2, <1>3, <1>5
    DEF BufferInv, BufferTypes, BuffersInStep, WaitProgrammed, flBuilder
  <2> QED
    BY <2>1, <2>2, <2>3 DEF BufferInv
<1> QED
  BY <1>4, <1>5 DEF WaitProgrammed

LEMMA DoneKeeps ==
  ASSUME BufferInv, ProgramDone
  PROVE  BufferInv'
BY QuietStep DEF BufferInv, BufferTypes, ProgramDone, flBuffers

LEMMA BufferStep ==
  ASSUME BufferInv, [FlashNext]_flVars
  PROVE  BufferInv'
<1>1. CASE UNCHANGED flVars
  BY <1>1, KeepingStep DEF flVars
<1> QED
  BY <1>1, CallsKeep, EraseKeeps, OnePageKeeps, LoadKeeps, StartKeeps, TargetKeeps,
     WaitKeeps, DoneKeeps DEF FlashNext
-----------------------------------------------------------------------------
(* Lists of pages and sectors                                              *)

(* A sequence of all elements of a set, each of them once.                 *)
Lists(s, S) ==
  /\ s \in Seq(S)
  /\ \A i, j \in 1..Len(s) : s[i] = s[j] => i = j
  /\ \A x \in S : \E i \in 1..Len(s) : s[i] = x

(* The number of elements up to an element is an injection into the first  *)
(* numbers, and so onto them.                                              *)
LEMMA AscendingLists ==
  ASSUME NEW S \in SUBSET Int, IsFiniteSet(S)
  PROVE  Lists(Ascending(S), S)
<1> DEFINE n == Cardinality(S)
           upTo(p) == {q \in S : q <= p}
           rank == [p \in S |-> Cardinality(upTo(p))]
<1>1. n \in Nat
  BY FS_CardinalityType
<1>2. ASSUME NEW p \in S
      PROVE  IsFiniteSet(upTo(p)) /\ rank[p] \in 1..n
  <2>1. IsFiniteSet(upTo(p)) /\ Cardinality(upTo(p)) <= n
    BY FS_Subset
  <2>2. Cardinality(upTo(p)) \in Nat /\ Cardinality(upTo(p)) # 0
    BY <2>1, FS_CardinalityType, FS_EmptySet
  <2> QED
    BY <1>1, <2>1, <2>2
<1>3. ASSUME NEW p \in S, NEW r \in S, p < r
      PROVE  rank[p] # rank[r]
  <2>1. upTo(p) \subseteq upTo(r)
    <3> SUFFICES ASSUME NEW q \in upTo(p) PROVE q \in upTo(r)
      OBVIOUS
    <3>1. q \in S /\ q <= p /\ q \in Int /\ p \in Int /\ r \in Int
      OBVIOUS
    <3> QED
      BY <1>3, <3>1
  <2>2. r \in upTo(r) /\ r \notin upTo(p)
    BY <1>3
  <2>3. Cardinality(upTo(p)) # Cardinality(upTo(r))
    BY <1>2, <2>1, <2>2, FS_Subset
  <2> QED
    BY <2>3
<1>4. \A p, r \in S : rank[p] = rank[r] => p = r
  <2> SUFFICES ASSUME NEW p \in S, NEW r \in S, rank[p] = rank[r], p # r PROVE FALSE
    OBVIOUS
  <2>1. p < r \/ r < p
    OBVIOUS
  <2> QED
    BY <1>3, <2>1
<1>5. rank \in [S -> 1..n]
  BY <1>2
<1> HIDE DEF rank
<1>6. rank \in Injection(S, 1..n)
  BY <1>4, <1>5 DEF Injection, IsInjective
<1>7. rank \in Surjection(S, 1..n)
  <2>1. IsFiniteSet(1..n) /\ Cardinality(1..n) = n
    BY <1>1, FS_Interval
  <2> QED
    BY <1>6, <2>1, FS_Injection
<1>8. \A i \in 1..n : \E p \in S : rank[p] = i
  BY <1>7 DEF Surjection
<1> DEFINE s == Ascending(S)
<1>9. s = [i \in 1..n |-> CHOOSE p \in S : Cardinality({q \in S : q <= p}) = i]
  BY DEF Ascending
<1>10. \A i \in 1..n : s[i] \in S /\ rank[s[i]] = i
  <2>1. \A p \in S : rank[p] = Cardinality({q \in S : q <= p})
    BY DEF rank
  <2> SUFFICES ASSUME NEW i \in 1..n PROVE s[i] \in S /\ rank[s[i]] = i
    OBVIOUS
  <2>2. \E p \in S : Cardinality({q \in S : q <= p}) = i
    BY <1>8, <2>1
  <2>3. s[i] = CHOOSE p \in S : Cardinality({q \in S : q <= p}) = i
    BY <1>9
  <2>4. s[i] \in S /\ Cardinality({q \in S : q <= s[i]}) = i
    BY <2>2, <2>3
  <2> QED
    BY <2>1, <2>4
<1> HIDE DEF s, n
<1>11. s \in Seq(S) /\ Len(s) = n
  <2>1. s \in [1..n -> S]
    BY <1>9, <1>10
  <2> QED
    BY <1>1, <2>1
<1>12. \A i, j \in 1..Len(s) : s[i] = s[j] => i = j
  BY <1>10, <1>11
<1>13. \A x \in S : \E i \in 1..Len(s) : s[i] = x
  <2> SUFFICES ASSUME NEW x \in S PROVE s[rank[x]] = x /\ rank[x] \in 1..n
    BY <1>11
  <2>1. rank[x] \in 1..n
    BY <1>5
  <2> QED
    BY <1>4, <1>10, <2>1
<1>14. Lists(s, S)
  BY <1>11, <1>12, <1>13 DEF Lists
<1> QED
  BY <1>14 DEF s

(* Two lists of different elements, one after the other.                   *)
LEMMA ListsJoin ==
  ASSUME NEW S \in SUBSET Int, NEW T \in SUBSET Int, S \cap T = {},
         NEW s, Lists(s, S), NEW t, Lists(t, T)
  PROVE  Lists(s \o t, S \cup T)
<1>1. s \in Seq(S \cup T) /\ t \in Seq(S \cup T)
  BY DEF Lists
<1> DEFINE u == s \o t
<1>2. /\ u \in Seq(S \cup T) /\ Len(u) = Len(s) + Len(t) /\ Len(s) \in Nat /\ Len(t) \in Nat
  BY <1>1
<1>3. \A i \in 1..Len(s) : u[i] = s[i] /\ s[i] \in S
  BY <1>1 DEF Lists
<1>4. \A i \in 1..Len(t) : u[Len(s) + i] = t[i] /\ t[i] \in T
  BY <1>1 DEF Lists
<1> HIDE DEF u
<1>5. ASSUME NEW i \in 1..Len(u), i > Len(s)
      PROVE  i - Len(s) \in 1..Len(t) /\ u[i] = t[i - Len(s)] /\ u[i] \in T
  <2>1. i - Len(s) \in 1..Len(t) /\ i = Len(s) + (i - Len(s))
    BY <1>2, <1>5
  <2>2. u[Len(s) + (i - Len(s))] = t[i - Len(s)] /\ t[i - Len(s)] \in T
    BY <1>4, <2>1
  <2> QED
    BY <2>1, <2>2
<1>6. ASSUME NEW i \in 1..Len(u), NEW j \in 1..Len(u), u[i] = u[j]
      PROVE  i = j
  <2>1. CASE i <= Len(s) /\ j <= Len(s)
    BY <1>2, <1>3, <1>6, <2>1 DEF Lists
  <2>2. CASE i > Len(s) /\ j > Len(s)
    <3>1. t[i - Len(s)] = t[j - Len(s)]
      BY <1>5, <1>6, <2>2
    <3>2. i - Len(s) = j - Len(s)
      BY <1>5, <2>2, <3>1 DEF Lists
    <3> QED
      BY <1>2, <3>2
  <2>3. CASE i <= Len(s) /\ j > Len(s)
    <3>1. u[i] \in S /\ u[j] \in T
      BY <1>2, <1>3, <1>5, <2>3
    <3> QED
      BY <1>6, <3>1
  <2>4. CASE i > Len(s) /\ j <= Len(s)
    <3>1. u[j] \in S /\ u[i] \in T
      BY <1>2, <1>3, <1>5, <2>4
    <3> QED
      BY <1>6, <3>1
  <2>5. i \in Nat /\ j \in Nat /\ Len(s) \in Nat
    BY <1>2
  <2> QED
    BY <2>1, <2>2, <2>3, <2>4, <2>5
<1>7. \A x \in S : \E i \in 1..Len(u) : u[i] = x
  BY <1>2, <1>3 DEF Lists
<1>8. ASSUME NEW x \in T PROVE \E i \in 1..Len(u) : u[i] = x
  <2>1. PICK i \in 1..Len(t) : t[i] = x
    BY DEF Lists
  <2>2. Len(s) + i \in 1..Len(u) /\ u[Len(s) + i] = x
    BY <1>2, <1>4, <2>1
  <2> QED
    BY <2>2
<1>9. Lists(u, S \cup T)
  BY <1>2, <1>6, <1>7, <1>8 DEF Lists
<1> QED
  BY <1>9 DEF u

(* The list of pages that are to be programmed with two buffers.           *)
LEMMA NonsameLists ==
  ASSUME NEW S \in SUBSET Int, NEW list, Lists(list, S), NEW flags
  PROVE  Lists(Nonsame(list, flags), {p \in S : flags[p] # "yes"})
<1> DEFINE I == {i \in DOMAIN list : flags[list[i]] # "yes"}
           places == Ascending(I)
           u == Nonsame(list, flags)
           T == {p \in S : flags[p] # "yes"}
<1>1. list \in Seq(S) /\ Len(list) \in Nat /\ DOMAIN list = 1..Len(list)
  BY DEF Lists
<1>2. I \in SUBSET Nat /\ IsFiniteSet(I)
  <2>1. IsFiniteSet(1..Len(list))
    BY <1>1, FS_Interval
  <2> QED
    BY <1>1, <2>1, FS_Subset
<1>3. Lists(places, I)
  BY <1>2, AscendingLists
<1>4. u = [k \in DOMAIN places |-> list[places[k]]]
  BY DEF Nonsame
<1>5. \A i \in I : list[i] \in T
  BY <1>1
<1>6. \A x \in T : \E i \in I : list[i] = x
  BY <1>1 DEF Lists
<1>7. \A i, j \in I : list[i] = list[j] => i = j
  BY <1>1 DEF Lists
<1> HIDE DEF I, places, T
<1>8. places \in Seq(I) /\ Len(places) \in Nat /\ DOMAIN places = 1..Len(places)
  BY <1>3 DEF Lists
<1>9. u \in Seq(T) /\ Len(u) = Len(places) /\ \A k \in 1..Len(places) : u[k] = list[places[k]]
  BY <1>4, <1>5, <1>8
<1> HIDE DEF u
<1>10. \A k, l \in 1..Len(u) : u[k] = u[l] => k = l
  BY <1>3, <1>7, <1>8, <1>9 DEF Lists
<1>11. ASSUME NEW x \in T PROVE \E k \in 1..Len(u) : u[k] = x
  <2>1. PICK i \in I : list[i] = x
    BY <1>6
  <2>2. PICK k \in 1..Len(places) : places[k] = i
    BY <1>3 DEF Lists
  <2> QED
    BY <1>9, <2>1, <2>2
<1>12. Lists(u, T)
  BY <1>9, <1>10, <1>11 DEF Lists
<1> QED
  BY <1>12 DEF u, T

(* Pages and sectors are finite sets of numbers.                           *)
LEMMA SectorsAreNumbers ==
  /\ Page \in SUBSET Int /\ IsFiniteSet(Page)
  /\ {Sector(p) : p \in Page} \in SUBSET Int /\ IsFiniteSet({Sector(p) : p \in Page})
<1>1. Page \in SUBSET Int /\ IsFiniteSet(Page)
  BY FS_Interval, FlashAssumption DEF FlashAssumption, Page
<1>2. \A p \in Page : Sector(p) \in Int
  <2> SUFFICES ASSUME NEW p \in Page PROVE (p - 1) \div SectorSize \in Int
    BY DEF Sector
  <2>1. p - 1 \in Int /\ SectorSize \in Int /\ SectorSize > 0
    BY <1>1, FlashAssumption DEF FlashAssumption
  <2> QED
    BY <2>1
<1> DEFINE S == {Sector(p) : p \in Page}
           f == [p \in Page |-> Sector(p)]
<1>3. f \in Surjection(Page, S)
  BY DEF Surjection
<1>4. IsFiniteSet(S)
  BY <1>1, <1>3, FS_Surjection
<1> QED
  BY <1>1, <1>2, <1>4

-----------------------------------------------------------------------------
(* What the phases of a commit have established                            *)

(* The pages to be programmed, the sectors to be erased and those something *)
(* is asked for in.                                                        *)
Chosen ==
  IF flJob.double THEN {p \in Page : InList(p) /\ same[p] # "yes"}
  ELSE {p \in Page : InList(p) /\ NotAllSame(Sector(p))}
Sectors      == {Sector(p) : p \in Page}
Dirty        == {s \in Sectors : NotAllSame(s)}
TouchedIn(s) == \E q \in SectorOf(s) : Asked(q)
Clean(p)     == ~NotAllSame(Sector(p))
Built        == flPc \notin {"build", "failed"}
TargetDone   == running # NoCall /\ running.done

(* The types of the variables.                                             *)
FlashTypes ==
  /\ flJob \in FlashJobs /\ failures \in Nat /\ next \in Nat \ {0}
  /\ contents \in [Page -> Nat \X Nat] /\ pageData \in [Page -> Nat \X Nat]
  /\ same \in [Page -> {"absent", "unknown", "yes", "no"}]
  /\ flPc \in {"build", "estimate", "erase", "erased", "again", "program",
               "programmed", "done", "failed"}

(* A commit without a failed call starts from what was there before.       *)
FirstTry ==
  /\ flPc = "failed" => failures # 0
  /\ flPc = "build" /\ failures = 0 => contents = flJob.before

(* What no commit changes, whatever fails: sectors nothing is asked for in, *)
(* but for a chip erase. A half that was not asked for is erased or has    *)
(* what it had.                                                            *)
Untouched ==
  \A p \in Page :
    /\ ~flJob.wipe /\ ~TouchedIn(Sector(p)) => contents[p] = flJob.before[p]
    /\ \A half \in {1, 2} :
         flJob.wanted[p][half] = Keep => contents[p][half] \in {0, flJob.before[p][half]}

(* The pages of a builder: those asked for and, to keep what is there, the *)
(* others of their sectors.                                                *)
Lined ==
  /\ \A p \in Page : InList(p) <=> Asked(p) \/ (flJob.keep /\ p \in Gaps)
  /\ Lists(pageList, {p \in Page : InList(p)})
  /\ \A p \in Page : /\ ~flJob.smart => same[p] \in {"absent", "no"}
                     /\ same[p] = "unknown" => Asked(p)

(* Their data is what was asked for, and in the gaps what was read.        *)
Padding ==
  \A p \in Page, half \in {1, 2} :
    IF flJob.wanted[p][half] # Keep THEN pageData[p][half] = flJob.wanted[p][half]
    ELSE /\ pageData[p][half] \in {0, flJob.before[p][half]}
         /\ flJob.keep /\ failures = 0 => pageData[p][half] = flJob.before[p][half]
         /\ flJob.keep /\ flPc = "estimate" => pageData[p][half] = contents[p][half]

(* Before the comparison the pages asked for are unknown, and those filled *)
(* in are the same; after it none is unknown.                              *)
Uncompared ==
  flJob.smart =>
    \A p \in Page : InList(p) => same[p] = IF Asked(p) THEN "unknown" ELSE "yes"
Compared == \A p \in Page : same[p] # "unknown"

(* A page that is taken for the same is so in a sector that is not erased. *)
(* The scan sees to this, which a CRC that is trusted leaves out.          *)
SameIsClean ==
  flJob.double /\ flJob.analysis # "fast"
     => \A p \in Page : Asked(p) /\ same[p] = "yes" => Clean(p)

(* While sectors are erased: the clean ones have the data, those before    *)
(* next are erased, and those after it do not have what is asked for.      *)
Erasing ==
  /\ Compared /\ SameIsClean
  /\ \A p \in Page : InList(p) /\ Clean(p) => contents[p] = pageData[p]
  /\ \A i \in 1..Len(SectorsToErase) :
       IF i < next THEN \A p \in SectorOf(SectorsToErase[i]) : contents[p] = Erased
       ELSE flJob.smart /\ flJob.keep => Flash!Differs(SectorsToErase[i])

(* When they are erased, each page has its data or is erased.              *)
SectorsErased ==
  /\ Compared /\ SameIsClean
  /\ \A p \in Page : InList(p) => contents[p] = IF Clean(p) THEN pageData[p] ELSE Erased

(* What has not to be programmed has its data, but for pages filled in that *)
(* a chip erase has erased (the exception in CommitIsComplete).            *)
Settled ==
  /\ Compared
  /\ flJob.wipe /\ flJob.smart =>
       \A p \in Page : Asked(p) /\ pageData[p] # Erased => same[p] = "no"
  /\ \A p \in Page : InList(p) /\ Clean(p) =>
       contents[p] = pageData[p] \/ (flJob.wipe /\ flJob.smart /\ ~Asked(p))
  /\ flJob.double /\ flJob.analysis # "fast" =>
       \A p \in Page : Asked(p) /\ same[p] = "yes" => contents[p] = pageData[p]

(* The pages before next have their data, those after it are erased, and   *)
(* the one at next is what the call under way has made it.                 *)
Programming ==
  /\ running # NoCall => next <= Len(PagesToProgram)
  /\ \A i \in 1..Len(PagesToProgram) :
       LET p == PagesToProgram[i]
       IN IF i < next \/ (i = next /\ running # NoCall /\ running.done)
            THEN contents[p] = pageData[p]
            ELSE contents[p] = Erased

PagesDone == \A p \in Chosen : contents[p] = pageData[p]

(* What holds in each phase.                                               *)
Phases ==
  /\ flPc = "estimate" => Uncompared
  /\ flPc \in {"erase", "erased", "again"} /\ flJob.wipe => Uncompared
  /\ flPc \in {"erased", "again"} /\ flJob.wipe => contents = Blank
  /\ flPc = "erase" /\ ~flJob.wipe => Erasing
  /\ flPc \in {"erased", "again"} /\ ~flJob.wipe => SectorsErased
  /\ flPc \in {"program", "programmed", "done"} => Settled
  /\ flPc = "program" => Programming
  /\ flPc \in {"programmed", "done"} => PagesDone

CommitInv == FlashTypes /\ FirstTry /\ Untouched /\ (Built => Lined /\ Padding) /\ Phases

-----------------------------------------------------------------------------
(* The steps of a commit                                                   *)

(* The types of what is committed, and how.                                *)
LEMMA JobTypes ==
  ASSUME flJob \in FlashJobs
  PROVE  /\ flJob.before \in [Page -> Nat \X Nat] /\ flJob.wanted \in [Page -> Nat \X Nat]
         /\ flJob.smart \in BOOLEAN /\ flJob.keep \in BOOLEAN
         /\ flJob.wipe \in BOOLEAN /\ flJob.double \in BOOLEAN
         /\ flJob.analysis \in {"crc", "fast", "read", "none"}
         /\ flJob.keep => flJob.analysis # "none"
BY FlashAssumption DEF FlashAssumption

(* The pages to be programmed and the sectors to be erased are listed.     *)
LEMMA PagesInLine ==
  Lined => Lists(PagesToProgram, Chosen) /\ Lists(SectorsToErase, Dirty)
<1> SUFFICES ASSUME Lists(pageList, {p \in Page : InList(p)})
             PROVE  Lists(PagesToProgram, Chosen) /\ Lists(SectorsToErase, Dirty)
  BY DEF Lined
<1>1. Lists(SectorsToErase, Dirty)
  <2>1. Dirty \in SUBSET Int /\ IsFiniteSet(Dirty)
    BY SectorsAreNumbers, FS_Subset DEF Dirty, Sectors
  <2>2. Lists(Ascending(Dirty), Dirty)
    BY <2>1, AscendingLists
  <2> QED
    BY <2>2 DEF SectorsToErase, Dirty, Sectors
<1>2. CASE flJob.double
  <2> DEFINE S == {p \in Page : InList(p)}
  <2>1. S \in SUBSET Int
    BY SectorsAreNumbers
  <2>2. Lists(Nonsame(pageList, same), {p \in S : same[p] # "yes"})
    BY <2>1, NonsameLists
  <2>3. {p \in S : same[p] # "yes"} = Chosen
    BY <1>2 DEF Chosen
  <2> QED
    BY <1>1, <1>2, <2>2, <2>3 DEF PagesToProgram
<1>3. CASE ~flJob.double
  <2>1. Chosen \in SUBSET Int /\ IsFiniteSet(Chosen)
    BY <1>3, SectorsAreNumbers, FS_Subset DEF Chosen
  <2>2. Lists(Ascending(Chosen), Chosen)
    BY <2>1, AscendingLists
  <2> QED
    BY <1>1, <1>3, <2>2 DEF PagesToProgram, Chosen
<1> QED
  BY <1>2, <1>3

(* What the comparison decides of a page.                                  *)
LEMMA Comparison ==
  ASSUME FlashTypes, flJob.smart, Uncompared, Lined, NEW p \in Page
  PROVE  /\ Finalized \in [Page -> {"absent", "yes", "no"}]
         /\ (Finalized[p] # "absent") <=> InList(p)
         /\ Asked(p) /\ contents[p] # pageData[p] => Finalized[p] = "no"
         /\ Asked(p) /\ Finalized[p] = "yes" /\ flJob.analysis # "fast"
              => \A q \in SectorOf(Sector(p)) : Finalized[q] \in {"absent", "yes"}
         /\ flJob.analysis # "none" /\ Finalized[p] = "no"
              => \E q \in SectorOf(Sector(p)) : Asked(q) /\ contents[q] # pageData[q]
<1> DEFINE differs(q) == Asked(q) /\ contents[q] # pageData[q]
<1>1. \A q \in Page : /\ Asked(q) <=> same[q] = "unknown"
                      /\ InList(q) /\ ~Asked(q) <=> same[q] = "yes"
                      /\ InList(q) <=> same[q] # "absent"
  BY DEF FlashTypes, Uncompared, Lined, InList
<1>2. \A q \in Page : Sector(q) \in {Sector(r) : r \in Page} /\ q \in SectorOf(Sector(q))
  BY DEF SectorOf
<1>3. flJob.analysis \in {"crc", "fast", "read", "none"}
  BY JobTypes DEF FlashTypes
<1>4. CASE Unread = {}
  <2>1. \A q \in Page : same[q] # "unknown"
    BY <1>4 DEF Unread
  <2>2. Finalized = same
    BY <1>4 DEF Finalized
  <2>3. same \in [Page -> {"absent", "yes", "no"}]
    BY <2>1 DEF FlashTypes
  <2> QED
    BY <1>1, <2>1, <2>2, <2>3
<1>5. CASE Unread # {} /\ flJob.analysis = "none"
  <2>1. Estimated = [q \in Page |-> IF InList(q) THEN "no" ELSE "absent"]
    BY <1>5 DEF Estimated
  <2>2. \A q \in Page : Estimated[q] # "unknown"
    BY <2>1
  <2>3. Finalized = [q \in Page |-> IF InList(q) THEN "no" ELSE "absent"]
    BY <1>5, <2>1, <2>2 DEF Finalized
  <2>4. Asked(p) => InList(p)
    BY DEF Lined
  <2>5. Finalized \in [Page -> {"absent", "yes", "no"}]
    BY <2>3
  <2>6. Finalized[p] = IF InList(p) THEN "no" ELSE "absent"
    BY <2>3
  <2> QED
    BY <1>5, <2>4, <2>5, <2>6
<1>6. CASE Unread # {} /\ flJob.analysis # "none"
  <2> DEFINE E == Estimated
  <2>1. E = [q \in Page |->
               IF same[q] # "unknown" THEN same[q]
               ELSE IF flJob.analysis = "read"
                 THEN IF contents[q][1] # pageData[q][1] THEN "no" ELSE "unknown"
               ELSE IF contents[q] # pageData[q] THEN "no"
               ELSE IF flJob.analysis = "fast" THEN "yes" ELSE "unknown"]
    BY <1>6 DEF Estimated
  <2> HIDE DEF E
  <2>2. \A q \in Page : /\ ~Asked(q) => E[q] = same[q] /\ E[q] \in {"absent", "yes"}
                        /\ Asked(q) => E[q] \in {"no", "yes", "unknown"}
                        /\ E[q] = "no" => differs(q)
                        /\ Asked(q) /\ E[q] = "yes" => ~differs(q) /\ flJob.analysis = "fast"
    BY <1>1, <2>1 DEF FlashTypes
  <2>3. CASE \A q \in Page : E[q] # "unknown"
    <3>1. Finalized = E
      BY <1>6, <2>3 DEF Finalized, E
    <3>2. E \in [Page -> {"absent", "yes", "no"}]
      BY <2>1, <2>2, <2>3
    <3>3. \A q \in SectorOf(Sector(p)) : q \in Page
      BY DEF SectorOf
    <3>4. Asked(p) => InList(p)
      BY DEF Lined
    <3> QED
      BY <1>1, <1>2, <2>2, <2>3, <3>1, <3>2, <3>3, <3>4
  <2>4. CASE \E q \in Page : E[q] = "unknown"
    <3> DEFINE read == [q \in Page |-> IF E[q] # "unknown" THEN E[q]
                                       ELSE IF contents[q] = pageData[q] THEN "yes" ELSE "no"]
               dirty == {s \in {Sector(q) : q \in Page} : \E q \in SectorOf(s) : read[q] = "no"}
               F == Finalized
    <3>1. F = [q \in Page |-> IF read[q] # "absent" /\ Sector(q) \in dirty
                              THEN "no" ELSE read[q]]
      BY <1>6, <2>4 DEF Finalized, Scanned, E
    <3>2. \A q \in Page : /\ read[q] \in {"absent", "yes", "no"}
                          /\ (read[q] # "absent") <=> InList(q)
                          /\ (read[q] = "no") <=> differs(q)
      BY <1>1, <2>2
    <3>3. \A q \in Page : Sector(q) \in dirty <=> \E r \in SectorOf(Sector(q)) : read[r] = "no"
      BY <1>2
    <3> HIDE DEF read, dirty, F
    <3>4. F \in [Page -> {"absent", "yes", "no"}] /\ ((F[p] # "absent") <=> InList(p))
      BY <3>1, <3>2
    <3>5. \A q \in SectorOf(Sector(p)) : q \in Page /\ Sector(q) = Sector(p)
      BY DEF SectorOf
    <3>6. \A q \in Page : q \in SectorOf(Sector(q))
      BY <1>2
    <3>7. Asked(p) => InList(p)
      BY DEF Lined
    <3>8. differs(p) => F[p] = "no"
      BY <3>1, <3>2, <3>3, <3>6, <3>7
    <3>9. Asked(p) /\ F[p] = "yes" => \A q \in SectorOf(Sector(p)) : F[q] \in {"absent", "yes"}
      <4> SUFFICES ASSUME Asked(p), F[p] = "yes", NEW q \in SectorOf(Sector(p))
                   PROVE  F[q] \in {"absent", "yes"}
        OBVIOUS
      <4>1. Sector(p) \notin dirty
        BY <3>1, <3>2, <3>7
      <4>2. read[q] # "no" /\ Sector(q) \notin dirty /\ q \in Page
        BY <3>3, <3>5, <4>1
      <4> QED
        BY <3>1, <3>2, <4>2
    <3>10. F[p] = "no" => \E q \in SectorOf(Sector(p)) : differs(q)
      <4>1. F[p] = "no" => \E q \in SectorOf(Sector(p)) : read[q] = "no"
        BY <3>1, <3>2, <3>3, <3>6
      <4> QED
        BY <3>2, <3>5, <4>1
    <3> QED
      BY <3>4, <3>8, <3>9, <3>10 DEF F
  <2> QED
    BY <2>3, <2>4
<1> QED
  BY <1>4, <1>5, <1>6

(* A step that leaves the builder leaves all that is computed from it.     *)
LEMMA SameBuilder ==
  ASSUME UNCHANGED <<flJob, flBuilder>>
  PROVE  /\ Chosen' = Chosen /\ Dirty' = Dirty /\ Gaps' = Gaps
         /\ PagesToProgram' = PagesToProgram /\ SectorsToErase' = SectorsToErase
         /\ \A p : /\ Asked(p)' = Asked(p) /\ InList(p)' = InList(p)
                   /\ TouchedIn(p)' = TouchedIn(p) /\ Clean(p)' = Clean(p)
<1> USE DEF flBuilder
<1>1. PagesToProgram' = PagesToProgram
  BY SamePages
<1>2. Dirty' = Dirty /\ SectorsToErase' = SectorsToErase
  BY DEF Dirty, SectorsToErase, NotAllSame, Sectors, SectorOf
<1>3. Chosen' = Chosen
  BY DEF Chosen, NotAllSame, SectorOf, InList
<1>4. Gaps' = Gaps
  BY DEF Gaps, Asked, SectorOf
<1>5. \A p : /\ Asked(p)' = Asked(p) /\ InList(p)' = InList(p)
             /\ TouchedIn(p)' = TouchedIn(p) /\ Clean(p)' = Clean(p)
  BY DEF Asked, InList, TouchedIn, Clean, NotAllSame, SectorOf
<1> QED
  BY <1>1, <1>2, <1>3, <1>4, <1>5

(* What is asked for does not change.                                      *)
LEMMA SameRequest ==
  ASSUME flJob' = flJob
  PROVE  \A s : TouchedIn(s)' = TouchedIn(s)
BY DEF TouchedIn, Asked, SectorOf

(* A step that fails needs only to keep what no commit touches.            *)
LEMMA FailedStep ==
  ASSUME FlashTypes, flJob' = flJob, flPc' = "failed", OneFails, next' \in Nat \ {0},
         UNCHANGED flBuilder, contents' \in [Page -> Nat \X Nat], Untouched'
  PROVE  CommitInv'
<1>1. failures' \in Nat /\ failures' # 0
  BY DEF FlashTypes, OneFails
<1>2. FlashTypes'
  BY <1>1 DEF FlashTypes, flBuilder
<1> QED
  BY <1>1, <1>2 DEF CommitInv, FirstTry, Built, Phases

(* Steps that keep the flash, the shape of the builder, the phase.         *)
LEMMA SameFlash ==
  ASSUME Untouched, UNCHANGED <<flJob, contents>>
  PROVE  Untouched'
BY SameRequest DEF Untouched

LEMMA SameShape ==
  ASSUME Lined, Padding, failures \in Nat, failures' \in {failures, failures + 1},
         UNCHANGED <<flJob, pageList, pageData>>,
         flPc' = "estimate" => flPc = "estimate" /\ UNCHANGED contents,
         same' = same
  PROVE  Lined' /\ Padding'
<1>1. failures' = 0 => failures = 0
  OBVIOUS
<1>2. Padding'
  BY <1>1 DEF Padding
<1>3. Lined'
  BY SameBuilder DEF Lined, flBuilder
<1> QED
  BY <1>2, <1>3

LEMMA KeptPhase ==
  ASSUME Phases, UNCHANGED <<flJob, flBuilder, contents, flPc, next>>, TargetDone' = TargetDone,
         running' # NoCall => running # NoCall \/ next <= Len(PagesToProgram)
  PROVE  Phases'
<1> USE SameBuilder DEF flBuilder
<1>1. Uncompared' = Uncompared /\ Compared' = Compared
  BY DEF Uncompared, Compared
<1>2. SameIsClean' = SameIsClean
  BY DEF SameIsClean
<1>3. Erasing => Erasing'
  BY <1>1, <1>2 DEF Erasing, Flash!Differs, SectorOf
<1>4. SectorsErased => SectorsErased'
  BY <1>1, <1>2 DEF SectorsErased
<1>5. Settled => Settled'
  BY <1>1 DEF Settled
<1>6. Programming => Programming'
  BY DEF Programming, TargetDone
<1>7. PagesDone => PagesDone'
  BY DEF PagesDone
<1>8. Blank' = Blank
  BY DEF Blank
<1> QED
  BY <1>1, <1>3, <1>4, <1>5, <1>6, <1>7, <1>8 DEF Phases

(* A step of the calls or the buffers that keeps flash, builder and phase. *)
LEMMA KeptStep ==
  ASSUME CommitInv, UNCHANGED <<flJob, flBuilder, contents, flPc, next>>,
         TargetDone' = TargetDone,
         running' # NoCall => running # NoCall \/ next <= Len(PagesToProgram),
         failures' \in {failures, failures + 1}
  PROVE  CommitInv'
<1>1. failures \in Nat /\ failures' \in Nat
  BY DEF CommitInv, FlashTypes
<1>2. FlashTypes'
  BY <1>1 DEF CommitInv, FlashTypes, flBuilder
<1>3. FirstTry'
  BY <1>1 DEF CommitInv, FirstTry
<1>4. Untouched'
  BY SameFlash DEF CommitInv
<1>5. Built' => Lined' /\ Padding'
  BY <1>1, SameShape DEF CommitInv, Built, flBuilder
<1>6. Phases'
  BY KeptPhase DEF CommitInv
<1> QED
  BY <1>2, <1>3, <1>4, <1>5, <1>6 DEF CommitInv

(* It holds at the start, and each step keeps it.                          *)
LEMMA InitCommits == FlashInit => CommitInv
<1> SUFFICES ASSUME FlashInit PROVE CommitInv
  OBVIOUS
<1>1. flJob.before \in [Page -> Nat \X Nat]
  BY JobTypes DEF FlashInit
<1>2. FlashTypes
  BY <1>1 DEF FlashInit, FlashTypes, Blank, Erased
<1>3. Untouched
  BY DEF FlashInit, Untouched
<1> QED
  BY <1>2, <1>3 DEF FlashInit, CommitInv, FirstTry, Built, Phases

LEMMA CallsCommit ==
  ASSUME CommitInv, BufferInv, CallInit \/ AlreadyInited \/ CallUnInit
  PROVE  CommitInv'
<1>1. /\ UNCHANGED <<flJob, flBuilder, contents, next, running>>
      /\ \/ flPc' = flPc /\ failures' \in {failures, failures + 1}
         \/ flPc' = "failed" /\ OneFails
  BY DEF CallInit, AlreadyInited, CallUnInit, RaiseFlash, OneFails, flTarget, flBuffers
<1>2. CASE flPc' = "failed" /\ OneFails
  BY <1>1, <1>2, SameFlash, FailedStep DEF CommitInv, FlashTypes
<1> QED
  BY <1>1, <1>2, KeptStep DEF TargetDone

LEMMA BuildCommits ==
  ASSUME CommitInv, Build
  PROVE  CommitInv'
<1> DEFINE asked   == {p \in Page : Asked(p)}
           missing == IF flJob.keep THEN {p \in Gaps : ~Asked(p)} ELSE {}
<1>1. /\ flPc = "build" /\ flPc' = "estimate" /\ UNCHANGED <<flJob, contents, failures, next>>
      /\ pageList' = Ascending(asked) \o Ascending(missing)
      /\ pageData' = [p \in Page |-> <<Filled(p, 1), Filled(p, 2)>>]
      /\ same' = [p \in Page |-> IF p \notin asked \cup missing THEN "absent"
                                 ELSE IF ~flJob.smart THEN "no"
                                 ELSE IF p \in asked THEN "unknown" ELSE "yes"]
  BY DEF Build, Prepared, flTarget
<1>2. /\ asked \in SUBSET Int /\ missing \in SUBSET Int /\ asked \cap missing = {}
      /\ IsFiniteSet(asked) /\ IsFiniteSet(missing)
      /\ asked \subseteq Page /\ missing \subseteq Page
      /\ \A p \in Page : p \in missing <=> flJob.keep /\ p \in Gaps /\ ~Asked(p)
  <2>1. asked \subseteq Page /\ missing \subseteq Page
    BY DEF Gaps
  <2> QED
    BY <2>1, SectorsAreNumbers, FS_Subset
<1>3. /\ \A p : Asked(p)' = Asked(p)
      /\ Gaps' = Gaps
  BY <1>1 DEF Asked, Gaps, SectorOf
<1>4. \A p \in Page : p \in asked <=> Asked(p)
  OBVIOUS
<1>5. Lists(Ascending(asked) \o Ascending(missing), asked \cup missing)
  <2>1. Lists(Ascending(asked), asked) /\ Lists(Ascending(missing), missing)
    BY <1>2, AscendingLists
  <2> QED
    BY <1>2, <2>1, ListsJoin
<1> HIDE DEF asked, missing
<1>6. same' \in [Page -> {"absent", "unknown", "yes", "no"}]
  BY <1>1
<1>7. \A p \in Page : InList(p)' <=> p \in asked \cup missing
  BY <1>1 DEF InList
<1>8. Lined'
  <2>1. {p \in Page : InList(p)'} = asked \cup missing
    BY <1>2, <1>7
  <2>2. Lists(pageList', {p \in Page : InList(p)'})
    BY <1>1, <1>5, <2>1
  <2>3. \A p \in Page : InList(p)' <=> Asked(p)' \/ (flJob'.keep /\ p \in Gaps')
    BY <1>1, <1>2, <1>3, <1>4, <1>7
  <2>4. \A p \in Page : /\ ~flJob'.smart => same'[p] \in {"absent", "no"}
                        /\ same'[p] = "unknown" => Asked(p)'
    BY <1>1, <1>3, <1>4
  <2>5. Lists(pageList, {p \in Page : InList(p)})'
    BY <2>2 DEF Lists
  <2> QED
    BY <2>3, <2>4, <2>5 DEF Lined
<1>9. Uncompared'
  BY <1>1, <1>3, <1>4, <1>7 DEF Uncompared
<1>10. \A p \in Page, half \in {1, 2} :
         /\ Filled(p, half) \in Nat
         /\ pageData'[p][half] = Filled(p, half)
  BY <1>1, JobTypes DEF CommitInv, FlashTypes, Filled
<1>11. pageData' \in [Page -> Nat \X Nat]
  BY <1>1, <1>10
<1>12. Padding'
  <2> SUFFICES ASSUME NEW p \in Page, NEW half \in {1, 2}
               PROVE  IF flJob.wanted[p][half] # Keep
                        THEN pageData'[p][half] = flJob.wanted[p][half]
                        ELSE /\ pageData'[p][half] \in {0, flJob.before[p][half]}
                             /\ flJob.keep /\ failures = 0
                                  => pageData'[p][half] = flJob.before[p][half]
                             /\ flJob.keep => pageData'[p][half] = contents[p][half]
    BY <1>1 DEF Padding
  <2>1. pageData'[p][half] = Filled(p, half)
    BY <1>10
  <2>2. failures = 0 => contents = flJob.before
    BY <1>1 DEF CommitInv, FirstTry
  <2>3. flJob.wanted[p][half] = Keep => contents[p][half] \in {0, flJob.before[p][half]}
    BY DEF CommitInv, Untouched
  <2> QED
    BY <2>1, <2>2, <2>3 DEF Filled
<1>13. FlashTypes'
  BY <1>1, <1>6, <1>11 DEF CommitInv, FlashTypes
<1>14. Untouched'
  BY <1>1, SameFlash DEF CommitInv
<1> QED
  BY <1>1, <1>8, <1>9, <1>12, <1>13, <1>14 DEF CommitInv, FirstTry, Phases

(* A page of a sector that is not clean differs, and so does one not to be *)
(* compared.                                                               *)
LEMMA CleanPages ==
  ASSUME NEW p \in Page
  PROVE  /\ Clean(p) => same[p] \in {"absent", "yes"}
         /\ \A q \in SectorOf(Sector(p)) : q \in Page /\ (Clean(q) <=> Clean(p))
         /\ p \in SectorOf(Sector(p)) /\ Sector(p) \in Sectors
         /\ Sector(p) \in Dirty <=> ~Clean(p)
BY DEF Clean, NotAllSame, SectorOf, Sectors, Dirty

(* Without unknown pages the comparison changes nothing.                   *)
LEMMA NothingToCompare == Compared => Finalized = same
BY DEF Compared, Finalized, Unread

(* The same after a step.                                                  *)
LEMMA PagesInLineNext ==
  Lined' => Lists(PagesToProgram', Chosen') /\ Lists(SectorsToErase', Dirty')
<1>1. (Lined => Lists(PagesToProgram, Chosen) /\ Lists(SectorsToErase, Dirty))'
  BY PagesInLine, PTL
<1> QED
  BY <1>1 DEF Lists

(* Shape and types are kept when only flags of pages in the list change.   *)
LEMMA ComparedShape ==
  ASSUME Lined, Padding, UNCHANGED <<flJob, pageList, pageData, failures>>, flPc' # "estimate",
         \A p \in Page : InList(p)' <=> InList(p),
         \A p \in Page : ~flJob.smart => same'[p] \in {"absent", "no"},
         \A p \in Page : same'[p] # "unknown"
  PROVE  Lined' /\ Padding'
<1>1. /\ \A p : Asked(p)' = Asked(p)
      /\ Gaps' = Gaps
  BY DEF Asked, Gaps, SectorOf
<1>2. {p \in Page : InList(p)'} = {p \in Page : InList(p)}
  OBVIOUS
<1>3. Lists(pageList, {p \in Page : InList(p)})'
  BY <1>2 DEF Lists, Lined
<1>4. Lined'
  BY <1>1, <1>3 DEF Lined
<1>5. Padding'
  BY DEF Padding
<1> QED
  BY <1>4, <1>5

(* The same for all pages, in a region that has pages or none.             *)
LEMMA Comparisons ==
  ASSUME FlashTypes, flJob.smart, Uncompared, Lined
  PROVE  /\ Finalized \in [Page -> {"absent", "yes", "no"}]
         /\ \A p \in Page :
              /\ (Finalized[p] # "absent") <=> InList(p)
              /\ Asked(p) /\ contents[p] # pageData[p] => Finalized[p] = "no"
              /\ Asked(p) /\ Finalized[p] = "yes" /\ flJob.analysis # "fast"
                   => \A q \in SectorOf(Sector(p)) : Finalized[q] \in {"absent", "yes"}
              /\ flJob.analysis # "none" /\ Finalized[p] = "no"
                   => \E q \in SectorOf(Sector(p)) : Asked(q) /\ contents[q] # pageData[q]
<1>1. CASE Page = {}
  <2>1. Finalized = [p \in Page |-> "no"]
    BY <1>1 DEF Finalized, Estimated, Scanned, FlashTypes
  <2> QED
    BY <1>1, <2>1
<1>2. CASE Page # {}
  BY <1>2, Comparison
<1> QED
  BY <1>1, <1>2

(* The comparison before sectors are erased; without it, before a chip     *)
(* erase, nothing is compared, or nothing is the same.                     *)
LEMMA EstimateFirst ==
  ASSUME CommitInv, Estimate, flPc = "estimate"
  PROVE  CommitInv'
<1>1. /\ flPc' = "erase" /\ next' = 1 /\ UNCHANGED <<flJob, contents, failures, pageList, pageData>>
      /\ Uncompared /\ Lined /\ Padding /\ FlashTypes
      /\ same' = IF flJob.smart /\ ~flJob.wipe THEN Finalized ELSE same
  BY DEF Estimate, flTarget, CommitInv, Built, Phases
<1>2. Untouched' /\ FirstTry'
  BY <1>1, SameFlash DEF CommitInv, FirstTry
<1>3. CASE ~(flJob.smart /\ ~flJob.wipe)
  <2>1. same' = same /\ UNCHANGED <<flJob, flBuilder>>
    BY <1>1, <1>3 DEF flBuilder
  <2>2. FlashTypes'
    BY <1>1, <2>1 DEF FlashTypes
  <2>3. Lined' /\ Padding'
    BY <1>1, <2>1, SameShape DEF FlashTypes
  <2>4. CASE flJob.wipe
    <3>1. Uncompared'
      BY <1>1, <2>1, SameBuilder DEF Uncompared
    <3> QED
      BY <1>1, <1>2, <2>2, <2>3, <2>4, <3>1 DEF CommitInv, Phases
  <2>5. CASE ~flJob.wipe /\ ~flJob.smart
    <3>1. \A p \in Page : same'[p] \in {"absent", "no"}
      BY <1>1, <2>1, <2>5 DEF Lined
    <3>2. \A p \in Page : InList(p)' => ~Clean(p)'
      BY <2>1, <3>1, CleanPages, SameBuilder DEF InList
    <3>3. Erasing'
      <4>1. Compared' /\ SameIsClean'
        BY <3>1 DEF Compared, SameIsClean
      <4>2. \A i \in 1..Len(SectorsToErase') : ~(i < next')
        BY <1>1
      <4> QED
        BY <1>1, <2>5, <3>2, <4>1, <4>2 DEF Erasing
    <3> QED
      BY <1>1, <1>2, <2>2, <2>3, <2>5, <3>3 DEF CommitInv, Phases
  <2> QED
    BY <1>1, <1>3, <2>4, <2>5, JobTypes DEF FlashTypes
<1>4. CASE flJob.smart /\ ~flJob.wipe
  <2> DEFINE F == Finalized
  <2>1. /\ F \in [Page -> {"absent", "yes", "no"}]
        /\ \A p \in Page :
             /\ (F[p] # "absent") <=> InList(p)
             /\ Asked(p) /\ contents[p] # pageData[p] => F[p] = "no"
             /\ Asked(p) /\ F[p] = "yes" /\ flJob.analysis # "fast"
                  => \A q \in SectorOf(Sector(p)) : F[q] \in {"absent", "yes"}
             /\ flJob.analysis # "none" /\ F[p] = "no"
                  => \E q \in SectorOf(Sector(p)) : Asked(q) /\ contents[q] # pageData[q]
    BY <1>1, <1>4, Comparisons
  <2>2. same' = F
    BY <1>1, <1>4
  <2> HIDE DEF F
  <2>3. FlashTypes'
    BY <1>1, <2>1, <2>2 DEF FlashTypes
  <2>4. \A p \in Page : InList(p)' <=> InList(p)
    BY <2>1, <2>2 DEF InList
  <2>5. Lined' /\ Padding'
    BY <1>1, <1>4, <2>1, <2>2, <2>4, ComparedShape
  <2>6. \A p : Asked(p)' = Asked(p)
    BY <1>1 DEF Asked
  <2>7. Compared'
    BY <2>1, <2>2 DEF Compared
  <2>8. SameIsClean'
    BY <1>1, <2>1, <2>2, <2>6 DEF SameIsClean, Clean, NotAllSame, SectorOf
  <2>9. \A p \in Page : (InList(p) /\ Clean(p))' => contents'[p] = pageData'[p]
    <3> SUFFICES ASSUME NEW p \in Page, InList(p)', Clean(p)'
                 PROVE  contents[p] = pageData[p]
      BY <1>1
    <3>1. same'[p] \in {"absent", "yes"}
      BY CleanPages DEF Clean, NotAllSame, SectorOf
    <3>2. CASE Asked(p)
      BY <2>1, <2>2, <3>1, <3>2
    <3>3. CASE ~Asked(p)
      <4>1. flJob.keep /\ flPc = "estimate"
        BY <1>1, <2>4, <3>3 DEF Lined, CommitInv, Estimate
      <4>2. flJob.wanted[p][1] = Keep /\ flJob.wanted[p][2] = Keep
        BY <3>3 DEF Asked
      <4>3. pageData[p][1] = contents[p][1] /\ pageData[p][2] = contents[p][2]
        BY <1>1, <4>1, <4>2 DEF Padding
      <4>4. pageData[p] \in Nat \X Nat /\ contents[p] \in Nat \X Nat
        BY <1>1 DEF FlashTypes
      <4> QED
        BY <4>3, <4>4
    <3> QED
      BY <3>2, <3>3
  <2>10. ASSUME NEW i \in 1..Len(SectorsToErase'), flJob.smart, flJob.keep
         PROVE  Flash!Differs(SectorsToErase[i])'
    <3>1. Lists(SectorsToErase', Dirty')
      BY <2>5, PagesInLineNext
    <3>2. SectorsToErase[i]' \in Dirty'
      BY <3>1 DEF Lists
    <3> DEFINE s == SectorsToErase'[i]
    <3>3. PICK p \in Page : Sector(p) = s /\ same'[p] \notin {"absent", "yes"}
      BY <3>2 DEF Dirty, NotAllSame, SectorOf
    <3>4. flJob.analysis # "none" /\ F[p] = "no"
      BY <1>1, <2>1, <2>2, <2>10, <3>3, JobTypes DEF FlashTypes
    <3>5. PICK q \in SectorOf(Sector(p)) : Asked(q) /\ contents[q] # pageData[q]
      BY <2>1, <3>4
    <3>6. q \in Page /\ Sector(q) = s
      BY <3>3 DEF SectorOf
    <3>7. pageData[q] \in Nat \X Nat /\ contents[q] \in Nat \X Nat
      BY <1>1, <3>6 DEF FlashTypes
    <3>8. PICK half \in {1, 2} : contents[q][half] # pageData[q][half]
      BY <3>5, <3>7
    <3>9. flPc = "estimate"
      BY DEF CommitInv
    <3>10. flJob.wanted[q][half] # Keep /\ pageData[q][half] = flJob.wanted[q][half]
      BY <1>1, <2>10, <3>6, <3>8, <3>9 DEF Padding
    <3>11. ~Flash!Holds(contents[q], flJob.wanted[q])
      BY <3>8, <3>10 DEF Flash!Holds
    <3>12. ~Flash!Holds(contents'[q], flJob'.wanted[q])
      BY <1>1, <3>11
    <3> QED
      BY <3>6, <3>12 DEF Flash!Differs
  <2>11. Erasing'
    <3>1. \A i \in 1..Len(SectorsToErase') : ~(i < next')
      BY <1>1
    <3> QED
      BY <1>1, <2>7, <2>8, <2>9, <2>10, <3>1 DEF Erasing
  <2> QED
    BY <1>1, <1>2, <1>4, <2>3, <2>5, <2>11 DEF CommitInv, Phases
<1> QED
  BY <1>3, <1>4

(* Before the first page is programmed, all pages to be programmed are     *)
(* erased.                                                                 *)
LEMMA ProgramBegins ==
  ASSUME Lined', next' = 1, running' = NoCall,
         \A p \in Page : (p \in Chosen)' => contents'[p] = Erased
  PROVE  Programming'
<1>1. Lists(PagesToProgram', Chosen')
  BY PagesInLineNext
<1>2. \A i \in 1..Len(PagesToProgram') :
        PagesToProgram'[i] \in Chosen' /\ PagesToProgram'[i] \in Page
  BY <1>1 DEF Lists, Chosen
<1>3. \A i \in 1..Len(PagesToProgram') : contents'[PagesToProgram'[i]] = Erased
  BY <1>2
<1>4. \A i \in 1..Len(PagesToProgram') :
        ~(i < next' \/ (i = next' /\ running' # NoCall /\ running'.done))
  OBVIOUS
<1> QED
  BY <1>3, <1>4 DEF Programming

(* The comparison before programming: of pages that are erased after a chip *)
(* erase, and of none after sectors were erased.                           *)
LEMMA EstimateAgain ==
  ASSUME CommitInv, BufferInv, Estimate, flPc = "again"
  PROVE  CommitInv'
<1>1. /\ flPc' = "program" /\ next' = 1
      /\ UNCHANGED <<flJob, contents, failures, pageList, pageData>>
      /\ Lined /\ Padding /\ FlashTypes /\ running' = NoCall
      /\ same' = IF flJob.smart THEN Finalized ELSE same
      /\ flJob.wipe => Uncompared /\ contents = Blank
      /\ ~flJob.wipe => SectorsErased
  BY DEF Estimate, flTarget, flBuffers, CommitInv, Built, Phases, BufferInv, BuffersInUse
<1>2. Untouched' /\ FirstTry'
  BY <1>1, SameFlash DEF CommitInv, FirstTry
<1>3. \A p : Asked(p)' = Asked(p)
  BY <1>1 DEF Asked
<1>4. CASE ~(flJob.smart /\ flJob.wipe)
  <2>1. Compared
    BY <1>1, <1>4 DEF SectorsErased, Compared, Lined
  <2>2. same' = same /\ UNCHANGED <<flJob, flBuilder>>
    BY <1>1, <2>1, NothingToCompare DEF flBuilder
  <2>3. FlashTypes'
    BY <1>1, <2>2 DEF FlashTypes
  <2>4. Lined' /\ Padding'
    BY <1>1, <2>2, SameShape DEF FlashTypes
  <2>5. ASSUME NEW p \in Page, InList(p)
        PROVE  contents[p] = IF Clean(p) THEN pageData[p] ELSE Erased
    <3>1. CASE ~flJob.wipe
      BY <1>1, <2>5, <3>1 DEF SectorsErased
    <3>2. CASE flJob.wipe
      <4>1. same[p] = "no"
        BY <1>1, <1>4, <2>5, <3>2 DEF Lined, InList
      <4> QED
        BY <1>1, <3>2, <4>1, CleanPages DEF Blank
    <3> QED
      BY <3>1, <3>2
  <2>6. Settled'
    <3>1. Compared'
      BY <2>1, <2>2 DEF Compared
    <3>2. flJob.double /\ flJob.analysis # "fast"
            => \A p \in Page : Asked(p) /\ same[p] = "yes" => contents[p] = pageData[p]
      <4> SUFFICES ASSUME flJob.double, flJob.analysis # "fast", NEW p \in Page, Asked(p),
                          same[p] = "yes"
                   PROVE  contents[p] = pageData[p]
        OBVIOUS
      <4>1. InList(p)
        BY DEF InList
      <4>2. ~flJob.wipe
        BY <1>1, <1>4 DEF Lined
      <4>3. Clean(p)
        BY <1>1, <4>2 DEF SectorsErased, SameIsClean
      <4> QED
        BY <2>5, <4>1, <4>3
    <3>3. \A p \in Page : InList(p) /\ Clean(p) => contents[p] = pageData[p]
      BY <2>5
    <3> QED
      BY <1>1, <1>3, <1>4, <2>2, <3>1, <3>2, <3>3, SameBuilder DEF Settled
  <2>7. \A p \in Page : (p \in Chosen)' => contents'[p] = Erased
    <3> SUFFICES ASSUME NEW p \in Page, p \in Chosen PROVE contents[p] = Erased
      BY <1>1, <2>2, SameBuilder
    <3>1. InList(p)
      BY DEF Chosen
    <3>2. ~Clean(p)
      BY <3>1, CleanPages DEF Chosen, Clean, InList
    <3> QED
      BY <2>5, <3>1, <3>2
  <2>8. Programming'
    BY <1>1, <2>4, <2>7, ProgramBegins
  <2> QED
    BY <1>1, <1>2, <2>3, <2>4, <2>6, <2>8 DEF CommitInv, Phases
<1>5. CASE flJob.smart /\ flJob.wipe
  <2> DEFINE F == Finalized
  <2>1. /\ F \in [Page -> {"absent", "yes", "no"}]
        /\ \A p \in Page :
             /\ (F[p] # "absent") <=> InList(p)
             /\ Asked(p) /\ contents[p] # pageData[p] => F[p] = "no"
    BY <1>1, <1>5, Comparisons
  <2>2. same' = F
    BY <1>1, <1>5
  <2> HIDE DEF F
  <2>3. FlashTypes'
    BY <1>1, <2>1, <2>2 DEF FlashTypes
  <2>4. \A p \in Page : InList(p)' <=> InList(p)
    BY <2>1, <2>2 DEF InList
  <2>5. Lined' /\ Padding'
    BY <1>1, <1>5, <2>1, <2>2, <2>4, ComparedShape
  <2>6. \A p \in Page : contents[p] = Erased
    BY <1>1, <1>5 DEF Blank
  <2>7. Settled'
    <3>1. Compared'
      BY <2>1, <2>2 DEF Compared
    <3>2. \A p \in Page : Asked(p)' /\ pageData'[p] # Erased => same'[p] = "no"
      BY <1>1, <1>3, <2>1, <2>2, <2>6
    <3>3. \A p \in Page : Asked(p)' /\ same'[p] = "yes" => contents'[p] = pageData'[p]
      BY <1>1, <1>3, <2>1, <2>2
    <3>4. \A p \in Page : InList(p)' /\ Clean(p)' => contents'[p] = pageData'[p] \/ ~Asked(p)'
      <4> SUFFICES ASSUME NEW p \in Page, Clean(p)', Asked(p)' PROVE same'[p] # "no"
        BY <1>1, <1>3, <2>1, <2>2
      <4> QED
        BY DEF Clean, NotAllSame, SectorOf
    <3> QED
      BY <1>1, <1>5, <3>1, <3>2, <3>3, <3>4 DEF Settled
  <2>8. \A p \in Page : (p \in Chosen)' => contents'[p] = Erased
    BY <1>1, <2>6
  <2>9. Programming'
    BY <1>1, <2>5, <2>8, ProgramBegins
  <2> QED
    BY <1>1, <1>2, <2>3, <2>5, <2>7, <2>9 DEF CommitInv, Phases
<1> QED
  BY <1>4, <1>5

(* A sector is erased only if something in it is asked for, and what else  *)
(* is kept outlives the erase and the programming of a page.               *)
LEMMA DirtyIsTouched ==
  ASSUME Lined, NEW s \in Dirty
  PROVE  TouchedIn(s)
<1>1. PICK p \in Page : Sector(p) = s /\ same[p] \notin {"absent", "yes"}
  BY DEF Dirty, NotAllSame, SectorOf
<1>2. Asked(p) \/ p \in Gaps
  BY <1>1 DEF Lined, InList
<1> QED
  BY <1>1, <1>2 DEF Gaps, TouchedIn, SectorOf

LEMMA SectorErased ==
  ASSUME FlashTypes, Untouched, NEW s, TouchedIn(s), flJob' = flJob, contents' = After(s)
  PROVE  Untouched' /\ contents' \in [Page -> Nat \X Nat]
<1>1. \A p \in Page : contents'[p] = IF Sector(p) = s THEN Erased ELSE contents[p]
  BY DEF After
<1>2. contents' \in [Page -> Nat \X Nat]
  BY DEF After, Erased, FlashTypes
<1>3. Untouched'
  BY <1>1, SameRequest DEF Untouched, Erased
<1> QED
  BY <1>2, <1>3

LEMMA EraseCommits ==
  ASSUME CommitInv, EraseNext
  PROVE  CommitInv'
<1> DEFINE s == SectorsToErase[next]
<1>1. /\ flPc = "erase" /\ ~flJob.wipe /\ next \in 1..Len(SectorsToErase)
      /\ UNCHANGED <<flJob, flBuilder>>
      /\ FlashTypes /\ Untouched /\ Lined /\ Padding /\ Erasing
  BY DEF EraseNext, CommitInv, Built, Phases, FlashTypes
<1>2. Lists(SectorsToErase, Dirty) /\ s \in Dirty /\ TouchedIn(s)
  <2>1. Lists(SectorsToErase, Dirty)
    BY <1>1, PagesInLine
  <2>2. s \in Dirty
    BY <1>1, <2>1 DEF Lists
  <2> QED
    BY <1>1, <2>1, <2>2, DirtyIsTouched
<1> HIDE DEF s
<1>3. CASE OneFails /\ flPc' = "failed" /\ next' = next /\ contents' \in {contents, After(s)}
  <2>1. Untouched' /\ contents' \in [Page -> Nat \X Nat]
    BY <1>1, <1>2, <1>3, SectorErased, SameFlash DEF FlashTypes
  <2> QED
    BY <1>1, <1>3, <2>1, FailedStep DEF FlashTypes
<1>4. CASE contents' = After(s) /\ next' = next + 1 /\ UNCHANGED <<failures, flPc>>
  <2>1. Untouched' /\ contents' \in [Page -> Nat \X Nat]
    BY <1>1, <1>2, <1>4, SectorErased
  <2>2. FlashTypes'
    BY <1>1, <1>4, <2>1 DEF FlashTypes, flBuilder
  <2>3. Lined' /\ Padding'
    BY <1>1, <1>4, SameShape DEF FlashTypes, flBuilder
  <2>4. \A p \in Page : contents'[p] = IF Sector(p) = s THEN Erased ELSE contents[p]
    BY <1>4 DEF After
  <2>5. Compared' /\ SameIsClean'
    BY <1>1, SameBuilder DEF Erasing, Compared, SameIsClean, flBuilder
  <2>6. \A p \in Page : (InList(p) /\ Clean(p))' => contents'[p] = pageData'[p]
    <3> SUFFICES ASSUME NEW p \in Page, InList(p), Clean(p) PROVE contents'[p] = pageData[p]
      BY <1>1, SameBuilder DEF flBuilder
    <3>1. Sector(p) # s
      BY <1>2, CleanPages
    <3> QED
      BY <1>1, <2>4, <3>1 DEF Erasing
  <2>7. ASSUME NEW i \in 1..Len(SectorsToErase)
        PROVE  IF i < next + 1 THEN \A p \in SectorOf(SectorsToErase[i]) : contents'[p] = Erased
               ELSE flJob.smart /\ flJob.keep => Flash!Differs(SectorsToErase[i])'
    <3>1. \A p \in SectorOf(SectorsToErase[i]) : p \in Page /\ Sector(p) = SectorsToErase[i]
      BY DEF SectorOf
    <3>2. CASE i < next
      <4>1. \A p \in SectorOf(SectorsToErase[i]) : contents[p] = Erased
        BY <1>1, <3>2 DEF Erasing
      <4>2. \A p \in SectorOf(SectorsToErase[i]) : contents'[p] = Erased
        BY <2>4, <3>1, <4>1
      <4>3. i < next + 1
        BY <1>1, <3>2
      <4> QED
        BY <4>2, <4>3
    <3>3. CASE i = next
      BY <1>1, <2>4, <3>1, <3>3 DEF s, FlashTypes
    <3>4. CASE i > next
      <4>1. SectorsToErase[i] # s
        BY <1>1, <1>2, <3>4 DEF Lists, s
      <4>2. SectorsToErase[i]' = SectorsToErase[i]
        BY <1>1, SameBuilder
      <4>3. flJob.smart /\ flJob.keep => Flash!Differs(SectorsToErase[i])
        BY <1>1, <3>4 DEF Erasing, FlashTypes
      <4>4. flJob.smart /\ flJob.keep => Flash!Differs(SectorsToErase[i])'
        BY <1>1, <2>4, <4>1, <4>2, <4>3 DEF Flash!Differs
      <4>5. ~(i < next + 1)
        BY <1>1, <3>4 DEF FlashTypes
      <4> QED
        BY <4>4, <4>5
    <3>5. i < next \/ i = next \/ i > next
      BY <1>1 DEF FlashTypes
    <3> QED
      BY <3>2, <3>3, <3>4, <3>5
  <2>8. Erasing'
    <3>1. /\ SectorsToErase' = SectorsToErase /\ \A t : SectorOf(t)' = SectorOf(t)
          /\ next' = next + 1
      BY <1>1, <1>4, SameBuilder DEF SectorOf
    <3> QED
      BY <1>1, <2>5, <2>6, <2>7, <3>1 DEF Erasing
  <2> QED
    BY <1>1, <1>4, <2>1, <2>2, <2>3, <2>8 DEF CommitInv, FirstTry, Phases
<1> QED
  BY <1>3, <1>4 DEF EraseNext, s

LEMMA WipeCommits ==
  ASSUME CommitInv, EraseAll
  PROVE  CommitInv'
<1>1. /\ flPc = "erase" /\ flJob.wipe /\ UNCHANGED <<flJob, flBuilder, next>>
      /\ FlashTypes /\ Untouched /\ Lined /\ Padding /\ Uncompared
  BY DEF EraseAll, CommitInv, Built, Phases
<1>2. contents' = Blank => Untouched' /\ contents' \in [Page -> Nat \X Nat]
  BY <1>1 DEF Untouched, Blank, Erased
<1>3. CASE OneFails /\ flPc' = "failed" /\ contents' \in {contents, Blank}
  <2>1. Untouched' /\ contents' \in [Page -> Nat \X Nat]
    BY <1>1, <1>2, <1>3, SameFlash DEF FlashTypes
  <2> QED
    BY <1>1, <1>3, <2>1, FailedStep DEF FlashTypes
<1>4. CASE contents' = Blank /\ flPc' = "erased" /\ UNCHANGED failures
  <2>1. FlashTypes'
    BY <1>1, <1>2, <1>4 DEF FlashTypes, flBuilder
  <2>2. Lined' /\ Padding'
    BY <1>1, <1>4, SameShape DEF FlashTypes, flBuilder
  <2>3. Uncompared'
    BY <1>1, SameBuilder DEF Uncompared, flBuilder
  <2>4. Blank' = Blank
    BY DEF Blank
  <2> QED
    BY <1>1, <1>2, <1>4, <2>1, <2>2, <2>3, <2>4 DEF CommitInv, FirstTry, Phases
<1> QED
  BY <1>3, <1>4 DEF EraseAll

LEMMA EraseDoneCommits ==
  ASSUME CommitInv, EraseDone
  PROVE  CommitInv'
<1>1. /\ flPc = "erase" /\ flPc' = "erased" /\ ~flJob.wipe /\ next > Len(SectorsToErase)
      /\ UNCHANGED <<flJob, flBuilder, contents, failures, next>>
      /\ FlashTypes /\ Untouched /\ Lined /\ Padding /\ Erasing
  BY DEF EraseDone, CommitInv, Built, Phases, flTarget
<1>2. FlashTypes' /\ Untouched'
  BY <1>1, SameFlash DEF FlashTypes, flBuilder
<1>3. Lined' /\ Padding'
  BY <1>1, SameShape DEF FlashTypes, flBuilder
<1>4. ASSUME NEW p \in Page, InList(p)
      PROVE  contents[p] = IF Clean(p) THEN pageData[p] ELSE Erased
  <2>1. CASE Clean(p)
    BY <1>1, <1>4, <2>1 DEF Erasing
  <2>2. CASE ~Clean(p)
    <3>1. Lists(SectorsToErase, Dirty)
      BY <1>1, PagesInLine
    <3>2. PICK i \in 1..Len(SectorsToErase) : SectorsToErase[i] = Sector(p)
      BY <2>2, <3>1, CleanPages DEF Lists
    <3>3. i < next
      BY <1>1, <3>1, <3>2 DEF FlashTypes, Lists
    <3> QED
      BY <1>1, <2>2, <3>2, <3>3, CleanPages DEF Erasing
  <2> QED
    BY <2>1, <2>2
<1>5. SectorsErased'
  BY <1>1, <1>4, SameBuilder DEF SectorsErased, Erasing, Compared, SameIsClean, flBuilder
<1> QED
  BY <1>1, <1>2, <1>3, <1>5 DEF CommitInv, FirstTry, Phases

LEMMA StageCommits ==
  ASSUME CommitInv, StageEnds
  PROVE  CommitInv'
<1>1. /\ \/ flPc = "erased" /\ flPc' = "again"
         \/ flPc = "programmed" /\ flPc' = "done"
      /\ next' = 1 /\ UNCHANGED <<flJob, flBuilder, contents, failures>>
      /\ FlashTypes /\ Untouched /\ Lined /\ Padding /\ Phases
  BY DEF StageEnds, Ends, CommitInv, Built, flTarget
<1>2. FlashTypes' /\ Untouched'
  BY <1>1, SameFlash DEF FlashTypes, flBuilder
<1>3. Lined' /\ Padding'
  BY <1>1, SameShape DEF FlashTypes, flBuilder
<1>4. Uncompared => Uncompared'
  BY <1>1, SameBuilder DEF Uncompared, flBuilder
<1>5. SectorsErased => SectorsErased'
  BY <1>1, SameBuilder DEF SectorsErased, Compared, SameIsClean, flBuilder
<1>6. Settled => Settled'
  BY <1>1, SameBuilder DEF Settled, Compared, flBuilder
<1>7. PagesDone => PagesDone'
  BY <1>1, SameBuilder DEF PagesDone, flBuilder
<1>8. Blank' = Blank
  BY DEF Blank
<1>9. Phases'
  BY <1>1, <1>4, <1>5, <1>6, <1>7, <1>8 DEF Phases
<1> QED
  BY <1>1, <1>2, <1>3, <1>9 DEF CommitInv, FirstTry

(* What is to be programmed is a page of the list, in a sector with        *)
(* something asked for.                                                    *)
LEMMA ChosenPages ==
  ASSUME Lined, NEW p \in Chosen
  PROVE  /\ p \in Page /\ InList(p) /\ TouchedIn(Sector(p))
         /\ Compared => ~Clean(p)
<1>1. p \in Page /\ InList(p)
  BY DEF Chosen
<1>2. Asked(p) \/ p \in Gaps
  BY <1>1 DEF Lined
<1>3. TouchedIn(Sector(p))
  BY <1>1, <1>2 DEF Gaps, TouchedIn, SectorOf
<1>4. ~flJob.double => ~Clean(p)
  BY DEF Chosen, Clean
<1>5. flJob.double => ~Clean(p)
  BY <1>1, CleanPages DEF Chosen, InList
<1> QED
  BY <1>1, <1>3, <1>4, <1>5

LEMMA PageProgrammed ==
  ASSUME FlashTypes, Untouched, Lined, Padding, NEW p \in Chosen, contents[p] = Erased,
         flJob' = flJob, contents' = Programmed(p, pageData[p])
  PROVE  /\ Untouched' /\ contents' \in [Page -> Nat \X Nat]
         /\ \A q \in Page : contents'[q] = IF q = p THEN pageData[p] ELSE contents[q]
<1>1. p \in Page /\ TouchedIn(Sector(p))
  BY ChosenPages
<1>2. contents' = [contents EXCEPT ![p] = pageData[p]]
  BY <1>1 DEF Programmed, FlashTypes
<1>3. /\ contents' \in [Page -> Nat \X Nat]
      /\ \A q \in Page : contents'[q] = IF q = p THEN pageData[p] ELSE contents[q]
  BY <1>1, <1>2 DEF FlashTypes
<1>4. \A half \in {1, 2} : flJob.wanted[p][half] = Keep
        => pageData[p][half] \in {0, flJob.before[p][half]}
  BY <1>1 DEF Padding
<1>5. Untouched'
  BY <1>1, <1>3, <1>4, SameRequest DEF Untouched
<1> QED
  BY <1>3, <1>5

(* The page at next is programmed, and counted or known to be done.        *)
LEMMA ProgramStep ==
  ASSUME CommitInv, flPc = "program", flPc' = "program", next \in 1..Len(PagesToProgram),
         UNCHANGED <<flJob, flBuilder, failures>>, contents[PagesToProgram[next]] = Erased,
         contents' = Programmed(PagesToProgram[next], pageData[PagesToProgram[next]]),
         \/ next' = next + 1 /\ running' = NoCall
         \/ next' = next /\ TargetDone'
  PROVE  CommitInv'
<1> DEFINE L == PagesToProgram
           p == L[next]
<1>1. FlashTypes /\ Untouched /\ Lined /\ Padding /\ Settled /\ Programming
  BY DEF CommitInv, Built, Phases
<1>2. Lists(L, Chosen)
  BY <1>1, PagesInLine
<1>3. p \in Chosen /\ \A i \in 1..Len(L) : L[i] \in Chosen /\ (L[i] = p => i = next)
  BY <1>2 DEF Lists
<1>4. \A i \in 1..Len(L) :
        IF i < next \/ (i = next /\ TargetDone)
          THEN contents[L[i]] = pageData[L[i]] ELSE contents[L[i]] = Erased
  BY <1>1 DEF Programming, TargetDone
<1>5. contents[p] = Erased /\ contents' = Programmed(p, pageData[p])
  OBVIOUS
<1>6. L' = L /\ pageData' = pageData
  BY SameBuilder DEF flBuilder
<1> HIDE DEF L, p
<1>7. /\ Untouched' /\ contents' \in [Page -> Nat \X Nat]
      /\ \A q \in Page : contents'[q] = IF q = p THEN pageData[p] ELSE contents[q]
  BY <1>1, <1>3, <1>5, PageProgrammed
<1>8. next \in Nat /\ next' \in Nat \ {0}
  BY <1>1 DEF FlashTypes
<1>9. FlashTypes'
  BY <1>1, <1>7, <1>8 DEF FlashTypes, flBuilder
<1>10. Lined' /\ Padding'
  BY <1>1, SameShape DEF FlashTypes, flBuilder
<1>11. \A q \in Page : contents'[q] = contents[q] \/ contents'[q] = pageData[q]
  BY <1>7
<1>12. Settled'
  <2>1. Compared'
    BY <1>1 DEF Settled, Compared, flBuilder
  <2> QED
    BY <1>1, <1>6, <1>11, <2>1, SameBuilder DEF Settled, flBuilder
<1>13. Programming'
  <2>1. \A i \in 1..Len(L) : IF i < next' \/ (i = next' /\ TargetDone')
          THEN contents'[L[i]] = pageData[L[i]] ELSE contents'[L[i]] = Erased
    <3> SUFFICES ASSUME NEW i \in 1..Len(L)
                 PROVE  IF i < next' \/ (i = next' /\ TargetDone')
                          THEN contents'[L[i]] = pageData[L[i]] ELSE contents'[L[i]] = Erased
      OBVIOUS
    <3>1. L[i] \in Page
      BY <1>1, <1>3, ChosenPages
    <3>2. TargetDone' => next' = next
      BY DEF TargetDone
    <3>3. CASE i = next
      <4>1. i < next' \/ (i = next' /\ TargetDone')
        BY <1>8, <3>3
      <4> QED
        BY <1>7, <3>1, <3>3, <4>1 DEF p
    <3>4. CASE i < next
      <4>1. i < next' /\ contents[L[i]] = pageData[L[i]]
        BY <1>4, <1>8, <3>4
      <4> QED
        BY <1>11, <3>1, <4>1
    <3>5. CASE i > next
      <4>1. ~(i < next') /\ ~(i = next' /\ TargetDone') /\ ~(i < next) /\ i # next
        BY <1>8, <3>2, <3>5
      <4>2. L[i] # p
        BY <1>3, <4>1
      <4> QED
        BY <1>4, <1>7, <3>1, <4>1, <4>2
    <3>6. i < next \/ i = next \/ i > next
      BY <1>8
    <3> QED
      BY <3>3, <3>4, <3>5, <3>6
  <2> QED
    BY <1>6, <2>1 DEF Programming, TargetDone, L
<1> QED
  BY <1>7, <1>9, <1>10, <1>12, <1>13 DEF CommitInv, FirstTry, Phases

LEMMA OnePageCommits ==
  ASSUME CommitInv, BufferInv, ProgramPage
  PROVE  CommitInv'
<1> DEFINE p == PagesToProgram[next]
<1>1. /\ flPc = "program" /\ next \in 1..Len(PagesToProgram)
      /\ UNCHANGED <<flJob, flBuilder, running>>
      /\ running = NoCall
  BY DEF ProgramPage, CommitInv, FlashTypes, BufferInv, BuffersInUse, flBuffers
<1>2. FlashTypes /\ Untouched /\ Lined /\ Padding /\ Programming
  BY <1>1 DEF CommitInv, Built, Phases
<1>3. contents[p] = Erased
  BY <1>1, <1>2 DEF Programming, FlashTypes
<1>4. p \in Chosen
  BY <1>1, <1>2, PagesInLine DEF Lists
<1>5. CASE /\ contents' = Programmed(p, pageData[p])
           /\ next' = next + 1 /\ UNCHANGED <<failures, flPc>>
  BY <1>1, <1>3, <1>5, ProgramStep
<1>6. CASE /\ OneFails /\ flPc' = "failed" /\ next' = next
           /\ contents' \in {contents, Programmed(p, pageData[p])}
  <2>1. Untouched' /\ contents' \in [Page -> Nat \X Nat]
    BY <1>1, <1>2, <1>3, <1>4, <1>6, PageProgrammed, SameFlash DEF FlashTypes
  <2> QED
    BY <1>1, <1>2, <1>6, <2>1, FailedStep DEF FlashTypes
<1> QED
  BY <1>5, <1>6 DEF ProgramPage

LEMMA TargetCommits ==
  ASSUME CommitInv, BufferInv, TargetPrograms
  PROVE  CommitInv'
<1>1. /\ running # NoCall /\ ~running.done /\ TargetDone'
      /\ UNCHANGED <<flJob, flBuilder, failures, flPc, next>>
      /\ contents' = Programmed(running.page, buffers[running.buffer])
  <2>1. running' = [running EXCEPT !.done = TRUE]
    BY DEF TargetPrograms
  <2>2. running'.done /\ running' # NoCall
    BY <2>1 DEF BufferInv, BufferTypes, NoCall
  <2> QED
    BY <2>2 DEF TargetPrograms, TargetDone
<1>2. /\ flPc = "program" /\ running.page = PagesToProgram[next]
      /\ buffers[running.buffer] = pageData[PagesToProgram[next]]
  BY <1>1 DEF BufferInv, BuffersInUse, BuffersInStep
<1>3. FlashTypes /\ Lined /\ Programming
  BY <1>2 DEF CommitInv, Built, Phases
<1>4. next \in 1..Len(PagesToProgram)
  BY <1>1, <1>3 DEF Programming, FlashTypes
<1>5. contents[PagesToProgram[next]] = Erased
  BY <1>1, <1>3, <1>4 DEF Programming, FlashTypes
<1> QED
  BY <1>1, <1>2, <1>4, <1>5, ProgramStep

LEMMA LoadCommits ==
  ASSUME CommitInv, LoadBuffer \/ StartProgram
  PROVE  CommitInv'
<1>1. UNCHANGED <<flJob, flBuilder, contents, flPc, next, failures>>
  BY DEF LoadBuffer, StartProgram, flTarget
<1>2. /\ TargetDone' = TargetDone
      /\ running' # NoCall => running # NoCall \/ next <= Len(PagesToProgram)
  BY DEF LoadBuffer, StartProgram, TargetDone
<1>3. failures' \in {failures, failures + 1}
  BY <1>1
<1> QED
  BY <1>1, <1>2, <1>3, KeptStep

LEMMA WaitCommits ==
  ASSUME CommitInv, BufferInv, WaitProgrammed
  PROVE  CommitInv'
<1>1. /\ UNCHANGED <<flJob, flBuilder, contents>> /\ flPc = "program"
      /\ running # NoCall /\ running' = NoCall
  BY DEF WaitProgrammed, flTarget, BufferInv, BuffersInUse
<1>2. FlashTypes /\ Untouched /\ Lined /\ Padding /\ Settled /\ Programming
  BY <1>1 DEF CommitInv, Built, Phases
<1>3. CASE OneFails /\ flPc' = "failed" /\ next' = next
  BY <1>1, <1>2, <1>3, SameFlash, FailedStep DEF FlashTypes
<1>4. CASE running.done /\ next' = next + 1 /\ UNCHANGED <<failures, flPc>>
  <2>1. FlashTypes' /\ Untouched'
    BY <1>1, <1>2, <1>4, SameFlash DEF FlashTypes, flBuilder
  <2>2. Lined' /\ Padding'
    BY <1>1, <1>2, <1>4, SameShape DEF FlashTypes, flBuilder
  <2>3. Settled'
    BY <1>1, <1>2, SameBuilder DEF Settled, Compared, flBuilder
  <2>4. Programming'
    <3>1. next \in Nat
      BY <1>2 DEF FlashTypes
    <3>2. \A i \in 1..Len(PagesToProgram) :
            /\ i < next' <=> i < next \/ (i = next /\ running # NoCall /\ running.done)
            /\ ~(i = next' /\ running' # NoCall /\ running'.done)
      BY <1>1, <1>4, <3>1
    <3>3. PagesToProgram' = PagesToProgram /\ pageData' = pageData /\ contents' = contents
      BY <1>1, SameBuilder DEF flBuilder
    <3> QED
      BY <1>1, <1>2, <3>2, <3>3 DEF Programming
  <2> QED
    BY <1>1, <1>4, <2>1, <2>2, <2>3, <2>4 DEF CommitInv, FirstTry, Phases
<1> QED
  BY <1>3, <1>4 DEF WaitProgrammed

LEMMA AllProgrammed ==
  ASSUME CommitInv, ProgramDone
  PROVE  CommitInv'
<1>1. /\ flPc = "program" /\ flPc' = "programmed" /\ next > Len(PagesToProgram)
      /\ UNCHANGED <<flJob, flBuilder, contents, failures, next>>
  BY DEF ProgramDone, flTarget
<1>2. FlashTypes /\ Untouched /\ Lined /\ Padding /\ Settled /\ Programming
  BY <1>1 DEF CommitInv, Built, Phases
<1>3. FlashTypes' /\ Untouched'
  BY <1>1, <1>2, SameFlash DEF FlashTypes, flBuilder
<1>4. Lined' /\ Padding'
  BY <1>1, <1>2, SameShape DEF FlashTypes, flBuilder
<1>5. Settled'
  BY <1>1, <1>2, SameBuilder DEF Settled, Compared, flBuilder
<1>6. PagesDone
  <2> SUFFICES ASSUME NEW p \in Chosen PROVE contents[p] = pageData[p]
    BY DEF PagesDone
  <2>1. Lists(PagesToProgram, Chosen)
    BY <1>2, PagesInLine
  <2>2. PICK i \in 1..Len(PagesToProgram) : PagesToProgram[i] = p
    BY <2>1 DEF Lists
  <2>3. i < next
    BY <1>1, <1>2, <2>1, <2>2 DEF FlashTypes, Lists
  <2> QED
    BY <1>2, <2>2, <2>3 DEF Programming
<1>7. PagesDone'
  BY <1>1, <1>6, SameBuilder DEF PagesDone, flBuilder
<1> QED
  BY <1>1, <1>3, <1>4, <1>5, <1>7 DEF CommitInv, FirstTry, Phases

LEMMA RetryCommits ==
  ASSUME CommitInv, Retry
  PROVE  CommitInv'
<1>1. /\ flPc = "failed" /\ flPc' = "build" /\ UNCHANGED <<flJob, contents, failures>>
      /\ same' = [p \in Page |-> "absent"] /\ pageData' = Blank /\ next' = 1
  BY DEF Retry, flTarget
<1>2. FlashTypes'
  BY <1>1 DEF CommitInv, FlashTypes, Blank, Erased
<1>3. Untouched'
  BY <1>1, SameFlash DEF CommitInv
<1> QED
  BY <1>1, <1>2, <1>3 DEF CommitInv, FirstTry, Built, Phases

(* All steps.                                                              *)
LEMMA CommitStep ==
  ASSUME CommitInv, BufferInv, [FlashNext]_flVars
  PROVE  CommitInv'
<1>1. CASE UNCHANGED flVars
  <2>1. UNCHANGED <<flJob, flBuilder, contents, flPc, next, failures, running>>
    BY <1>1 DEF flVars, flTarget, flBuffers
  <2>2. failures' \in {failures, failures + 1}
    BY <2>1
  <2> QED
    BY <2>1, <2>2, KeptStep DEF TargetDone
<1>2. CASE Estimate
  <2>1. flPc \in {"estimate", "again"}
    BY <1>2 DEF Estimate
  <2> QED
    BY <1>2, <2>1, EstimateFirst, EstimateAgain
<1> QED
  BY <1>1, <1>2, CallsCommit, BuildCommits, EraseCommits, WipeCommits, EraseDoneCommits,
     StageCommits, OnePageCommits, LoadCommits, TargetCommits, WaitCommits, AllProgrammed,
     RetryCommits DEF FlashNext

(* The invariant of a commit, with that of the buffers.                    *)
LEMMA CommitInvAlways == FlashSpec => [](BufferInv /\ CommitInv)
<1>1. FlashInit => BufferInv /\ CommitInv
  BY InitCommits DEF FlashInit, BufferInv, BufferTypes, BuffersInUse, BuffersInStep, NoCall
<1>2. BufferInv /\ CommitInv /\ [FlashNext]_flVars => BufferInv' /\ CommitInv'
  BY BufferStep, CommitStep
<1> QED
  BY <1>1, <1>2, PTL DEF FlashSpec

(* At the end, a page has its data because it was programmed, or was the   *)
(* same, or is clean.                                                      *)
LEMMA CommitInvImplies == CommitInv => CommitIsComplete
<1> SUFFICES ASSUME CommitInv, flPc = "done"
             PROVE  /\ ~(flJob.double /\ flJob.analysis = "fast") => AskedIsThere
                    /\ flJob.keep /\ failures = 0 /\ ~flJob.double
                         => \A p \in ToKeep :
                              KeptIn(p) \/ (flJob.wipe /\ flJob.smart /\ AllBlank(Sector(p)))
  BY DEF CommitIsComplete
<1>1. FlashTypes /\ Untouched /\ Lined /\ Padding /\ Settled /\ PagesDone
  BY DEF CommitInv, Built, Phases
<1>2. \A p \in Page : same[p] \in {"absent", "yes", "no"}
  BY <1>1 DEF FlashTypes, Settled, Compared
<1>3. ASSUME NEW p \in Page, InList(p)
      PROVE  \/ contents[p] = pageData[p]
             \/ same[p] = "yes" /\ flJob.double
             \/ Clean(p) /\ flJob.wipe /\ flJob.smart /\ ~Asked(p)
  <2>1. CASE p \in Chosen
    BY <1>1, <2>1 DEF PagesDone
  <2>2. CASE p \notin Chosen /\ flJob.double
    BY <1>3, <2>2 DEF Chosen
  <2>3. CASE p \notin Chosen /\ ~flJob.double
    BY <1>1, <1>3, <2>3 DEF Chosen, Clean, Settled
  <2> QED
    BY <2>1, <2>2, <2>3
<1>4. ASSUME ~(flJob.double /\ flJob.analysis = "fast") PROVE AskedIsThere
  <2> SUFFICES ASSUME NEW p \in Page, NEW half \in {1, 2}, flJob.wanted[p][half] # Keep
               PROVE  flJob.wanted[p][half] = contents[p][half]
    BY DEF AskedIsThere
  <2>1. Asked(p)
    BY DEF Asked
  <2>2. InList(p)
    BY <1>1, <2>1 DEF Lined
  <2>3. contents[p] = pageData[p]
    BY <1>1, <1>3, <1>4, <2>1, <2>2 DEF Settled
  <2> QED
    BY <1>1, <2>3 DEF Padding
<1>5. ASSUME flJob.keep, failures = 0, ~flJob.double, NEW p \in ToKeep, ~KeptIn(p)
      PROVE  flJob.wipe /\ flJob.smart /\ AllBlank(Sector(p))
  <2>1. p \in Page
    BY DEF ToKeep
  <2>2. PICK half \in {1, 2} :
          flJob.wanted[p][half] = Keep /\ contents[p][half] # flJob.before[p][half]
    BY <1>5 DEF KeptIn
  <2>3. TouchedIn(Sector(p))
    BY <1>1, <1>5, <2>1, <2>2 DEF ToKeep, Untouched, TouchedIn
  <2>4. p \in Gaps
    BY <2>1, <2>2, <2>3 DEF Gaps, TouchedIn
  <2>5. InList(p)
    BY <1>1, <1>5, <2>1, <2>4 DEF Lined
  <2>6. pageData[p][half] = flJob.before[p][half]
    BY <1>1, <1>5, <2>1, <2>2 DEF Padding
  <2>7. Clean(p) /\ flJob.wipe /\ flJob.smart
    BY <1>3, <1>5, <2>1, <2>2, <2>5, <2>6
  <2>8. ASSUME NEW q \in SectorOf(Sector(p)), Asked(q) PROVE pageData[q] = Erased
    <3>1. q \in Page /\ Clean(q)
      BY <2>1, <2>7, CleanPages
    <3>2. same[q] # "no"
      BY <3>1, CleanPages
    <3> QED
      BY <1>1, <2>7, <2>8, <3>1, <3>2 DEF Settled
  <2> QED
    BY <2>7, <2>8 DEF AllBlank
<1> QED
  BY <1>4, <1>5

-----------------------------------------------------------------------------
(* Each step is one of the service                                         *)

(* What the service sees.                                                  *)
Served == <<contents, flJob.before, flJob.wanted, flJob.wipe, flJob.smart /\ flJob.keep>>

LEMMA ErasedIsServed ==
  ASSUME CommitInv, EraseNext \/ EraseAll
  PROVE  contents' = contents \/ (\E p \in Page : Flash!EraseSector(Sector(p))) \/ Flash!Wipe
<1>1. FlashTypes /\ Lined /\ flPc = "erase" /\ (~flJob.wipe => Erasing)
  BY DEF EraseNext, EraseAll, CommitInv, Built, Phases
<1>2. CASE EraseAll
  BY <1>2 DEF EraseAll, Flash!Wipe, Blank, Erased, Flash!Erased
<1>3. CASE EraseNext
  <2> DEFINE s == SectorsToErase[next]
  <2>1. contents' = contents \/ contents' = After(s)
    BY <1>3 DEF EraseNext
  <2>2. next \in 1..Len(SectorsToErase) /\ ~flJob.wipe
    BY <1>1, <1>3 DEF EraseNext, FlashTypes
  <2>3. s \in Dirty
    BY <1>1, <2>2, PagesInLine DEF Lists
  <2>4. flJob.smart /\ flJob.keep => Flash!Differs(s)
    BY <1>1, <2>2 DEF Erasing, FlashTypes
  <2> HIDE DEF s
  <2>5. PICK p \in Page : Sector(p) = s
    BY <2>3 DEF Dirty, Sectors
  <2>6. Flash!Touched(s)
    BY <1>1, <2>3, DirtyIsTouched DEF TouchedIn, Flash!Touched, Asked, SectorOf
  <2>7. contents' = After(s) => Flash!EraseSector(Sector(p))
    BY <2>4, <2>5, <2>6 DEF Flash!EraseSector, After, Erased, Flash!Erased
  <2> QED
    BY <2>1, <2>5, <2>7
<1> QED
  BY <1>2, <1>3

LEMMA ProgrammedIsServed ==
  ASSUME FlashTypes, Lined, Padding, NEW p \in Chosen, contents[p] = Erased,
         contents' = Programmed(p, pageData[p])
  PROVE  Flash!Program(p)
<1>1. p \in Page /\ TouchedIn(Sector(p))
  BY ChosenPages
<1>2. Flash!Touched(Sector(p))
  BY <1>1 DEF TouchedIn, Flash!Touched, Asked, SectorOf
<1>3. PICK first \in Nat, second \in Nat : pageData[p] = <<first, second>>
  BY <1>1 DEF FlashTypes
<1>4. contents' = [contents EXCEPT ![p] = <<first, second>>]
  BY <1>1, <1>3 DEF Programmed, FlashTypes
<1>5. /\ flJob.wanted[p][1] # Keep => first = flJob.wanted[p][1]
      /\ flJob.wanted[p][2] # Keep => second = flJob.wanted[p][2]
      /\ flJob.wanted[p][1] = Keep => first \in {0, flJob.before[p][1]}
      /\ flJob.wanted[p][2] = Keep => second \in {0, flJob.before[p][2]}
  BY <1>1, <1>3 DEF Padding
<1>6. Flash!Holds(<<first, second>>, flJob.wanted[p])
  BY <1>5 DEF Flash!Holds
<1>7. {first, second} \subseteq {0, flJob.wanted[p][1], flJob.wanted[p][2],
                                 flJob.before[p][1], flJob.before[p][2]}
  BY <1>5
<1> QED
  BY <1>2, <1>4, <1>5, <1>6, <1>7 DEF Flash!Program, Erased, Flash!Erased

LEMMA StepIsServed ==
  ASSUME CommitInv, BufferInv, [FlashNext]_flVars
  PROVE  [Flash!Next]_Served
<1>1. flJob' = flJob
  BY DEF FlashNext, flVars, CallInit, RaiseFlash, AlreadyInited, CallUnInit, Build, Estimate,
     EraseNext, EraseAll, EraseDone, StageEnds, ProgramPage, LoadBuffer, StartProgram,
     TargetPrograms, WaitProgrammed, ProgramDone, Retry
<1>2. CASE contents' = contents
  BY <1>1, <1>2 DEF Served
<1>3. CASE EraseNext \/ EraseAll
  <2>1. (\E p \in Page : Flash!EraseSector(Sector(p))) \/ Flash!Wipe \/ contents' = contents
    BY <1>3, ErasedIsServed
  <2> QED
    BY <1>1, <1>2, <2>1 DEF Flash!Next, Served
<1>4. CASE ProgramPage /\ contents' # contents
  <2>1. /\ flPc = "program" /\ running = NoCall /\ next <= Len(PagesToProgram)
        /\ contents' = Programmed(PagesToProgram[next], pageData[PagesToProgram[next]])
    BY <1>4 DEF ProgramPage, BufferInv, BuffersInUse
  <2>2. FlashTypes /\ Lined /\ Padding /\ Programming
    BY <2>1 DEF CommitInv, Built, Phases
  <2>3. next \in 1..Len(PagesToProgram)
    BY <2>1, <2>2 DEF FlashTypes
  <2>4. contents[PagesToProgram[next]] = Erased
    BY <2>1, <2>2, <2>3 DEF Programming, FlashTypes
  <2>5. PagesToProgram[next] \in Chosen /\ PagesToProgram[next] \in Page
    BY <2>2, <2>3, PagesInLine DEF Lists, Chosen
  <2>6. Flash!Program(PagesToProgram[next])
    BY <2>1, <2>2, <2>4, <2>5, ProgrammedIsServed
  <2> QED
    BY <1>1, <2>5, <2>6 DEF Flash!Next, Served
<1>5. CASE TargetPrograms
  <2>1. /\ running # NoCall /\ ~running.done
        /\ contents' = Programmed(running.page, buffers[running.buffer])
    BY <1>5 DEF TargetPrograms
  <2>2. /\ flPc = "program" /\ running.page = PagesToProgram[next]
        /\ buffers[running.buffer] = pageData[PagesToProgram[next]]
    BY <2>1 DEF BufferInv, BuffersInUse, BuffersInStep
  <2>3. FlashTypes /\ Lined /\ Padding /\ Programming
    BY <2>2 DEF CommitInv, Built, Phases
  <2>4. next \in 1..Len(PagesToProgram)
    BY <2>1, <2>3 DEF Programming, FlashTypes
  <2>5. contents[PagesToProgram[next]] = Erased
    BY <2>1, <2>3, <2>4 DEF Programming, FlashTypes
  <2>6. PagesToProgram[next] \in Chosen /\ PagesToProgram[next] \in Page
    BY <2>3, <2>4, PagesInLine DEF Lists, Chosen
  <2>7. Flash!Program(PagesToProgram[next])
    BY <2>1, <2>2, <2>3, <2>5, <2>6, ProgrammedIsServed
  <2> QED
    BY <1>1, <2>6, <2>7 DEF Flash!Next, Served
<1>6. contents' = contents \/ EraseNext \/ EraseAll \/ ProgramPage \/ TargetPrograms
  BY DEF FlashNext, flVars, flTarget, CallInit, AlreadyInited, CallUnInit, Build, Estimate,
     EraseDone, StageEnds, LoadBuffer, StartProgram, WaitProgrammed, ProgramDone, Retry
<1> QED
  BY <1>2, <1>3, <1>4, <1>5, <1>6
-----------------------------------------------------------------------------
(* The theorems                                                            *)

(* A page is never programmed with the data of another: whatever fails and *)
(* is tried again, the buffer a call of ProgramPage reads holds the data   *)
(* of the page it was started for, while the next page is loaded.          *)
THEOREM ProgrammedFromRightBuffer == FlashSpec => []RightBuffer
<1>1. FlashInit => BufferInv
  BY DEF FlashInit, BufferInv, BufferTypes, BuffersInUse, BuffersInStep, NoCall
<1>2. BufferInv /\ [FlashNext]_flVars => BufferInv'
  BY BufferStep
<1>3. BufferInv => RightBuffer
  BY DEF BufferInv, BuffersInUse, BuffersInStep, RightBuffer
<1> QED
  BY <1>1, <1>2, <1>3, PTL DEF FlashSpec

(* Each call that changes the flash is made of, or still runs in, an       *)
(* algorithm inited for that operation, unless an UnInit failed.           *)
THEOREM CallsAreInitedAlways == FlashSpec => CallsAreInited
<1>1. FlashInit => ActiveIsInited
  BY DEF FlashInit, ActiveIsInited
<1>2. ASSUME ActiveIsInited, [FlashNext]_flVars
      PROVE  ActiveIsInited'
  <2>1. CASE CallInit \/ CallUnInit
    BY <1>2, <2>1 DEF ActiveIsInited, CallInit, CallUnInit
  <2>2. CASE UNCHANGED <<algo, active, uninitFailed>>
    BY <1>2, <2>2 DEF ActiveIsInited
  <2> QED
    BY <1>2, <2>1, <2>2
    DEF FlashNext, flVars, flTarget, AlreadyInited, Build, Estimate, EraseNext, EraseAll,
        EraseDone, StageEnds, ProgramPage, LoadBuffer, StartProgram, TargetPrograms,
        WaitProgrammed, ProgramDone, Retry
<1>3. FlashInit => BufferInv
  BY DEF FlashInit, BufferInv, BufferTypes, BuffersInUse, BuffersInStep, NoCall
<1>4. BufferInv /\ [FlashNext]_flVars => BufferInv'
  BY BufferStep
<1>5. ASSUME ActiveIsInited, BufferInv, [FlashNext]_flVars, contents' # contents
      PROVE  uninitFailed \/ algo = InitedFor
  <2>1. active = InitedFor /\ InitedFor # "none"
    <3>1. CASE EraseNext \/ EraseAll
      BY <3>1 DEF EraseNext, EraseAll, Ready, Needed, Reading, InitedFor
    <3>2. CASE ProgramPage
      BY <3>2 DEF ProgramPage, Ready, Needed, Reading, InitedFor
    <3>3. CASE TargetPrograms
      BY <1>5, <3>3 DEF TargetPrograms, BufferInv, BuffersInUse, InitedFor
    <3>4. EraseNext \/ EraseAll \/ ProgramPage \/ TargetPrograms
      BY <1>5 DEF FlashNext, flVars, flTarget, CallInit, AlreadyInited, CallUnInit, Build,
         Estimate, EraseDone, StageEnds, LoadBuffer, StartProgram, WaitProgrammed,
         ProgramDone, Retry
    <3> QED
      BY <3>1, <3>2, <3>3, <3>4
  <2> QED
    BY <1>5, <2>1 DEF ActiveIsInited
<1> QED
  BY <1>1, <1>2, <1>3, <1>4, <1>5, PTL DEF FlashSpec, CallsAreInited

(* The builder, the flash and the counters keep their types.               *)
THEOREM FlashTypeCorrect == FlashSpec => []FlashTypes
<1>1. FlashSpec => [](BufferInv /\ CommitInv)
  BY CommitInvAlways
<1>3. CommitInv => FlashTypes
  BY DEF CommitInv
<1> QED
  BY <1>1, <1>3, PTL

(* When a commit returns, after any failures and retries, what was asked   *)
(* for is in the flash, and, as far as CommitIsComplete promises it, what  *)
(* was beside it: no page is skipped that the erase has taken, none is     *)
(* programmed twice, none is left out.                                     *)
THEOREM CommitIsCompleteAlways == FlashSpec => []CommitIsComplete
<1>1. FlashSpec => [](BufferInv /\ CommitInv)
  BY CommitInvAlways
<1> QED
  BY <1>1, CommitInvImplies, PTL

(* Every behaviour of builder, calls and target is one of the service:     *)
(* sectors are erased only if something in them is asked for, and, to keep *)
(* what is there, only if it differs; a page is programmed only while it is *)
(* erased, with what was asked for and what it had; whatever fails and is  *)
(* tried again.                                                            *)
THEOREM FlashImplementsService == FlashSpec => FlashServiceSpec
<1>1. FlashInit => contents = flJob.before
  BY DEF FlashInit
<1>2. FlashSpec => [](BufferInv /\ CommitInv)
  BY CommitInvAlways
<1>3. BufferInv /\ CommitInv /\ [FlashNext]_flVars => [Flash!Next]_Served
  BY StepIsServed
<1>4. FlashSpec => [][Flash!Next]_Served
  BY <1>1, <1>2, <1>3, PTL DEF FlashSpec
<1>5. FlashSpec => contents = flJob.before
  BY <1>1 DEF FlashSpec
<1> QED
  BY <1>4, <1>5 DEF FlashServiceSpec, Flash!Spec, Served
=============================================================================
