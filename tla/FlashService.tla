----------------------------- MODULE FlashService -----------------------------
(***************************************************************************)
(* What programming a region of flash promises, whatever is erased and     *)
(* programmed in which order: a page is programmed only while it is        *)
(* erased, with the data that was asked for, and a sector is erased only   *)
(* if something in it is asked for.  The contents of a page are two        *)
(* halves; 0 is erased and Keep is a half nobody asked for.                *)
(***************************************************************************)
EXTENDS Integers

CONSTANTS Page, Sector(_), Keep

VARIABLES contents,   \* the contents of the flash
          before,  \* its contents when the first commit began
          wanted,  \* what was added to the builder
          mayWipe, \* the whole region may be erased
          picky    \* sectors that have what is wanted are to be left alone

Erased == <<0, 0>>

(* The contents of a page satisfy a request for it.                        *)
Holds(content, request) ==
  \A half \in {1, 2} : request[half] # Keep => content[half] = request[half]

Touched(s) == \E p \in Page : Sector(p) = s /\ wanted[p] # <<Keep, Keep>>
Differs(s) == \E p \in Page : Sector(p) = s /\ ~Holds(contents[p], wanted[p])

EraseSector(s) ==
  /\ Touched(s) /\ (picky => Differs(s))
  /\ contents' = [p \in Page |-> IF Sector(p) = s THEN Erased ELSE contents[p]]

Wipe == mayWipe /\ contents' = [p \in Page |-> Erased]

(* A half that was not asked for stays erased or gets back what it had.    *)
Program(p) ==
  /\ contents[p] = Erased /\ Touched(Sector(p))
  /\ \E first, second \in {0, wanted[p][1], wanted[p][2], before[p][1], before[p][2]} :
       /\ contents' = [contents EXCEPT ![p] = <<first, second>>]
       /\ Holds(<<first, second>>, wanted[p])
       /\ wanted[p][1] = Keep => first \in {0, before[p][1]}
       /\ wanted[p][2] = Keep => second \in {0, before[p][2]}

Next ==
  /\ \/ \E p \in Page : EraseSector(Sector(p)) \/ Program(p)
     \/ Wipe
  /\ UNCHANGED <<before, wanted, mayWipe, picky>>

Spec == contents = before /\ [][Next]_<<contents, before, wanted, mayWipe, picky>>
=============================================================================
