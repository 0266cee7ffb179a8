--------------------------- MODULE TransferService ---------------------------
(***************************************************************************)
(* What DAPAccessCMSISDAP promises of register accesses: reads are         *)
(* answered in the order in which they were issued, each with the words    *)
(* the target returned for it, or all reads outstanding at an error are    *)
(* given up at once.  How accesses share packets and how packets are       *)
(* pipelined does not show.                                                *)
(***************************************************************************)
EXTENDS Integers, Sequences, SequencesExt

VARIABLES length,       \* the number of words of each access, as issued
          outstanding,  \* the reads not answered yet, by number, in order
          result        \* of each: [state, words]

vars == <<length, outstanding, result>>

NoWords(state) == [state |-> state, words |-> <<>>]

(* The i-th word of access a is named by the pair.                         *)
WordsOf(a) == [state |-> "done", words |-> [i \in 1..length[a] |-> <<a, i>>]]

Init == length = <<>> /\ outstanding = <<>> /\ result = <<>>

Issue == length' # <<>> /\ Front(length') = length

Write ==
  /\ Issue
  /\ result' = Append(result, NoWords("posted"))
  /\ UNCHANGED outstanding

Read ==
  /\ Issue
  /\ outstanding' = Append(outstanding, Len(length) + 1)
  /\ result' = Append(result, NoWords("pending"))

(* The first n outstanding reads are answered.                             *)
Answer(n) ==
  /\ outstanding' = SubSeq(outstanding, n + 1, Len(outstanding))
  /\ result' = [a \in DOMAIN result |->
                  IF \E k \in 1..n : outstanding[k] = a
                    THEN WordsOf(a) ELSE result[a]]
  /\ UNCHANGED length

GiveUp ==
  /\ outstanding' = <<>>
  /\ result' = [a \in DOMAIN result |->
                  IF \E k \in DOMAIN outstanding : outstanding[k] = a
                    THEN NoWords("error") ELSE result[a]]
  /\ UNCHANGED length

Next == Write \/ Read \/ GiveUp \/ \E n \in 1..Len(outstanding) : Answer(n)

Spec == Init /\ [][Next]_vars
=============================================================================
