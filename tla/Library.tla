------------------------------- MODULE Library -------------------------------
(***************************************************************************)
(* The library for TLC: lists, hash tables and bitmaps, and the framework  *)
(* that runs their tests, with its wrapper that goes on after a crash.     *)
(*                                                                         *)
(* The modules share no variable, and each behaviour has the steps of one  *)
(* of them, its "part", while the others stay where they start.            *)
(***************************************************************************)
EXTENDS Integers, Sequences

VARIABLES
  part,
  sorted, heap, first, last, numInList, listResult, listAbort,
  buckets, numItems, iter, visited, result, abort,
  map, bit,
  text, line, read, textAt,
  written, groups_, runnerAt, todo, current_test_, only, obj, live, used, report, asked, runs,
  tests, log_, jrn_, wrapperAt, gni, test, outcome, shown, kills

(* Four items, two of them equal to compare. *)
L == INSTANCE LinkedList
  WITH Item <- {"a", "b", "c", "d"}, Address <- {1, 2, 3, 4},
       Key <- [a |-> 1, b |-> 2, c |-> 2, d |-> 3],
       result <- listResult, abort <- listAbort

(* Keys that collide, and two items with one key. *)
H == INSTANCE HashTable
  WITH Item <- {"a", "b", "c", "d", "e", "f"},
       getKey <- [a |-> "k0", b |-> "k2", c |-> "k4", d |-> "k1", e |-> "k3", f |-> "k3"],
       hash <- [k0 |-> 0, k1 |-> 1, k2 |-> 2, k3 |-> 3, k4 |-> 4],
       InitialBuckets <- 1, ResizeRatio <- 1, IncreaseSizeBy <- 2

B == INSTANCE Bitmap WITH numBits <- 7, BitsInWord <- 3, result <- bit

(* Every char, and texts of two chars around the borders. *)
Border == {-128, -1, 0, 10, 32, 47, 48, 92, 97, 127}

E == INSTANCE EscapedText
  WITH Texts <- {<<>>} \cup {<<c>> : c \in -128 .. 127} \cup {<<c, d>> : c, d \in Border},
       pc <- textAt

(* Groups of two tests: what the first and the second do, and whether the    *)
(* constructor throws.                                                       *)
Does(body, dtor) == [body |-> body, dtor |-> dtor]
Dummy == Does("dummy", "fine")
Groups ==
  [ctor : {"fine"},
   tests : {<<Dummy, Does("ok", "fine")>>, <<Does("ok", "throws"), Dummy>>, <<Dummy, Dummy>>,
            <<Does("fail", "fine"), Does("ok", "fine")>>, <<Does("throws", "fine"), Does("fail", "throws")>>}]
    \cup {[ctor |-> "throws", tests |-> <<Dummy, Does("ok", "fine")>>]}

T == INSTANCE TestRunner
  WITH GroupOrder <- <<"g", "h">>, MaxTestsInGroup <- 2, Group <- Groups, MaxRuns <- 2,
       pc <- runnerAt

R == INSTANCE Restartable
  WITH GroupOrder <- <<"g", "h">>, MaxTestsInGroup <- 2, Outcome <- {"dummy", "crash", "ok"},
       MaxJournal <- 20, Kills <- 2, pc <- wrapperAt, result <- outcome

ASSUME LibraryAssumption == L!AddressAssumption /\ B!BitmapAssumption

-----------------------------------------------------------------------------
vL == <<sorted, heap, first, last, numInList, listResult, listAbort>>
vH == <<buckets, numItems, iter, visited, result, abort>>
vB == <<map, bit>>
vE == <<text, line, read, textAt>>
vT == <<written, groups_, runnerAt, todo, current_test_, only, obj, live, used, report, asked, runs>>
vR == <<tests, log_, jrn_, wrapperAt, gni, test, outcome, shown, kills>>
vars == <<part, vL, vH, vB, vE, vT, vR>>

(* Every start of the part, one start of the others. *)
Init ==
  /\ part \in {"list", "hash", "bitmap", "text", "runner", "wrapper"}
  /\ part = "list" \/ sorted = FALSE
  /\ part = "text" \/ text = <<>>
  /\ part = "runner" \/ written = [name \in {"g", "h"} |-> CHOOSE group \in Groups : TRUE]
  /\ part = "wrapper" \/ tests = [name \in {"g", "h"} |-> <<"ok", "ok">>]
  /\ L!Init
  /\ H!Init
  /\ B!Init
  /\ E!Init
  /\ T!Init
  /\ R!Init

Next ==
  /\ UNCHANGED part
  /\ \/ part = "list" /\ L!Next /\ UNCHANGED <<vH, vB, vE, vT, vR>>
     \/ part = "hash" /\ H!Next /\ UNCHANGED <<vL, vB, vE, vT, vR>>
     \/ part = "bitmap" /\ B!Next /\ UNCHANGED <<vL, vH, vE, vT, vR>>
     \/ part = "text" /\ E!Next /\ UNCHANGED <<vL, vH, vB, vT, vR>>
     \/ part = "runner" /\ T!Next /\ UNCHANGED <<vL, vH, vB, vE, vR>>
     \/ part = "wrapper" /\ R!Next /\ UNCHANGED <<vL, vH, vB, vE, vT>>

(* The wrapper goes on, and a program that crashed is started again. *)
Fairness == WF_vR(part = "wrapper" /\ R!Step)

Spec == Init /\ [][Next]_vars /\ Fairness

-----------------------------------------------------------------------------
(* Properties, as the modules of the components define them.                *)

(* A list is a sequence of its items, stable among equals if it is sorted, a *)
(* hash table a set of items by their keys, a bitmap a set of numbers; and   *)
(* the SanityChecks hold in every state, no element of a list leaks, and the *)
(* iterator of a table has been at every item once when it is done.          *)
ImplementCollections ==
  /\ L!Sequence!Init /\ [][part = "list" /\ L!Sequence!Next]_vL
  /\ H!Set!Init /\ [][part = "hash" /\ H!Set!Step]_vH
  /\ B!Set!Init /\ [][part = "bitmap" /\ B!Set!Next]_vB
  /\ [](part = "list" => L!ListIsSane /\ L!NoElementLeaks)
  /\ [](part = "hash" => H!TableIsSane /\ H!IteratesOverAll)

(* A text has nothing that separates records, and is read as it was written. *)
RoundTrip == part = "text" => E!RoundTrip /\ E!NoSeparator

(* A run reports every test it is about, once and with its result, and its   *)
(* summary adds up; every written test has an object of its own, and none    *)
(* outlives the run.                                                         *)
RunIsComplete ==
  part = "runner" =>
    T!ReportIsComplete /\ T!SummaryAgrees /\ T!ObjectsAreFresh /\ T!ObjectsAreDeleted

(* Over all the crashes of tests, the run ends and every test is shown once  *)
(* with its result.  If the wrapper itself is stopped it still ends, unless  *)
(* that was between the two lines of a result.                               *)
ShowsAll == part = "wrapper" => R!ShowsAll

(* Even if the wrapper is stopped, no test is left out in the end, and each  *)
(* is shown with its result, or as terminated.                               *)
NoneMissing == part = "wrapper" => R!NoneMissing
=============================================================================
